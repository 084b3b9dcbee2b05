---------------------------- MODULE UsbdevProofs ----------------------------
(***************************************************************************)
(* The USB device: the driver's accounting of buffers, for any number of   *)
(* endpoints and buffers and any depth of the FIFOs, and the data toggles  *)
(* of an endpoint, for any number of packets and sessions and any pattern  *)
(* of losses and late answers.                                             *)
(***************************************************************************)
EXTENDS UsbdevDriver, UsbPipe, SequenceTheorems, FiniteSetTheorems, TLAPS

-----------------------------------------------------------------------------
(* The driver.                                                             *)

(* The forms a transaction and a driver call can have. *)
LEMMA XactForms ==
  ASSUME xact \in Xacts
  PROVE  /\ Receiving => xact \in [kind : {"setup", "out"}, ep : Eps, nak : BOOLEAN]
         /\ xact.kind = "in" => xact \in [kind : {"in"}, ep : Eps, buf : Buffers, hasData : BOOLEAN]
         /\ xact.kind = "data" => xact \in [kind : {"data"}, ep : Eps, buf : Buffers]
BY DEF Xacts, NoXact, Receiving

LEMMA CallForms ==
  ASSUME call \in Calls
  PROVE  /\ call.op = "fill" => call \in [op : {"fill"}, setup : BOOLEAN]
         /\ call.op = "send" => call \in [op : {"send"}, ep : Eps, buf : Buffers]
         /\ call.op = "status" => call \in [op : {"status"}, ep : Eps, pend : BOOLEAN]
         /\ call.op \in {"clear", "cleared"} =>
              call \in [op : {"clear", "cleared"}, ep : Eps, buf : Buffers]
         /\ call.op = "enable" =>
              call \in [op : {"enable"}, ep : Eps, on : BOOLEAN, val : SUBSET Eps]
BY DEF Calls, Idle

Entries == [buf : Buffers, rdy : BOOLEAN, pend : BOOLEAN, sending : BOOLEAN]

LEMMA CancelType ==
  ASSUME NEW c \in Entries
  PROVE  Cancel(c) \in Entries /\ Cancel(c).buf = c.buf /\ ~Cancel(c).rdy
BY DEF Cancel, Entries

-----------------------------------------------------------------------------
(* Types. *)

LEMMA BusTypes ==
  ASSUME DrvTypeOK, BusStep
  PROVE  DrvTypeOK'
<1> USE DEF DrvTypeOK, HwTypeOK, swVars, client, fifos, inRegs, outRegs
<1>1. ASSUME InAcked, acked' = acked \cup {xact.ep}, UNCHANGED swVars
      PROVE  DrvTypeOK'
  <2>1. xact \in [kind : {"data"}, ep : Eps, buf : Buffers]
    BY <1>1, XactForms DEF InAcked
  <2> QED  BY <1>1, <2>1 DEF InAcked, Xacts
<1>2. ASSUME NEW b \in Buffers, OutTaken(b),
             UNCHANGED acked, UNCHANGED swVars
      PROVE  DrvTypeOK'
  <2>1. xact \in [kind : {"setup", "out"}, ep : Eps, nak : BOOLEAN]
    BY <1>2, XactForms DEF OutTaken
  <2>2. rx' \in Seq(Packets)
    <3>1. [ep |-> xact.ep, setup |-> xact.kind = "setup", buf |-> b] \in Packets
      BY <2>1 DEF Packets
    <3> QED  BY <1>2, <3>1, AppendProperties DEF OutTaken
  <2>3. configin' \in [Eps -> Entries]
    BY <1>2, <2>1, CancelType DEF OutTaken, Entries
  <2>4. avSetup' \subseteq Buffers /\ avOut' \subseteq Buffers
    BY <1>2 DEF OutTaken
  <2>5. /\ inStall' \subseteq Eps /\ outStall' \subseteq Eps /\ rxenOut' \subseteq Eps
        /\ inSent' \subseteq Eps /\ setNak' \subseteq Eps /\ xact' \in Xacts
    BY <1>2 DEF OutTaken, Xacts
  <2> QED  BY <1>2, <2>2, <2>3, <2>4, <2>5 DEF Entries
<1>3. ASSUME BusOther, UNCHANGED acked, UNCHANGED swVars
      PROVE  DrvTypeOK'
  <2>1. ASSUME NEW e \in Eps, NEW k \in {"setup", "out"}, OutToken(k, e)  PROVE DrvTypeOK'
    BY <1>3, <2>1 DEF OutToken, Xacts
  <2>2. ASSUME NEW e \in Eps, InToken(e)  PROVE DrvTypeOK'
    BY <1>3, <2>2 DEF InToken, Xacts
  <2>3. CASE OutDataWhenFull
    BY <1>3, <2>3, XactForms DEF OutDataWhenFull, Xacts
  <2>4. CASE OutNotTaken
    BY <1>3, <2>4 DEF OutNotTaken, Xacts
  <2>5. CASE InAnswer
    BY <1>3, <2>5, XactForms DEF InAnswer, Xacts
  <2>6. CASE InNotAcked
    BY <1>3, <2>6 DEF InNotAcked, Xacts
  <2>7. CASE LinkReset
    BY <1>3, <2>7, CancelType DEF LinkReset, Xacts, Entries
  <2> QED  BY <1>3, <2>1, <2>2, <2>3, <2>4, <2>5, <2>6, <2>7 DEF BusOther
<1> QED  BY <1>1, <1>2, <1>3 DEF BusStep

LEMMA FillTypes ==
  ASSUME DrvTypeOK, Fill
  PROVE  DrvTypeOK'
<1> USE DEF DrvTypeOK, HwTypeOK, client, hwVars, fifos, inRegs, outRegs
<1>1. CASE FillRead
  BY <1>1 DEF FillRead, Calls
<1>2. ASSUME NEW b \in Buffers, FillWrite(b)  PROVE DrvTypeOK'
  BY <1>2 DEF FillWrite, WriteAvSetup, WriteAvOut, Calls
<1> QED  BY <1>1, <1>2 DEF Fill

LEMMA ReapTypes ==
  ASSUME DrvTypeOK, Reap
  PROVE  DrvTypeOK'
<1> USE CallForms DEF DrvTypeOK, HwTypeOK, client, hwVars, fifos, inRegs, outRegs
<1>1. CASE StatusReadSent
  BY <1>1 DEF StatusReadSent, Calls, Statuses
<1>2. CASE ClearWritePend
  <2>1. call \in [op : {"clear", "cleared"}, ep : Eps, buf : Buffers]
    BY <1>2 DEF ClearWritePend
  <2>2. call' \in Calls
    BY <1>2, <2>1 DEF ClearWritePend, Calls
  <2>3. HwTypeOK'
    BY <1>2, <2>1, BuffersAssumption DEF ClearWritePend, ClearPend
  <2> QED  BY <1>2, <2>2, <2>3 DEF ClearWritePend, ClearPend
<1>3. CASE ClearWriteSent
  BY <1>3 DEF ClearWriteSent, ClearSent, Calls, Statuses
<1>4. CASE SendReady
  BY <1>4 DEF SendReady, WriteConfigin, Calls, Statuses
<1>5. CASE EnableWrite
  BY <1>5 DEF EnableWrite, WriteRxenOut, Calls
<1> QED  BY <1>1, <1>2, <1>3, <1>4, <1>5 DEF Reap

LEMMA DriverTypes ==
  ASSUME DrvTypeOK, Driver
  PROVE  DrvTypeOK'
<1> USE DEF DrvTypeOK, HwTypeOK, client, hwVars, fifos, inRegs, outRegs
<1>1. CASE Recv
  <2>1. Head(rx) \in Packets /\ Tail(rx) \in Seq(Packets)
    BY <1>1, HeadTailProperties DEF Recv, PopRx
  <2> QED  BY <1>1, <2>1 DEF Recv, PopRx, Packets
<1>2. CASE TxSent
  BY <1>2 DEF TxSent, Statuses
<1>3. ASSUME NEW b \in Buffers, ReadDone(b) \/ Request(b) \/ Discard(b)  PROVE DrvTypeOK'
  BY <1>3 DEF ReadDone, Request, Discard
<1>4. ASSUME NEW e \in Eps, NEW b \in Buffers, SendBuffer(e, b)  PROVE DrvTypeOK'
  BY <1>4 DEF SendBuffer, WriteConfigin, Calls
<1>5. ASSUME NEW e \in Eps, StatusRead(e)  PROVE DrvTypeOK'
  BY <1>5 DEF StatusRead, Calls, Statuses
<1>6. ASSUME NEW e \in Eps, ClearRead(e)  PROVE DrvTypeOK'
  BY <1>6 DEF ClearRead, Calls
<1>7. ASSUME NEW e \in NakEps, NEW on \in BOOLEAN, EnableRead(e, on)  PROVE DrvTypeOK'
  BY <1>7, NakEpsAssumption DEF EnableRead, Calls
<1> QED  BY <1>1, <1>2, <1>3, <1>4, <1>5, <1>6, <1>7, FillTypes, ReapTypes DEF Driver

-----------------------------------------------------------------------------
(* Sequences of packets: the buffers in them when one is added or taken. *)

BufsOf(s)   == {s[i].buf : i \in DOMAIN s}
Distinct(s) == \A i, j \in DOMAIN s : i # j => s[i].buf # s[j].buf

LEMMA AppendBufs ==
  ASSUME NEW s \in Seq(Packets), NEW p \in Packets, Distinct(s), p.buf \notin BufsOf(s)
  PROVE  /\ BufsOf(Append(s, p)) = BufsOf(s) \cup {p.buf}
         /\ Distinct(Append(s, p))
<1> DEFINE t == Append(s, p)
<1>1. /\ Len(s) \in Nat /\ DOMAIN s = 1..Len(s) /\ DOMAIN t = 1..(Len(s) + 1)
      /\ \A i \in 1..Len(s) : t[i] = s[i]
      /\ t[Len(s) + 1] = p
  BY AppendProperties, LenProperties
<1> HIDE DEF t
<1>2. \A i \in DOMAIN t : i \in DOMAIN s \/ i = Len(s) + 1
  BY <1>1
<1>3. Len(s) + 1 \in DOMAIN t /\ \A i \in DOMAIN s : i \in DOMAIN t
  BY <1>1
<1>4. BufsOf(t) = BufsOf(s) \cup {p.buf}
  BY <1>1, <1>2, <1>3 DEF BufsOf
<1>5. Distinct(t)
  BY <1>1, <1>2 DEF BufsOf, Distinct
<1> QED  BY <1>4, <1>5 DEF t

LEMMA TailBufs ==
  ASSUME NEW s \in Seq(Packets), s # <<>>, Distinct(s)
  PROVE  /\ Head(s).buf \in BufsOf(s)
         /\ BufsOf(Tail(s)) = BufsOf(s) \ {Head(s).buf}
         /\ Distinct(Tail(s))
<1> DEFINE t == Tail(s)
<1>1. /\ Len(s) \in Nat /\ Len(s) > 0 /\ DOMAIN s = 1..Len(s)
      /\ DOMAIN t = 1..(Len(s) - 1)
      /\ \A i \in DOMAIN t : t[i] = s[i + 1]
  BY HeadTailProperties, LenProperties, EmptySeq
<1>2. Head(s) = s[1] /\ 1 \in DOMAIN s
  BY <1>1
<1> HIDE DEF t
<1>3. /\ \A i \in DOMAIN t : i + 1 \in DOMAIN s /\ i + 1 # 1
      /\ \A i \in DOMAIN s : i # 1 => i - 1 \in DOMAIN t /\ t[i - 1] = s[i]
  BY <1>1
<1>4. BufsOf(t) = BufsOf(s) \ {s[1].buf}
  <2>1. ASSUME NEW b \in BufsOf(t)  PROVE b \in BufsOf(s) /\ b # s[1].buf
    <3>1. PICK i \in DOMAIN t : b = t[i].buf
      BY DEF BufsOf
    <3>2. i + 1 \in DOMAIN s /\ i + 1 # 1 /\ b = s[i + 1].buf
      BY <1>1, <1>3, <3>1
    <3> QED  BY <1>2, <3>2 DEF BufsOf, Distinct
  <2>2. ASSUME NEW b \in BufsOf(s), b # s[1].buf  PROVE b \in BufsOf(t)
    <3>1. PICK i \in DOMAIN s : b = s[i].buf
      BY DEF BufsOf
    <3>2. i - 1 \in DOMAIN t /\ t[i - 1] = s[i]
      BY <1>3, <2>2, <3>1
    <3> QED  BY <3>1, <3>2 DEF BufsOf
  <2> QED  BY <2>1, <2>2
<1>5. Distinct(t)
  <2> SUFFICES ASSUME NEW i \in DOMAIN t, NEW j \in DOMAIN t, i # j
               PROVE  t[i].buf # t[j].buf
    BY DEF Distinct
  <2>1. i + 1 \in DOMAIN s /\ j + 1 \in DOMAIN s /\ i + 1 # j + 1
    BY <1>1, <1>3
  <2> QED  BY <1>1, <2>1 DEF Distinct
<1>6. s[1].buf \in BufsOf(s)
  BY <1>2 DEF BufsOf
<1> QED  BY <1>2, <1>4, <1>5, <1>6 DEF t

-----------------------------------------------------------------------------
(* A step keeps the partition if it moves one buffer from one place to     *)
(* another, or none at all.                                                *)

HeldIs ==
  /\ Held["pool"] = pool /\ Held["avSetup"] = avSetup /\ Held["avOut"] = avOut
  /\ Held["rx"] = BufsOf(rx)
  /\ Held["reading"] = reading /\ Held["writing"] = writing
  /\ Held["queued"] = {TxBuf(e) : e \in queued}

LEMMA HeldValues == HeldIs
BY DEF HeldIs, Held, Holders, RxBuf, BufsOf

LEMMA HeldValuesNext == HeldIs'
BY DEF HeldIs, Held, Holders, RxBuf, BufsOf

TxDistinct == \A e, f \in queued : e # f => TxBuf(e) # TxBuf(f)

LEMMA ConservedIs == Conserved <=> Partition(Held) /\ Distinct(rx) /\ TxDistinct
BY DEF Conserved, Distinct, TxDistinct, RxBuf

LEMMA ConservedIsNext == Conserved' <=> Partition(Held') /\ Distinct(rx') /\ TxDistinct'
BY DEF Conserved, Distinct, TxDistinct, RxBuf, Partition

LEMMA MovedPartition ==
  ASSUME NEW H, NEW G, NEW x \in Holders, NEW y \in Holders, x # y, NEW b \in H[x],
         Partition(H),
         G[x] = H[x] \ {b}, G[y] = H[y] \cup {b},
         \A h \in Holders \ {x, y} : G[h] = H[h]
  PROVE  Partition(G)
<1>1. \A c \in Buffers : \E h \in Holders : c \in G[h]
  <2> SUFFICES ASSUME NEW c \in Buffers  PROVE \E h \in Holders : c \in G[h]
    OBVIOUS
  <2>1. PICK h \in Holders : c \in H[h]
    BY DEF Partition
  <2> QED  BY <2>1
<1>2. \A h1, h2 \in Holders : h1 # h2 => G[h1] \cap G[h2] = {}
  <2>1. \A h \in Holders \ {x} : b \notin H[h]
    BY DEF Partition
  <2> QED  BY <2>1 DEF Partition
<1> QED  BY <1>1, <1>2 DEF Partition

LEMMA Moved ==
  ASSUME Conserved, NEW x \in Holders, NEW y \in Holders, x # y, NEW b \in Held[x],
         Held'[x] = Held[x] \ {b}, Held'[y] = Held[y] \cup {b},
         \A h \in Holders \ {x, y} : Held'[h] = Held[h],
         Distinct(rx'), TxDistinct'
  PROVE  Conserved'
<1>1. Partition(Held)
  BY ConservedIs
<1>2. Partition(Held')
  BY <1>1, MovedPartition, Zenon
<1> QED  BY <1>2, ConservedIsNext

SameTx == queued' = queued /\ \A e \in queued : TxBuf(e)' = TxBuf(e)

LEMMA TxKept ==
  ASSUME SameTx, Conserved
  PROVE  TxDistinct' /\ {TxBuf(e) : e \in queued}' = {TxBuf(e) : e \in queued}
<1>1. TxDistinct
  BY ConservedIs
<1> QED  BY <1>1 DEF SameTx, TxDistinct

LEMMA Unmoved ==
  ASSUME Conserved, SameTx,
         UNCHANGED <<pool, avSetup, avOut, rx, reading, writing>>
  PROVE  Conserved'
<1>1. \A h \in Holders : Held'[h] = Held[h]
  BY HeldValues, HeldValuesNext, TxKept DEF HeldIs, Holders
<1>2. Partition(Held) /\ Distinct(rx)
  BY ConservedIs
<1>3. Partition(Held')
  BY <1>1, <1>2 DEF Partition
<1> QED  BY <1>2, <1>3, TxKept, ConservedIsNext

-----------------------------------------------------------------------------
(* The inductive invariant: what a driver call in progress relies on stays *)
(* true until its next register access.                                    *)

CallInv ==
  /\ call.op = "send" => call.buf \in writing /\ call.ep \notin queued
  /\ call.op = "clear" => call.ep \in queued /\ call.buf = configin[call.ep].buf
  /\ call.op = "cleared" => call.ep \in queued

IInv == DrvTypeOK /\ Conserved /\ NoOverflow /\ CallInv

LEMMA Cards ==
  ASSUME NEW S \in SUBSET Buffers, NEW T \in SUBSET S
  PROVE  /\ Cardinality(S) \in Nat /\ Cardinality(T) \in Nat
         /\ Cardinality(T) <= Cardinality(S)
<1>1. IsFiniteSet(S)
  BY BuffersAssumption, FS_Subset
<1> QED  BY <1>1, FS_Subset, FS_CardinalityType

LEMMA IdleIsNoCall == Idle.op = "idle"
BY DEF Idle

(* The bus takes buffers out of the available FIFOs only and leaves the    *)
(* buffer numbers in CONFIGIN alone.                                       *)
LEMMA BusKeepsCalls ==
  ASSUME IInv, UNCHANGED swVars,
         avSetup' \subseteq avSetup, avOut' \subseteq avOut,
         \A e \in Eps : configin'[e].buf = configin[e].buf
  PROVE  NoOverflow' /\ CallInv' /\ SameTx
<1>1. /\ Cardinality(avSetup) \in Nat /\ Cardinality(avSetup') \in Nat
      /\ Cardinality(avSetup') <= Cardinality(avSetup)
      /\ Cardinality(avOut) \in Nat /\ Cardinality(avOut') \in Nat
      /\ Cardinality(avOut') <= Cardinality(avOut)
  BY Cards DEF IInv, DrvTypeOK, HwTypeOK
<1>2. NoOverflow'
  BY <1>1, DepthAssumption DEF IInv, NoOverflow, swVars
<1>3. CallInv'
  BY CallForms DEF IInv, CallInv, swVars, client, DrvTypeOK
<1>4. SameTx
  BY DEF IInv, DrvTypeOK, SameTx, TxBuf, swVars, client
<1> QED  BY <1>2, <1>3, <1>4

LEMMA OutTakenConserves ==
  ASSUME IInv, NEW b \in Buffers, OutTaken(b), UNCHANGED swVars, SameTx
  PROVE  Conserved'
<1>1. xact \in [kind : {"setup", "out"}, ep : Eps, nak : BOOLEAN]
  BY XactForms DEF OutTaken, IInv, DrvTypeOK, HwTypeOK
<1>2. PICK p \in Packets : p.buf = b /\ rx' = Append(rx, p)
  <2>1. [ep |-> xact.ep, setup |-> xact.kind = "setup", buf |-> b] \in Packets
    BY <1>1 DEF Packets
  <2> QED  BY <2>1 DEF OutTaken
<1>3. PICK x \in {"avSetup", "avOut"} :
        /\ b \in Held[x] /\ Held'[x] = Held[x] \ {b}
        /\ \A h \in {"avSetup", "avOut"} \ {x} : Held'[h] = Held[h]
  BY HeldValues, HeldValuesNext DEF HeldIs, OutTaken, Available
<1>4. b \notin BufsOf(rx)
  <2>1. x \in Holders /\ "rx" \in Holders /\ x # "rx"
    BY DEF Holders
  <2> QED  BY <1>3, <2>1, HeldValues, ConservedIs DEF HeldIs, IInv, Partition
<1>5. Distinct(rx') /\ Held'["rx"] = Held["rx"] \cup {b}
  BY <1>2, <1>4, AppendBufs, HeldValues, HeldValuesNext, ConservedIs
     DEF HeldIs, IInv, DrvTypeOK, HwTypeOK
<1>6. \A h \in Holders \ {x, "rx"} : Held'[h] = Held[h]
  BY <1>3, TxKept, HeldValues, HeldValuesNext DEF HeldIs, Holders, IInv, swVars, client
<1>7. TxDistinct'
  BY TxKept DEF IInv
<1>8. x \in Holders /\ "rx" \in Holders /\ x # "rx"
  BY DEF Holders
<1> QED  BY <1>3, <1>5, <1>6, <1>7, <1>8, Moved, Zenon DEF IInv

LEMMA BusInductive ==
  ASSUME IInv, BusStep
  PROVE  IInv'
<1> USE DEF IInv
<1>1. DrvTypeOK'
  BY BusTypes
<1>2. UNCHANGED swVars
  BY DEF BusStep
<1>3. CASE \E b \in Buffers : OutTaken(b)
  <2>1. PICK b \in Buffers : OutTaken(b)
    BY <1>3
  <2>2. xact.ep \in Eps
    BY <2>1, XactForms DEF OutTaken, DrvTypeOK, HwTypeOK
  <2>3. /\ avSetup' \subseteq avSetup /\ avOut' \subseteq avOut
        /\ \A e \in Eps : configin'[e].buf = configin[e].buf
    BY <2>1, <2>2, CancelType DEF OutTaken, DrvTypeOK, HwTypeOK, Entries
  <2> QED  BY <1>1, <1>2, <2>1, <2>3, BusKeepsCalls, OutTakenConserves
<1>4. CASE InAcked \/ BusOther
  <2>1. UNCHANGED fifos /\ \A e \in Eps : configin'[e].buf = configin[e].buf
    <3>1. CASE InAcked
      BY <3>1 DEF InAcked, DrvTypeOK, HwTypeOK
    <3>2. CASE \E e \in Eps : InToken(e)
      BY <3>2 DEF InToken, DrvTypeOK, HwTypeOK
    <3>3. CASE LinkReset
      BY <3>3, CancelType DEF LinkReset, DrvTypeOK, HwTypeOK, Entries
    <3>4. ASSUME UNCHANGED fifos, UNCHANGED inRegs
          PROVE  UNCHANGED fifos /\ \A e \in Eps : configin'[e].buf = configin[e].buf
      BY <3>4 DEF inRegs
    <3> QED  BY <1>4, <3>1, <3>2, <3>3, <3>4
             DEF BusOther, OutToken, OutDataWhenFull, OutNotTaken, InAnswer, InNotAcked
  <2>2. NoOverflow' /\ CallInv' /\ SameTx
    BY <1>2, <2>1, BusKeepsCalls DEF fifos
  <2>3. Conserved'
    BY <1>2, <2>1, <2>2, Unmoved DEF fifos, swVars, client
  <2> QED  BY <1>1, <2>2, <2>3
<1> QED  BY <1>3, <1>4 DEF BusStep

-----------------------------------------------------------------------------
(* A step of the driver that only begins a call, or only looks. *)
LEMMA LookingConserves ==
  ASSUME Conserved, UNCHANGED <<hwVars, pool, reading, writing, queued>>,
         call.op # "cleared", call'.op # "cleared"
  PROVE  Conserved'
<1>1. SameTx
  BY DEF SameTx, TxBuf, hwVars, inRegs
<1> QED  BY <1>1, Unmoved DEF hwVars, fifos

LEMMA FillInductive ==
  ASSUME IInv, Fill
  PROVE  IInv'
<1> USE DEF IInv
<1>1. DrvTypeOK'
  BY FillTypes
<1>2. CASE FillRead
  <2>1. Cardinality(avSetup) \in Nat /\ Cardinality(avOut) \in Nat
    BY Cards DEF DrvTypeOK, HwTypeOK
  <2>2. NoOverflow' /\ CallInv'
    <3>1. /\ avSetup' = avSetup /\ avOut' = avOut
          /\ call'.op = "fill"
          /\ IF call'.setup THEN Cardinality(avSetup) < 2
                            ELSE Cardinality(avOut) < AvOutDepth
      BY <1>2 DEF FillRead, hwVars, fifos
    <3>2. 2 <= AvSetupDepth /\ AvSetupDepth \in Nat
      BY DepthAssumption
    <3> QED  BY <2>1, <3>1, <3>2 DEF NoOverflow, CallInv
  <2>3. Conserved'
    BY <1>2, LookingConserves, IdleIsNoCall DEF FillRead, client
  <2> QED  BY <1>1, <2>2, <2>3
<1>3. ASSUME NEW b \in Buffers, FillWrite(b)  PROVE IInv'
  <2>1. NoOverflow' /\ CallInv'
    BY <1>3, IdleIsNoCall DEF FillWrite, NoOverflow, CallInv
  <2>2. SameTx
    BY <1>3, IdleIsNoCall
       DEF FillWrite, SameTx, TxBuf, client, WriteAvSetup, WriteAvOut, inRegs
  <2>3. PICK y \in {"avSetup", "avOut"} :
          /\ Held'[y] = Held[y] \cup {b}
          /\ \A h \in {"avSetup", "avOut"} \ {y} : Held'[h] = Held[h]
          /\ rx' = rx
    BY <1>3, HeldValues, HeldValuesNext
       DEF FillWrite, HeldIs, WriteAvSetup, WriteAvOut, NoOverflow
  <2>4. b \in Held["pool"] /\ Held'["pool"] = Held["pool"] \ {b}
    BY <1>3, HeldValues, HeldValuesNext DEF FillWrite, HeldIs
  <2>5. TxDistinct' /\ Distinct(rx')
    BY <2>2, <2>3, TxKept, ConservedIs
  <2>6. \A h \in Holders \ {"pool", y} : Held'[h] = Held[h]
    BY <1>3, <2>2, <2>3, TxKept, HeldValues, HeldValuesNext
       DEF HeldIs, Holders, FillWrite, client
  <2>7. y \in Holders /\ "pool" \in Holders /\ y # "pool"
    BY DEF Holders
  <2>8. Conserved'
    BY <2>3, <2>4, <2>5, <2>6, <2>7, Moved, Zenon
  <2> QED  BY <1>1, <2>1, <2>8
<1> QED  BY <1>2, <1>3 DEF Fill

(* The client's own moves: received, returned, requested, discarded. *)
LEMMA ClientInductive ==
  ASSUME IInv, NEW b \in Buffers,
         (Recv /\ Head(rx).buf = b) \/ ReadDone(b) \/ Request(b) \/ Discard(b)
  PROVE  IInv'
<1> USE DEF IInv
<1>1. DrvTypeOK'
  BY DriverTypes DEF Driver
<1>2. call = Idle /\ call' = Idle
  BY DEF Recv, ReadDone, Request, Discard
<1>3. NoOverflow' /\ CallInv'
  BY <1>2, IdleIsNoCall DEF NoOverflow, CallInv
<1>4. SameTx
  BY <1>2, IdleIsNoCall DEF SameTx, TxBuf, Recv, ReadDone, Request, Discard, PopRx,
                            hwVars, inRegs
<1>5. TxDistinct'
  BY <1>4, TxKept
<1>6. CASE Recv /\ Head(rx).buf = b
  <2>1. /\ b \in BufsOf(rx) /\ BufsOf(rx') = BufsOf(rx) \ {b} /\ Distinct(rx')
    BY <1>6, TailBufs, ConservedIs DEF Recv, PopRx, DrvTypeOK, HwTypeOK
  <2>2. /\ b \in Held["rx"] /\ Held'["rx"] = Held["rx"] \ {b}
        /\ Held'["reading"] = Held["reading"] \cup {b}
        /\ \A h \in Holders \ {"rx", "reading"} : Held'[h] = Held[h]
    BY <1>4, <1>6, <2>1, TxKept, HeldValues, HeldValuesNext
       DEF HeldIs, Holders, Recv, PopRx
  <2>3. "rx" \in Holders /\ "reading" \in Holders /\ "rx" # "reading"
    BY DEF Holders
  <2> QED  BY <1>1, <1>3, <1>5, <2>1, <2>2, <2>3, Moved, Zenon
<1>7. CASE ReadDone(b) \/ Request(b) \/ Discard(b)
  <2>1. PICK x \in {"pool", "reading", "writing"}, y \in {"pool", "reading", "writing"} :
          /\ x # y /\ b \in Held[x]
          /\ Held'[x] = Held[x] \ {b} /\ Held'[y] = Held[y] \cup {b}
          /\ \A h \in {"pool", "reading", "writing"} \ {x, y} : Held'[h] = Held[h]
    BY <1>7, HeldValues, HeldValuesNext DEF HeldIs, ReadDone, Request, Discard
  <2>2. \A h \in Holders \ {x, y} : Held'[h] = Held[h]
    BY <1>4, <1>7, <2>1, TxKept, HeldValues, HeldValuesNext
       DEF HeldIs, Holders, ReadDone, Request, Discard, hwVars, fifos
  <2>3. x \in Holders /\ y \in Holders
    BY DEF Holders
  <2>4. Distinct(rx')
    BY <1>7, ConservedIs DEF ReadDone, Request, Discard, hwVars, fifos
  <2> QED  BY <1>1, <1>3, <1>5, <2>1, <2>2, <2>3, <2>4, Moved, Zenon
<1> QED  BY <1>6, <1>7

(* Queueing a packet, and taking back a buffer that was queued. *)
LEMMA QueueInductive ==
  ASSUME IInv, SendReady \/ ClearWriteSent
  PROVE  IInv'
<1> USE DEF IInv
<1> DEFINE b == call.buf
<1>1. DrvTypeOK'
  BY ReapTypes DEF Reap
<1>2. NoOverflow' /\ CallInv'
  BY IdleIsNoCall DEF NoOverflow, CallInv, SendReady, ClearWriteSent
<1>3. call.ep \in Eps /\ b \in Buffers /\ queued \subseteq Eps
  BY CallForms DEF SendReady, ClearWriteSent, DrvTypeOK
<1>4. Distinct(rx')
  BY ConservedIs DEF SendReady, ClearWriteSent, WriteConfigin, ClearSent, fifos
<1>5. CASE SendReady
  <2>1. \A e \in queued' : TxBuf(e)' = IF e = call.ep THEN b ELSE TxBuf(e)
    BY <1>3, <1>5, IdleIsNoCall
       DEF SendReady, WriteConfigin, TxBuf, DrvTypeOK, HwTypeOK
  <2>2. b \in writing /\ call.ep \notin queued /\ queued' = queued \cup {call.ep}
    BY <1>5 DEF SendReady, CallInv
  <2>3. {TxBuf(e) : e \in queued}' = {TxBuf(e) : e \in queued} \cup {b}
    BY <2>1, <2>2
  <2>4. /\ b \in Held["writing"] /\ Held'["writing"] = Held["writing"] \ {b}
        /\ Held'["queued"] = Held["queued"] \cup {b}
        /\ \A h \in Holders \ {"writing", "queued"} : Held'[h] = Held[h]
    BY <1>5, <2>2, <2>3, HeldValues, HeldValuesNext
       DEF HeldIs, Holders, SendReady, WriteConfigin, fifos
  <2>5. "writing" \in Holders /\ "queued" \in Holders /\ "writing" # "queued"
    BY DEF Holders
  <2>6. b \notin {TxBuf(e) : e \in queued}
    BY <2>4, <2>5, HeldValues, ConservedIs, Zenon DEF HeldIs, Partition
  <2>7. TxDistinct'
    BY <2>1, <2>2, <2>6, ConservedIs DEF TxDistinct
  <2> QED  BY <1>1, <1>2, <1>4, <2>4, <2>5, <2>7, Moved, Zenon
<1>6. CASE ClearWriteSent
  <2>1. \A e \in queued' : TxBuf(e)' = TxBuf(e)
    BY <1>3, <1>6, IdleIsNoCall DEF ClearWriteSent, ClearSent, TxBuf
  <2>2. /\ call.ep \in queued /\ queued' = queued \ {call.ep} /\ TxBuf(call.ep) = b
    BY <1>6 DEF ClearWriteSent, CallInv, TxBuf
  <2>3. TxDistinct
    BY ConservedIs
  <2>4. TxDistinct'
    BY <2>1, <2>2, <2>3 DEF TxDistinct
  <2>5. {TxBuf(e) : e \in queued}' = {TxBuf(e) : e \in queued} \ {b}
    BY <2>1, <2>2, <2>3 DEF TxDistinct
  <2>6. /\ b \in Held["queued"] /\ Held'["queued"] = Held["queued"] \ {b}
        /\ Held'["pool"] = Held["pool"] \cup {b}
        /\ \A h \in Holders \ {"pool", "queued"} : Held'[h] = Held[h]
    BY <1>6, <2>2, <2>5, HeldValues, HeldValuesNext
       DEF HeldIs, Holders, ClearWriteSent, ClearSent, fifos
  <2>7. "pool" \in Holders /\ "queued" \in Holders /\ "queued" # "pool"
    BY DEF Holders
  <2> QED  BY <1>1, <1>2, <1>4, <2>4, <2>6, <2>7, Moved, Zenon
<1> QED  BY <1>5, <1>6

(* The other register accesses move no buffer. *)
LEMMA AccessInductive ==
  ASSUME IInv,
         \/ StatusReadSent \/ ClearWritePend \/ EnableWrite \/ TxSent
         \/ \E e \in Eps, b \in Buffers : SendBuffer(e, b)
         \/ \E e \in Eps : StatusRead(e) \/ ClearRead(e)
         \/ \E e \in NakEps, on \in BOOLEAN : EnableRead(e, on)
  PROVE  IInv'
<1> USE DEF IInv
<1>1. DrvTypeOK'
  BY ReapTypes, DriverTypes DEF Reap, Driver
<1>2. CASE StatusReadSent \/ TxSent \/ \E e \in Eps : StatusRead(e)
  <2>1. /\ UNCHANGED <<hwVars, pool, reading, writing, queued>>
        /\ call'.op \in {"idle", "status"} /\ call.op \in {"idle", "status"}
    BY <1>2, IdleIsNoCall DEF StatusReadSent, TxSent, StatusRead
  <2> QED  BY <1>1, <2>1, LookingConserves DEF NoOverflow, CallInv
<1>3. ASSUME NEW e \in Eps, ClearRead(e)  PROVE IInv'
  <2>1. Conserved'
    BY <1>3, IdleIsNoCall, LookingConserves DEF ClearRead, client
  <2>2. NoOverflow' /\ CallInv'
    BY <1>3 DEF ClearRead, NoOverflow, CallInv, client, hwVars, inRegs
  <2> QED  BY <1>1, <2>1, <2>2
<1>4. ASSUME NEW e \in NakEps, NEW on \in BOOLEAN, EnableRead(e, on)  PROVE IInv'
  <2>1. Conserved'
    BY <1>4, IdleIsNoCall, LookingConserves DEF EnableRead, client
  <2>2. NoOverflow' /\ CallInv'
    BY <1>4 DEF EnableRead, NoOverflow, CallInv
  <2> QED  BY <1>1, <2>1, <2>2
<1>5. CASE EnableWrite
  <2>1. SameTx
    BY <1>5, IdleIsNoCall DEF EnableWrite, WriteRxenOut, SameTx, TxBuf, client, inRegs
  <2>2. Conserved'
    BY <1>5, <2>1, Unmoved DEF EnableWrite, WriteRxenOut, client, fifos
  <2>3. NoOverflow' /\ CallInv'
    BY <1>5, IdleIsNoCall DEF EnableWrite, NoOverflow, CallInv
  <2> QED  BY <1>1, <2>2, <2>3
<1>6. ASSUME NEW e \in Eps, NEW b \in Buffers, SendBuffer(e, b)  PROVE IInv'
  <2>1. SameTx
    BY <1>6, IdleIsNoCall
       DEF SendBuffer, WriteConfigin, SameTx, TxBuf, client, DrvTypeOK, HwTypeOK
  <2>2. Conserved'
    BY <1>6, <2>1, Unmoved DEF SendBuffer, WriteConfigin, client, fifos
  <2>3. NoOverflow' /\ CallInv'
    BY <1>6 DEF SendBuffer, NoOverflow, CallInv, client
  <2> QED  BY <1>1, <2>2, <2>3
<1>7. CASE ClearWritePend
  <2>1. call.ep \in queued /\ call.buf = configin[call.ep].buf
    BY <1>7 DEF ClearWritePend, CallInv
  <2>2. /\ call'.op = "cleared" /\ call'.ep = call.ep /\ call'.buf = call.buf
    BY <1>7, CallForms DEF ClearWritePend, DrvTypeOK
  <2>3. SameTx
    BY <1>7, <2>1, <2>2
       DEF ClearWritePend, ClearPend, SameTx, TxBuf, client, DrvTypeOK, HwTypeOK
  <2>4. Conserved'
    BY <1>7, <2>3, Unmoved DEF ClearWritePend, ClearPend, client, fifos
  <2>5. NoOverflow' /\ CallInv'
    BY <1>7, <2>1, <2>2 DEF ClearWritePend, NoOverflow, CallInv, client
  <2> QED  BY <1>1, <2>4, <2>5
<1> QED  BY <1>2, <1>3, <1>4, <1>5, <1>6, <1>7

LEMMA Start ==
  ASSUME DrvInit
  PROVE  IInv
<1>1. DrvTypeOK
  <2>1. rx \in Seq(Packets)
    BY EmptySeq DEF DrvInit, HwInit, QuietInit
  <2> QED  BY <2>1, BuffersAssumption
           DEF DrvInit, HwInit, QuietInit, DrvTypeOK, HwTypeOK, Calls, Xacts, Statuses
<1>2. BufsOf(rx) = {} /\ Distinct(rx)
  <2>1. DOMAIN rx = {}
    BY EmptySeq DEF DrvInit, HwInit, QuietInit
  <2> QED  BY <2>1 DEF BufsOf, Distinct
<1>3. Partition(Held)
  <2>1. /\ Held["pool"] = Buffers
        /\ \A h \in Holders \ {"pool"} : Held[h] = {}
    BY <1>2, HeldValues DEF DrvInit, HwInit, QuietInit, HeldIs, Holders
  <2>2. "pool" \in Holders
    BY DEF Holders
  <2> QED  BY <2>1, <2>2 DEF Partition
<1>4. Conserved
  BY <1>2, <1>3, ConservedIs DEF DrvInit, TxDistinct
<1>5. NoOverflow /\ CallInv
  BY IdleIsNoCall DEF DrvInit, NoOverflow, CallInv
<1> QED  BY <1>1, <1>4, <1>5 DEF IInv

LEMMA Step ==
  ASSUME IInv, [DrvNext]_drvVars
  PROVE  IInv'
<1>1. CASE UNCHANGED drvVars
  <2> USE DEF drvVars, hwVars, swVars, client, fifos, inRegs, outRegs
  <2>1. DrvTypeOK'
    BY <1>1 DEF IInv, DrvTypeOK, HwTypeOK
  <2>2. SameTx
    BY <1>1 DEF SameTx, TxBuf
  <2>3. Conserved'
    BY <1>1, <2>2, Unmoved DEF IInv
  <2>4. NoOverflow' /\ CallInv'
    BY <1>1 DEF IInv, NoOverflow, CallInv
  <2> QED  BY <2>1, <2>3, <2>4 DEF IInv
<1>2. CASE BusStep
  BY <1>2, BusInductive
<1>3. CASE Driver
  <2>1. CASE Recv
    <3>1. Head(rx) \in Packets
      BY <2>1, HeadTailProperties DEF Recv, PopRx, IInv, DrvTypeOK, HwTypeOK
    <3> QED  BY <2>1, <3>1, ClientInductive DEF Packets
  <2>2. CASE SendReady \/ ClearWriteSent
    BY <2>2, QueueInductive
  <2> QED  BY <1>3, <2>1, <2>2, FillInductive, ClientInductive, AccessInductive
           DEF Driver, Reap
<1> QED  BY <1>1, <1>2, <1>3 DEF DrvNext

-----------------------------------------------------------------------------
(* What the registers say of a queued packet.  IN_SENT is exactly what the *)
(* host has acknowledged; a packet is ready, acknowledged or pending.      *)

TxInv ==
  /\ acked = inSent /\ inSent \subseteq queued
  /\ \A e \in Eps : configin[e].rdy => e \in queued /\ e \notin inSent
  /\ \A e \in queued : ~configin[e].rdy /\ e \notin inSent =>
       configin[e].pend \/ (call.op = "cleared" /\ call.ep = e)
  /\ call.op \in {"status", "clear", "cleared"} => ~configin[call.ep].rdy
  /\ call.op = "status" /\ call.ep \in queued => call.ep \in inSent \/ call.pend
  /\ StatusIsTrue
  /\ SendsQueuedBuffer

LEMMA CancelPends ==
  ASSUME NEW c \in Entries
  PROVE  /\ ~Cancel(c).rdy
         /\ c.pend \/ c.rdy => Cancel(c).pend
BY DEF Cancel, Entries

LEMMA BusTx ==
  ASSUME IInv, TxInv, BusStep
  PROVE  TxInv'
<1> USE DEF IInv, DrvTypeOK, HwTypeOK, swVars, client, fifos, inRegs, outRegs
<1>0. UNCHANGED swVars
  BY DEF BusStep
<1>1. ASSUME InAcked, acked' = acked \cup {xact.ep}  PROVE TxInv'
  <2>1. xact \in [kind : {"data"}, ep : Eps, buf : Buffers] /\ xact'.kind = "none"
    BY <1>1, XactForms DEF InAcked, NoXact
  <2>2. /\ xact.ep \in queued /\ configin[xact.ep].rdy
        /\ ~(call.op \in {"status", "clear", "cleared"} /\ call.ep = xact.ep)
    BY <1>1, <2>1 DEF InAcked, TxInv, SendsQueuedBuffer
  <2>3. \A e \in Eps : /\ configin'[e].rdy = (configin[e].rdy /\ e # xact.ep)
                       /\ configin'[e].pend = configin[e].pend
    BY <1>1, <2>1 DEF InAcked
  <2>4. StatusIsTrue'
    BY <1>0, <1>1, <2>2, <2>3 DEF TxInv, StatusIsTrue
  <2>5. SendsQueuedBuffer'
    BY <2>1 DEF SendsQueuedBuffer
  <2>6. inSent' = inSent \cup {xact.ep}
    BY <1>1 DEF InAcked
  <2> QED  BY <1>0, <1>1, <2>2, <2>3, <2>4, <2>5, <2>6, CallForms DEF TxInv
<1>2. ASSUME NEW b \in Buffers, OutTaken(b), UNCHANGED acked  PROVE TxInv'
  <2>1. xact.ep \in Eps /\ xact'.kind = "none" /\ inSent' = inSent
    BY <1>2, XactForms DEF OutTaken, NoXact
  <2>2. \A e \in Eps :
          /\ configin'[e].rdy => configin[e].rdy
          /\ configin[e].pend \/ (configin[e].rdy /\ ~configin'[e].rdy) => configin'[e].pend
    <3>1. \A e \in Eps : configin'[e] = configin[e] \/ configin'[e] = Cancel(configin[e])
      BY <1>2, <2>1 DEF OutTaken
    <3>2. \A e \in Eps : configin[e] \in Entries
      BY DEF Entries
    <3> QED  BY <3>1, <3>2, CancelPends
  <2>3. StatusIsTrue'
    BY <1>0, <1>2, <2>2 DEF TxInv, StatusIsTrue
  <2>4. SendsQueuedBuffer'
    BY <2>1 DEF SendsQueuedBuffer
  <2> QED  BY <1>0, <1>2, <2>1, <2>2, <2>3, <2>4, CallForms DEF TxInv
<1>3. ASSUME LinkReset, UNCHANGED acked  PROVE TxInv'
  <2>1. xact'.kind = "none" /\ inSent' = inSent
    BY <1>3 DEF LinkReset, NoXact
  <2>2. \A e \in Eps :
          /\ ~configin'[e].rdy
          /\ configin[e].pend \/ configin[e].rdy => configin'[e].pend
    <3>1. \A e \in Eps : configin'[e] = Cancel(configin[e])
      BY <1>3 DEF LinkReset
    <3>2. \A e \in Eps : configin[e] \in Entries
      BY DEF Entries
    <3> QED  BY <3>1, <3>2, CancelPends
  <2>3. StatusIsTrue'
    BY <1>0, <1>3, <2>2 DEF TxInv, StatusIsTrue
  <2>4. SendsQueuedBuffer'
    BY <2>1 DEF SendsQueuedBuffer
  <2> QED  BY <1>0, <1>3, <2>1, <2>2, <2>3, <2>4, CallForms DEF TxInv
<1>4. ASSUME NEW e \in Eps, InToken(e), UNCHANGED acked  PROVE TxInv'
  <2>1. \A f \in Eps : /\ configin'[f].rdy = configin[f].rdy
                       /\ configin'[f].pend = configin[f].pend
                       /\ configin'[f].buf = configin[f].buf
    BY <1>4 DEF InToken
  <2>2. StatusIsTrue'
    BY <1>0, <1>4, <2>1 DEF TxInv, StatusIsTrue
  <2>3. SendsQueuedBuffer'
    BY <1>0, <1>4, <2>1 DEF InToken, TxInv, SendsQueuedBuffer, TxBuf
  <2> QED  BY <1>0, <1>4, <2>1, <2>2, <2>3, CallForms DEF TxInv, InToken
<1>5. ASSUME UNCHANGED inRegs, UNCHANGED acked,
             \/ xact'.kind \in {"none", "setup", "out"}
             \/ xact'.kind = "data" /\ xact.kind = "in" /\ xact.hasData
                /\ xact'.ep = xact.ep /\ xact'.buf = xact.buf
      PROVE  TxInv'
  <2>1. StatusIsTrue'
    BY <1>0, <1>5 DEF TxInv, StatusIsTrue
  <2>2. SendsQueuedBuffer'
    BY <1>0, <1>5 DEF TxInv, SendsQueuedBuffer, TxBuf
  <2> QED  BY <1>0, <1>5, <2>1, <2>2 DEF TxInv
<1>6. ASSUME BusOther, UNCHANGED acked  PROVE TxInv'
  <2>1. ASSUME NEW e \in Eps, NEW k \in {"setup", "out"}, OutToken(k, e)  PROVE TxInv'
    BY <1>5, <1>6, <2>1 DEF OutToken
  <2>2. CASE OutDataWhenFull
    BY <1>5, <1>6, <2>2, XactForms DEF OutDataWhenFull
  <2>3. CASE OutNotTaken \/ InNotAcked
    BY <1>5, <1>6, <2>3 DEF OutNotTaken, InNotAcked, NoXact
  <2>4. CASE InAnswer
    BY <1>5, <1>6, <2>4 DEF InAnswer, NoXact
  <2> QED  BY <1>3, <1>4, <1>6, <2>1, <2>2, <2>3, <2>4 DEF BusOther
<1> QED  BY <1>1, <1>2, <1>6 DEF BusStep

LEMMA DriverTx ==
  ASSUME IInv, TxInv, Driver
  PROVE  TxInv'
<1> USE DEF IInv, DrvTypeOK, HwTypeOK, fifos, inRegs, outRegs, hwVars
<1>1. ASSUME UNCHANGED <<inRegs, queued, status, acked, xact>>, call.op # "cleared",
             call'.op \notin {"status", "clear", "cleared"}
      PROVE  TxInv'
  <2>1. StatusIsTrue'
    BY <1>1 DEF TxInv, StatusIsTrue
  <2>2. SendsQueuedBuffer'
    BY <1>1 DEF TxInv, SendsQueuedBuffer, TxBuf
  <2> QED  BY <1>1, <2>1, <2>2 DEF TxInv
<1>2. CASE FillRead \/ TxSent \/ Recv \/ EnableWrite
           \/ \E b \in Buffers : FillWrite(b) \/ ReadDone(b) \/ Request(b) \/ Discard(b)
  <2>1. CASE TxSent
    <3>1. /\ \A e \in Eps : status'[e] = IF e \in inSent THEN "sent" ELSE status[e]
          /\ UNCHANGED <<configin, inSent, xact, queued, acked, call>>
      BY <2>1 DEF TxSent
    <3>2. acked = inSent /\ queued \subseteq Eps
          /\ \A e \in inSent : ~configin[e].rdy
      BY DEF TxInv
    <3>3. StatusIsTrue'
      BY <3>1, <3>2 DEF TxInv, StatusIsTrue
    <3>4. SendsQueuedBuffer'
      BY <3>1 DEF TxInv, SendsQueuedBuffer, TxBuf
    <3> QED  BY <3>1, <3>3, <3>4 DEF TxInv
  <2>2. ASSUME NEW b \in Buffers, FillWrite(b)  PROVE TxInv'
    BY <1>1, <2>2, IdleIsNoCall DEF FillWrite, WriteAvSetup, WriteAvOut, client
  <2>3. CASE FillRead \/ Recv
    BY <1>1, <2>3, IdleIsNoCall DEF FillRead, Recv, PopRx, client
  <2>4. CASE EnableWrite
    BY <1>1, <2>4, IdleIsNoCall DEF EnableWrite, WriteRxenOut, client
  <2>5. ASSUME NEW b \in Buffers, ReadDone(b) \/ Request(b) \/ Discard(b)  PROVE TxInv'
    BY <1>1, <2>5, IdleIsNoCall DEF ReadDone, Request, Discard
  <2> QED  BY <1>2, <2>1, <2>2, <2>3, <2>4, <2>5
<1>3. ASSUME NEW e \in Eps, NEW b \in Buffers, SendBuffer(e, b)  PROVE TxInv'
  <2>1. /\ e \notin queued /\ ~configin[e].rdy /\ ~configin'[e].rdy
        /\ \A f \in Eps \ {e} : configin'[f] = configin[f]
        /\ call = Idle /\ call'.op = "send"
        /\ UNCHANGED <<queued, status, acked, inSent, xact>>
    BY <1>3 DEF SendBuffer, WriteConfigin, TxInv, client
  <2>2. StatusIsTrue'
    BY <2>1 DEF TxInv, StatusIsTrue
  <2>3. SendsQueuedBuffer'
    BY <2>1, IdleIsNoCall DEF TxInv, SendsQueuedBuffer, TxBuf
  <2> QED  BY <2>1, <2>2, <2>3, IdleIsNoCall DEF TxInv
<1>4. CASE SendReady
  <2>1. /\ call.ep \in Eps /\ call.ep \notin queued /\ call.op = "send" /\ call'.op = "idle"
        /\ configin'[call.ep].rdy /\ queued' = queued \cup {call.ep}
        /\ \A f \in Eps \ {call.ep} : configin'[f] = configin[f] /\ status'[f] = status[f]
        /\ status'[call.ep] = "pending" /\ acked' = acked \ {call.ep}
        /\ UNCHANGED <<inSent, xact>>
    BY <1>4, CallForms, IdleIsNoCall DEF SendReady, WriteConfigin, CallInv
  <2>2. acked' = acked
    BY <2>1 DEF TxInv
  <2>3. StatusIsTrue'
    BY <2>1, <2>2 DEF TxInv, StatusIsTrue
  <2>4. SendsQueuedBuffer'
    BY <2>1 DEF TxInv, SendsQueuedBuffer, TxBuf
  <2> QED  BY <2>1, <2>2, <2>3, <2>4 DEF TxInv
<1>5. ASSUME NEW e \in Eps, StatusRead(e)  PROVE TxInv'
  <2>1. /\ call = Idle
        /\ UNCHANGED <<configin, inSent, xact, queued, acked>>
    BY <1>5 DEF StatusRead
  <2>2. SendsQueuedBuffer'
    BY <1>5, <2>1, IdleIsNoCall DEF StatusRead, TxInv, SendsQueuedBuffer, TxBuf
  <2>3. CASE configin[e].rdy
    <3>1. call' = call /\ status' = [status EXCEPT ![e] = "pending"]
      BY <1>5, <2>3 DEF StatusRead
    <3>2. StatusIsTrue'
      BY <2>1, <3>1 DEF TxInv, StatusIsTrue
    <3> QED  BY <2>1, <2>2, <3>1, <3>2 DEF TxInv
  <2>4. CASE ~configin[e].rdy
    <3>1. status' = status /\ call' = [op |-> "status", ep |-> e, pend |-> configin[e].pend]
      BY <1>5, <2>4 DEF StatusRead
    <3>2. StatusIsTrue'
      BY <2>1, <3>1 DEF TxInv, StatusIsTrue
    <3> QED  BY <2>1, <2>2, <2>4, <3>1, <3>2, IdleIsNoCall DEF TxInv
  <2> QED  BY <2>3, <2>4
<1>6. CASE StatusReadSent
  <2>1. /\ call.op = "status" /\ call.ep \in Eps /\ call'.op = "idle"
        /\ UNCHANGED <<configin, inSent, xact, queued, acked>>
    BY <1>6, CallForms, IdleIsNoCall DEF StatusReadSent
  <2>2. /\ \A f \in Eps \ {call.ep} : status'[f] = status[f]
        /\ status'[call.ep] = IF call.ep \in inSent THEN "sent"
                              ELSE IF call.pend THEN "cancelled" ELSE "none"
    BY <1>6, <2>1 DEF StatusReadSent
  <2>3. StatusIsTrue'
    BY <2>1, <2>2 DEF TxInv, StatusIsTrue
  <2>4. SendsQueuedBuffer'
    BY <2>1 DEF TxInv, SendsQueuedBuffer, TxBuf
  <2> QED  BY <2>1, <2>3, <2>4 DEF TxInv
<1>7. ASSUME NEW e \in Eps, ClearRead(e)  PROVE TxInv'
  <2>1. /\ call = Idle /\ call'.op = "clear" /\ call'.ep = e
        /\ e \in queued /\ status[e] \in {"sent", "cancelled"}
        /\ UNCHANGED <<configin, inSent, xact, queued, acked, status>>
    BY <1>7 DEF ClearRead, client
  <2>2. ~configin[e].rdy
    BY <2>1 DEF TxInv, StatusIsTrue
  <2>3. StatusIsTrue'
    BY <2>1 DEF TxInv, StatusIsTrue
  <2>4. SendsQueuedBuffer'
    BY <2>1, IdleIsNoCall DEF TxInv, SendsQueuedBuffer, TxBuf
  <2> QED  BY <2>1, <2>2, <2>3, <2>4, IdleIsNoCall DEF TxInv
<1>8. CASE ClearWritePend
  <2>1. /\ call.op = "clear" /\ call.ep \in Eps
        /\ call'.op = "cleared" /\ call'.ep = call.ep
        /\ ~configin[call.ep].rdy /\ ~configin'[call.ep].rdy
        /\ \A f \in Eps \ {call.ep} : configin'[f] = configin[f]
        /\ UNCHANGED <<inSent, xact, queued, acked, status>>
    BY <1>8, CallForms DEF ClearWritePend, ClearPend, TxInv, client
  <2>2. StatusIsTrue'
    BY <2>1 DEF TxInv, StatusIsTrue
  <2>3. SendsQueuedBuffer'
    BY <2>1 DEF TxInv, SendsQueuedBuffer, TxBuf
  <2> QED  BY <2>1, <2>2, <2>3 DEF TxInv
<1>9. CASE ClearWriteSent
  <2>1. /\ call.op = "cleared" /\ call.ep \in Eps /\ call'.op = "idle"
        /\ ~configin[call.ep].rdy
        /\ inSent' = inSent \ {call.ep} /\ acked' = acked \ {call.ep}
        /\ queued' = queued \ {call.ep}
        /\ \A f \in Eps \ {call.ep} : status'[f] = status[f]
        /\ UNCHANGED <<configin, xact>>
    BY <1>9, CallForms, IdleIsNoCall DEF ClearWriteSent, ClearSent, TxInv
  <2>2. StatusIsTrue'
    BY <2>1 DEF TxInv, StatusIsTrue
  <2>3. SendsQueuedBuffer'
    BY <2>1 DEF TxInv, SendsQueuedBuffer, TxBuf
  <2> QED  BY <2>1, <2>2, <2>3 DEF TxInv
<1>10. CASE Fill
  BY <1>2, <1>10 DEF Fill
<1>11. CASE Reap
  BY <1>2, <1>4, <1>6, <1>8, <1>9, <1>11 DEF Reap
<1>12. CASE \E e \in Eps, b \in Buffers : SendBuffer(e, b)
  BY <1>3, <1>12
<1>13. CASE \E e \in Eps : StatusRead(e) \/ ClearRead(e)
  BY <1>5, <1>7, <1>13
<1>14. ASSUME NEW e \in NakEps, NEW on \in BOOLEAN, EnableRead(e, on)  PROVE TxInv'
  BY <1>1, <1>14, IdleIsNoCall DEF EnableRead, client
<1>15. CASE \/ Recv \/ TxSent
            \/ \E b \in Buffers : ReadDone(b) \/ Request(b) \/ Discard(b)
  BY <1>2, <1>15
<1> HIDE DEF IInv, DrvTypeOK, HwTypeOK, hwVars
<1> QED  BY <1>10, <1>11, <1>12, <1>13, <1>14, <1>15 DEF Driver

LEMMA TxStart ==
  ASSUME DrvInit
  PROVE  TxInv
<1>1. xact.kind = "none" /\ \A e \in Eps : ~configin[e].rdy
  BY DEF DrvInit, HwInit, QuietInit, NoXact
<1> QED  BY <1>1, IdleIsNoCall
         DEF DrvInit, HwInit, QuietInit, TxInv, StatusIsTrue, SendsQueuedBuffer

LEMMA TxStep ==
  ASSUME IInv, TxInv, [DrvNext]_drvVars
  PROVE  TxInv'
<1>1. CASE UNCHANGED drvVars
  <2> USE DEF drvVars, hwVars, swVars, client, fifos, inRegs, outRegs
  <2>1. StatusIsTrue'
    BY <1>1 DEF TxInv, StatusIsTrue
  <2>2. SendsQueuedBuffer'
    BY <1>1 DEF TxInv, SendsQueuedBuffer, TxBuf
  <2> QED  BY <1>1, <2>1, <2>2 DEF TxInv
<1> QED  BY <1>1, BusTx, DriverTx DEF DrvNext

LEMMA Inductive == DrvSpec => [](IInv /\ TxInv)
<1> QED  BY Start, Step, TxStart, TxStep, PTL DEF DrvSpec

-----------------------------------------------------------------------------
(* The Received Buffer FIFO: it never exceeds its depth, and its last      *)
(* entry is a SETUP packet's.                                              *)

RxInv == Len(rx) <= RxDepth /\ SetupHasRoom

LEMMA RxGrows ==
  ASSUME rx \in Seq(Packets), RxInv, NEW b \in Buffers, OutTaken(b)
  PROVE  RxInv'
<1> DEFINE setup == xact.kind = "setup"
           p     == [ep |-> xact.ep, setup |-> setup, buf |-> b]
<1>1. rx' = Append(rx, p) /\ p.setup = setup /\ Len(rx) \in Nat
  BY LenProperties DEF OutTaken
<1>2. Len(rx) < IF setup THEN RxDepth ELSE RxDepth - 1
  BY <1>1, DepthAssumption DEF OutTaken, Full
<1>3. Len(rx') = Len(rx) + 1 /\ rx'[Len(rx) + 1] = p
  BY <1>1
<1> HIDE DEF p
<1>4. Len(rx') <= RxDepth
  BY <1>1, <1>2, <1>3, DepthAssumption
<1>5. ASSUME Len(rx') >= RxDepth  PROVE rx'[RxDepth].setup
  <2>1. setup /\ RxDepth = Len(rx) + 1
    BY <1>1, <1>2, <1>3, <1>5, DepthAssumption
  <2> QED  BY <2>1, <1>1, <1>3
<1> QED  BY <1>4, <1>5 DEF RxInv, SetupHasRoom

LEMMA RxShrinks ==
  ASSUME rx \in Seq(Packets), RxInv, PopRx
  PROVE  RxInv'
<1>1. Len(rx) \in Nat /\ Len(rx') = Len(rx) - 1
  BY HeadTailProperties, LenProperties DEF PopRx
<1>2. Len(rx') < RxDepth
  BY <1>1, DepthAssumption DEF RxInv
<1> QED  BY <1>1, <1>2, DepthAssumption DEF RxInv, SetupHasRoom

LEMMA RxStep ==
  ASSUME rx \in Seq(Packets), RxInv, [DrvNext]_drvVars
  PROVE  RxInv'
<1>1. ASSUME UNCHANGED rx  PROVE RxInv'
  BY <1>1 DEF RxInv, SetupHasRoom
<1> USE DEF hwVars, fifos
<1>2. CASE UNCHANGED drvVars
  BY <1>1, <1>2 DEF drvVars
<1>3. CASE BusStep
  <2>1. CASE InAcked
    BY <1>1, <2>1 DEF InAcked
  <2>2. CASE BusOther
    BY <1>1, <2>2 DEF BusOther, OutToken, InToken, OutDataWhenFull, OutNotTaken,
                      InAnswer, InNotAcked, LinkReset
  <2> QED  BY <1>3, <2>1, <2>2, RxGrows DEF BusStep
<1>4. CASE Driver
  <2>1. CASE Recv
    BY <2>1, RxShrinks DEF Recv
  <2>2. CASE Fill
    BY <1>1, <2>2 DEF Fill, FillRead, FillWrite, WriteAvSetup, WriteAvOut
  <2>3. CASE Reap
    BY <1>1, <2>3 DEF Reap, StatusReadSent, ClearWritePend, ClearPend, ClearWriteSent,
                      ClearSent, SendReady, WriteConfigin, EnableWrite, WriteRxenOut
  <2>4. CASE TxSent \/ \E b \in Buffers : ReadDone(b) \/ Request(b) \/ Discard(b)
    BY <1>1, <2>4 DEF TxSent, ReadDone, Request, Discard
  <2>5. CASE \E e \in Eps, b \in Buffers : SendBuffer(e, b)
    BY <1>1, <2>5 DEF SendBuffer, WriteConfigin
  <2>6. CASE \/ \E e \in Eps : StatusRead(e) \/ ClearRead(e)
             \/ \E e \in NakEps, on \in BOOLEAN : EnableRead(e, on)
    BY <1>1, <2>6 DEF StatusRead, ClearRead, EnableRead
  <2> QED  BY <1>4, <2>1, <2>2, <2>3, <2>4, <2>5, <2>6 DEF Driver
<1> QED  BY <1>2, <1>3, <1>4 DEF DrvNext

LEMMA RxInductive == DrvSpec => []RxInv
<1>1. DrvInit => RxInv
  BY DepthAssumption DEF DrvInit, HwInit, QuietInit, RxInv, SetupHasRoom
<1>2. IInv => rx \in Seq(Packets)
  BY DEF IInv, DrvTypeOK, HwTypeOK
<1>3. IInv /\ RxInv /\ [DrvNext]_drvVars => RxInv'
  BY <1>2, RxStep
<1> QED  BY <1>1, <1>3, Inductive, PTL DEF DrvSpec

-----------------------------------------------------------------------------
(* Registers, FIFOs, the pool and the call in progress keep their types,   *)
(* whatever the order of the driver's accesses and the bus's steps.        *)
THEOREM TypeCorrect == DrvSpec => []DrvTypeOK
<1> QED  BY Inductive, PTL DEF IInv

(* Every buffer is in exactly one place, always: no cancellation, refusal  *)
(* or race of the driver with the bus loses one or hands it out twice.     *)
THEOREM BuffersConserved == DrvSpec => []Conserved
<1> QED  BY Inductive, PTL DEF IInv

(* The driver never fills a FIFO beyond its depth.                         *)
THEOREM FifosHaveRoom == DrvSpec => []NoOverflow
<1> QED  BY Inductive, PTL DEF IInv

(* No step of either side takes a packet from under a transaction: while   *)
(* the controller sends, the buffer is the one queued on that endpoint.    *)
THEOREM SendsWhatIsQueued == DrvSpec => []SendsQueuedBuffer
<1> QED  BY Inductive, PTL DEF TxInv

(* The two reads of dif_usbdev_get_tx_status never add up to a wrong       *)
(* answer about a queued packet, whatever the bus does between them.       *)
THEOREM StatusNeverLies == DrvSpec => []StatusIsTrue
<1> QED  BY Inductive, PTL DEF TxInv

(* No packet takes the entry kept for SETUP packets in the Received Buffer *)
(* FIFO: when the FIFO is full, its last entry is one, however OUT traffic *)
(* and the driver's reads of the FIFO interleave.                          *)
THEOREM SetupFindsRoom == DrvSpec => []SetupHasRoom
<1> QED  BY RxInductive, PTL DEF RxInv

-----------------------------------------------------------------------------
(* Data toggles deliver every packet once and in order.                    *)
(*                                                                         *)
(* The argument: a toggle of the device and the host's copy of it agree    *)
(* exactly when sender and receiver agree on what has been delivered       *)
(* (InSync), what is on the bus fits the state of both ends (OnWire), and  *)
(* an engine is in a transaction only as long as the host is (Engines).    *)

InSync ==
  IF phase = "setup" THEN outAcked = 0 /\ inLog = <<>>
  ELSE /\ Len(outLog) = IF outToggle = hostOut THEN outAcked ELSE outAcked + 1
       /\ Len(inLog)  = IF inToggle = hostIn THEN inAcked ELSE inAcked + 1

OnWire ==
  /\ wire.pid \in Tokens =>
       /\ hostState = IF wire.pid = "IN" THEN "awaitData" ELSE "data"
       /\ phase = IF wire.pid = "SETUP" THEN "setup" ELSE "data"
       /\ outXact = "idle" /\ inXact # "answer"
  /\ wire.pid = "DATA" /\ wire.to = "device" =>
       /\ hostState = "awaitHandshake" /\ inXact # "answer"
       /\ IF phase = "setup" THEN wire.toggle = 0
                             ELSE wire.toggle = hostOut /\ wire.n = outAcked + 1
  /\ wire.pid = "ACK" /\ wire.to = "host" =>
       /\ hostState = "awaitHandshake" /\ outXact = "idle" /\ inXact # "answer"
       /\ IF phase = "setup"
          THEN outLog = <<>> /\ inAcked = 0 /\ outToggle = 1 /\ inToggle = 1
          ELSE outToggle # hostOut
  /\ wire.pid = "NAK" =>
       /\ hostState \in {"awaitHandshake", "awaitData"}
       /\ outXact = "idle" /\ inXact # "answer"
  /\ wire.pid = "DATA" /\ wire.to = "host" =>
       /\ hostState = "awaitData" /\ inXact # "answer"
       /\ wire.toggle = inToggle /\ wire.n = inAcked + 1
  /\ wire.pid = "ACK" /\ wire.to = "device" =>
       /\ hostState = "idle" /\ phase = "data" /\ inXact # "answer"
       /\ inXact = "waitAck" => inToggle # hostIn

Engines ==
  /\ inXact = "answer" => wire = None /\ hostState = "awaitData"
  /\ hostState = "awaitData" => outXact = "idle" /\ phase = "data"
  /\ outXact = "SETUP" => phase = "setup" /\ outToggle = 0 /\ inToggle = 1
  /\ outXact = "OUT" /\ hostState # "idle" => phase = "data"
  /\ inXact = "waitAck" \/ (inXact = "answer" /\ hasData) => inRdy

Bounds ==
  /\ inRdy => inAcked < MaxPackets
  /\ phase = "data" /\ hostState \in {"data", "awaitHandshake"} => outAcked < MaxPackets

PipeInv == PipeTypeOK /\ InSync /\ OnWire /\ Engines /\ Bounds

-----------------------------------------------------------------------------
(* Induction: the invariant holds at first and every step keeps it. *)
LEMMA PipeStart == PipeInit => PipeInv
<1> SUFFICES ASSUME PipeInit PROVE PipeInv
  OBVIOUS
<1>1. wire = None /\ wire.pid = "none" /\ wire \in BusPackets
  BY DEF PipeInit, None, BusPackets
<1>2. outLog = <<>> /\ inLog = <<>> /\ Len(<<>>) = 0 /\ <<>> \in Seq(Nat)
  BY DEF PipeInit
<1>3. PipeTypeOK
  <2>1. hasData \in BOOLEAN /\ inRdy \in BOOLEAN
    BY Zenon DEF PipeInit
  <2>2. inAcked \in 0..MaxPackets /\ outAcked \in 0..MaxPackets /\ session \in 0..MaxSessions
    BY MaxPacketsAssumption, MaxSessionsAssumption DEF PipeInit
  <2>3. /\ outToggle \in Toggles /\ inToggle \in Toggles
        /\ hostOut \in Toggles /\ hostIn \in Toggles
    BY DEF PipeInit, Toggles
  <2>4. /\ outXact \in {"idle", "SETUP", "OUT"} /\ inXact \in {"idle", "answer", "waitAck"}
        /\ phase \in {"setup", "data"}
        /\ hostState \in {"idle", "data", "awaitHandshake", "awaitData"}
    BY DEF PipeInit
  <2> QED  BY <1>1, <1>2, <2>1, <2>2, <2>3, <2>4 DEF PipeTypeOK
<1>4. InSync /\ Engines /\ Bounds
  BY <1>1, <1>2, MaxPacketsAssumption DEF PipeInit, InSync, Engines, Bounds
<1>5. OnWire
  BY <1>1 DEF OnWire, Tokens
<1> QED  BY <1>3, <1>4, <1>5 DEF PipeInv

USE MaxPacketsAssumption, MaxSessionsAssumption

(* What the constructors of packets make. *)
LEMMA PacketFields ==
  /\ None \in BusPackets /\ None.pid = "none"
  /\ \A pid \in Tokens : Token(pid) \in BusPackets /\ Token(pid).pid = pid
  /\ \A to \in {"device", "host"}, t \in Toggles, n \in Nat :
       /\ Data(to, t, n) \in BusPackets
       /\ Data(to, t, n).pid = "DATA" /\ Data(to, t, n).to = to
       /\ Data(to, t, n).toggle = t /\ Data(to, t, n).n = n
  /\ \A to \in {"device", "host"}, pid \in {"ACK", "NAK"} :
       /\ Handshake(to, pid) \in BusPackets
       /\ Handshake(to, pid).pid = pid /\ Handshake(to, pid).to = to
  BY DEF None, Token, Data, Handshake, BusPackets

LEMMA DataFields ==
  ASSUME PipeTypeOK, wire.pid = "DATA"
  PROVE  wire.to \in {"device", "host"} /\ wire.toggle \in Toggles /\ wire.n \in Nat
  BY DEF PipeTypeOK, BusPackets, Tokens, None

LEMMA LogGrows == \A s \in Seq(Nat), n \in Nat : Append(s, n) \in Seq(Nat)
  OBVIOUS

LEMMA TypeStep ==
  ASSUME PipeInv, [PipeNext]_pipeVars
  PROVE  PipeTypeOK'
<1> USE PacketFields, DataFields DEF PipeInv, PipeTypeOK, InSync, OnWire, Engines, Bounds, Toggles, Tokens, Quiet, hostVars, device
<1>1. CASE \E pid \in Tokens : HostToken(pid)
  BY <1>1 DEF HostToken
<1>2. CASE HostData
  BY <1>2 DEF HostData
<1>3. CASE HostAcked
  BY <1>3 DEF HostAcked
<1>4. CASE HostRefused
  BY <1>4 DEF HostRefused
<1>5. CASE HostTakes
  <2>1. wire.n \in Nat
    BY <1>5 DEF HostTakes
  <2>2. inLog' \in Seq(Nat)
    <3>1. inLog' = Append(inLog, wire.n) \/ inLog' = inLog
      BY <1>5, Zenon DEF HostTakes
    <3>2. inLog \in Seq(Nat)
      OBVIOUS
    <3> QED  BY ONLY <2>1, <3>1, <3>2, LogGrows, Zenon
  <2>3. hostIn' \in Toggles
    BY <1>5 DEF HostTakes
  <2> QED  BY <1>5, <2>2, <2>3 DEF HostTakes
<1>6. CASE HostTimeout
  BY <1>6 DEF HostTimeout
<1>7. CASE HostBegins
  BY <1>7 DEF HostBegins
<1>8. CASE TokenHeard
  BY <1>8 DEF TokenHeard, TokenReceived, NoAck, SetupToggles
<1>9. CASE OutDataIgnored
  BY <1>9 DEF OutDataIgnored, OutDataReceived, NoAck
<1>10. CASE OutRepeated
  BY <1>10 DEF OutRepeated, OutDataReceived, NoAck
<1>11. CASE OutRefused
  BY <1>11 DEF OutRefused, OutExpected, OutDataReceived, NoAck
<1>12. CASE OutAccepted
  <2>0. wire.n \in Nat
    BY <1>12 DEF OutAccepted, OutExpected, OutDataReceived
  <2>1. outLog' \in Seq(Nat)
    <3>1. outLog' = <<>> \/ outLog' = Append(outLog, wire.n)
      BY <1>12, Zenon DEF OutAccepted
    <3>2. <<>> \in Seq(Nat) /\ outLog \in Seq(Nat)
      OBVIOUS
    <3> QED  BY ONLY <2>0, <3>1, <3>2, LogGrows, Zenon
  <2>2. inRdy' \in BOOLEAN /\ hasData' \in BOOLEAN
    <3>1. inRdy' = FALSE \/ inRdy' = inRdy
      BY <1>12 DEF OutAccepted
    <3>2. hasData' = hasData
      BY <1>12 DEF OutAccepted, OutExpected, OutDataReceived
    <3> QED  BY <3>1, <3>2, Zenon
  <2>3. outToggle' \in Toggles /\ inAcked' \in 0..MaxPackets /\ wire' \in BusPackets
    BY <1>12 DEF OutAccepted
  <2> QED
    BY <1>12, <2>1, <2>2, <2>3 DEF OutAccepted, OutExpected, OutDataReceived, NoAck
<1>13. CASE OutTimeout
  BY <1>13 DEF OutTimeout
<1>14. CASE InTokenReceived
  <2>1. hasData' \in BOOLEAN
    BY <1>14, Zenon DEF InTokenReceived
  <2> QED  BY <1>14, <2>1 DEF InTokenReceived
<1>15. CASE InResponse
  <2>1. wire' \in BusPackets /\ inXact' \in {"idle", "waitAck"}
    <3>1. inAcked + 1 \in Nat
      OBVIOUS
    <3>2. \/ wire' = Data("host", inToggle, inAcked + 1) /\ inXact' = "waitAck"
          \/ wire' = Handshake("host", "NAK") /\ inXact' = "idle"
      <4>1. CASE hasData
        BY <1>15, <4>1 DEF InResponse
      <4>2. CASE ~hasData
        BY <1>15, <4>2 DEF InResponse
      <4> QED  BY <4>1, <4>2
    <3> QED  BY <3>1, <3>2
  <2> QED  BY <1>15, <2>1 DEF InResponse
<1>16. CASE InTimeout
  BY <1>16 DEF InTimeout
<1>17. CASE AckReceived
  <2>1. inRdy' \in BOOLEAN
    <3>1. inRdy' = FALSE \/ inRdy' = inRdy
      BY <1>17, Zenon DEF AckReceived
    <3> QED  BY <3>1, Zenon
  <2> QED  BY <1>17, <2>1 DEF AckReceived
<1>18. CASE QueuePacket
  BY <1>18 DEF QueuePacket
<1>19. CASE PipeReset
  <2>1. inRdy' \in BOOLEAN
    BY <1>19, Zenon DEF PipeReset
  <2>2. inLog' \in Seq(Nat) /\ outLog' \in Seq(Nat)
    <3>1. <<>> \in Seq(Nat)
      OBVIOUS
    <3> QED  BY <1>19, <3>1, Zenon DEF PipeReset
  <2> QED  BY <1>19, <2>1, <2>2 DEF PipeReset
<1>20. CASE Lose
  BY <1>20 DEF Lose
<1>21. CASE UNCHANGED pipeVars
  BY <1>21 DEF pipeVars
<1> QED
  BY <1>1, <1>2, <1>3, <1>4, <1>5, <1>6, <1>7, <1>8, <1>9, <1>10, <1>11, <1>12, <1>13, <1>14, <1>15, <1>16, <1>17, <1>18, <1>19, <1>20, <1>21 DEF PipeNext

LEMMA SyncStep ==
  ASSUME PipeInv, [PipeNext]_pipeVars
  PROVE  InSync'
<1> USE PacketFields, DataFields DEF PipeInv, PipeTypeOK, InSync, OnWire, Engines, Toggles, Tokens, Quiet, hostVars, device
<1>1. CASE \E pid \in Tokens : HostToken(pid)
  BY <1>1 DEF HostToken
<1>2. CASE HostData
  BY <1>2 DEF HostData
<1>3. CASE HostAcked
  BY <1>3 DEF HostAcked
<1>4. CASE HostRefused
  BY <1>4 DEF HostRefused
<1>5. CASE HostTakes
  BY <1>5 DEF HostTakes
<1>6. CASE HostTimeout
  BY <1>6 DEF HostTimeout
<1>7. CASE HostBegins
  BY <1>7 DEF HostBegins
<1>8. CASE TokenHeard
  BY <1>8 DEF TokenHeard, TokenReceived, NoAck, SetupToggles
<1>9. CASE OutDataIgnored
  BY <1>9 DEF OutDataIgnored, OutDataReceived, NoAck
<1>10. CASE OutRepeated
  BY <1>10 DEF OutRepeated, OutDataReceived, NoAck
<1>11. CASE OutRefused
  BY <1>11 DEF OutRefused, OutExpected, OutDataReceived, NoAck
<1>12. CASE OutAccepted
  BY <1>12 DEF OutAccepted, OutExpected, OutDataReceived, NoAck
<1>13. CASE OutTimeout
  BY <1>13 DEF OutTimeout
<1>14. CASE InTokenReceived
  BY <1>14 DEF InTokenReceived
<1>15. CASE InResponse
  BY <1>15 DEF InResponse
<1>16. CASE InTimeout
  BY <1>16 DEF InTimeout
<1>17. CASE AckReceived
  BY <1>17 DEF AckReceived
<1>18. CASE QueuePacket
  BY <1>18 DEF QueuePacket
<1>19. CASE PipeReset
  BY <1>19 DEF PipeReset
<1>20. CASE Lose
  BY <1>20 DEF Lose
<1>21. CASE UNCHANGED pipeVars
  BY <1>21 DEF pipeVars
<1> QED
  BY <1>1, <1>2, <1>3, <1>4, <1>5, <1>6, <1>7, <1>8, <1>9, <1>10, <1>11, <1>12, <1>13, <1>14, <1>15, <1>16, <1>17, <1>18, <1>19, <1>20, <1>21 DEF PipeNext

LEMMA WireStep ==
  ASSUME PipeInv, [PipeNext]_pipeVars
  PROVE  OnWire'
<1> USE PacketFields, DataFields DEF PipeInv, PipeTypeOK, InSync, OnWire, Engines, Toggles, Tokens, Quiet, hostVars, device
<1>1. CASE \E pid \in Tokens : HostToken(pid)
  BY <1>1 DEF HostToken
<1>2. CASE HostData
  BY <1>2 DEF HostData
<1>3. CASE HostAcked
  BY <1>3 DEF HostAcked
<1>4. CASE HostRefused
  BY <1>4 DEF HostRefused
<1>5. CASE HostTakes
  BY <1>5 DEF HostTakes
<1>6. CASE HostTimeout
  BY <1>6 DEF HostTimeout
<1>7. CASE HostBegins
  BY <1>7 DEF HostBegins
<1>8. CASE TokenHeard
  BY <1>8 DEF TokenHeard, TokenReceived, NoAck, SetupToggles
<1>9. CASE OutDataIgnored
  BY <1>9 DEF OutDataIgnored, OutDataReceived, NoAck
<1>10. CASE OutRepeated
  BY <1>10 DEF OutRepeated, OutDataReceived, NoAck
<1>11. CASE OutRefused
  BY <1>11 DEF OutRefused, OutExpected, OutDataReceived, NoAck
<1>12. CASE OutAccepted
  BY <1>12 DEF OutAccepted, OutExpected, OutDataReceived, NoAck
<1>13. CASE OutTimeout
  BY <1>13 DEF OutTimeout
<1>14. CASE InTokenReceived
  BY <1>14 DEF InTokenReceived
<1>15. CASE InResponse
  BY <1>15 DEF InResponse
<1>16. CASE InTimeout
  BY <1>16 DEF InTimeout
<1>17. CASE AckReceived
  BY <1>17 DEF AckReceived
<1>18. CASE QueuePacket
  BY <1>18 DEF QueuePacket
<1>19. CASE PipeReset
  BY <1>19 DEF PipeReset
<1>20. CASE Lose
  BY <1>20 DEF Lose
<1>21. CASE UNCHANGED pipeVars
  BY <1>21 DEF pipeVars
<1> QED
  BY <1>1, <1>2, <1>3, <1>4, <1>5, <1>6, <1>7, <1>8, <1>9, <1>10, <1>11, <1>12, <1>13, <1>14, <1>15, <1>16, <1>17, <1>18, <1>19, <1>20, <1>21 DEF PipeNext

LEMMA EnginesStep ==
  ASSUME PipeInv, [PipeNext]_pipeVars
  PROVE  Engines'
<1> USE PacketFields, DataFields DEF PipeInv, PipeTypeOK, OnWire, Engines, Toggles, Tokens, Quiet, hostVars, device
<1>1. CASE \E pid \in Tokens : HostToken(pid)
  BY <1>1 DEF HostToken
<1>2. CASE HostData
  BY <1>2 DEF HostData
<1>3. CASE HostAcked
  BY <1>3 DEF HostAcked
<1>4. CASE HostRefused
  BY <1>4 DEF HostRefused
<1>5. CASE HostTakes
  BY <1>5 DEF HostTakes
<1>6. CASE HostTimeout
  BY <1>6 DEF HostTimeout
<1>7. CASE HostBegins
  BY <1>7 DEF HostBegins
<1>8. CASE TokenHeard
  BY <1>8 DEF TokenHeard, TokenReceived, NoAck, SetupToggles
<1>9. CASE OutDataIgnored
  BY <1>9 DEF OutDataIgnored, OutDataReceived, NoAck
<1>10. CASE OutRepeated
  BY <1>10 DEF OutRepeated, OutDataReceived, NoAck
<1>11. CASE OutRefused
  BY <1>11 DEF OutRefused, OutExpected, OutDataReceived, NoAck
<1>12. CASE OutAccepted
  BY <1>12 DEF OutAccepted, OutExpected, OutDataReceived, NoAck
<1>13. CASE OutTimeout
  BY <1>13 DEF OutTimeout
<1>14. CASE InTokenReceived
  BY <1>14 DEF InTokenReceived
<1>15. CASE InResponse
  BY <1>15 DEF InResponse
<1>16. CASE InTimeout
  BY <1>16 DEF InTimeout
<1>17. CASE AckReceived
  BY <1>17 DEF AckReceived
<1>18. CASE QueuePacket
  BY <1>18 DEF QueuePacket
<1>19. CASE PipeReset
  BY <1>19 DEF PipeReset
<1>20. CASE Lose
  BY <1>20 DEF Lose
<1>21. CASE UNCHANGED pipeVars
  BY <1>21 DEF pipeVars
<1> QED
  BY <1>1, <1>2, <1>3, <1>4, <1>5, <1>6, <1>7, <1>8, <1>9, <1>10, <1>11, <1>12, <1>13, <1>14, <1>15, <1>16, <1>17, <1>18, <1>19, <1>20, <1>21 DEF PipeNext

LEMMA BoundsStep ==
  ASSUME PipeInv, [PipeNext]_pipeVars
  PROVE  Bounds'
<1> USE PacketFields, DataFields DEF PipeInv, PipeTypeOK, InSync, OnWire, Engines, Bounds, Toggles, Tokens, Quiet, hostVars, device
<1>1. CASE \E pid \in Tokens : HostToken(pid)
  BY <1>1 DEF HostToken
<1>2. CASE HostData
  BY <1>2 DEF HostData
<1>3. CASE HostAcked
  BY <1>3 DEF HostAcked
<1>4. CASE HostRefused
  BY <1>4 DEF HostRefused
<1>5. CASE HostTakes
  BY <1>5 DEF HostTakes
<1>6. CASE HostTimeout
  BY <1>6 DEF HostTimeout
<1>7. CASE HostBegins
  BY <1>7 DEF HostBegins
<1>8. CASE TokenHeard
  BY <1>8 DEF TokenHeard, TokenReceived, NoAck, SetupToggles
<1>9. CASE OutDataIgnored
  BY <1>9 DEF OutDataIgnored, OutDataReceived, NoAck
<1>10. CASE OutRepeated
  BY <1>10 DEF OutRepeated, OutDataReceived, NoAck
<1>11. CASE OutRefused
  BY <1>11 DEF OutRefused, OutExpected, OutDataReceived, NoAck
<1>12. CASE OutAccepted
  BY <1>12 DEF OutAccepted, OutExpected, OutDataReceived, NoAck
<1>13. CASE OutTimeout
  BY <1>13 DEF OutTimeout
<1>14. CASE InTokenReceived
  BY <1>14 DEF InTokenReceived
<1>15. CASE InResponse
  BY <1>15 DEF InResponse
<1>16. CASE InTimeout
  BY <1>16 DEF InTimeout
<1>17. CASE AckReceived
  BY <1>17 DEF AckReceived
<1>18. CASE QueuePacket
  BY <1>18 DEF QueuePacket
<1>19. CASE PipeReset
  BY <1>19 DEF PipeReset
<1>20. CASE Lose
  BY <1>20 DEF Lose
<1>21. CASE UNCHANGED pipeVars
  BY <1>21 DEF pipeVars
<1> QED
  BY <1>1, <1>2, <1>3, <1>4, <1>5, <1>6, <1>7, <1>8, <1>9, <1>10, <1>11, <1>12, <1>13, <1>14, <1>15, <1>16, <1>17, <1>18, <1>19, <1>20, <1>21 DEF PipeNext

-----------------------------------------------------------------------------
LEMMA PipeInductive == PipeSpec => []PipeInv
<1>1. PipeInv /\ [PipeNext]_pipeVars => PipeInv'
  BY TypeStep, SyncStep, WireStep, EnginesStep, BoundsStep DEF PipeInv
<1> QED  BY <1>1, PipeStart, PTL DEF PipeSpec

(* Registers, engines, bus and host keep their types. *)
THEOREM PipeTypeCorrect == PipeSpec => []PipeTypeOK
<1>1. PipeInv => PipeTypeOK
  BY DEF PipeInv
<1> QED  BY <1>1, PipeInductive, PTL

(* The OUT direction implements the delivery of each packet once and in    *)
(* order.  Storing a packet is the delivery, and the acknowledgement that  *)
(* reaches the host is the sender's learning of it.                        *)
THEOREM OutImplementation == PipeSpec => OutExactlyOnce
<1>1. PipeInit => Out!Init
  BY DEF PipeInit, Out!Init, OutKnown
<1>2. PipeInv /\ [PipeNext]_pipeVars => [Out!Next]_Out!vars
  <2> SUFFICES ASSUME PipeInv, [PipeNext]_pipeVars
               PROVE  [Out!Next]_Out!vars
    OBVIOUS
  <2> USE DEF Out!vars, OutKnown, hostVars, device
  <2>1. CASE OutAccepted
    <3>1. CASE phase = "setup"
      BY <2>1, <3>1 DEF OutAccepted, OutExpected, OutDataReceived
    <3>2. CASE phase = "data"
      <4>1. wire.n = outAcked + 1 /\ Len(outLog) = outAcked /\ outXact # "SETUP"
        BY <2>1, <3>2
        DEF OutAccepted, OutExpected, OutDataReceived, PipeInv, InSync, OnWire, Engines
      <4>2. phase' = "data" /\ outLog' = Append(outLog, outAcked + 1)
            /\ UNCHANGED <<session, outAcked>>
        BY <2>1, <3>2, <4>1 DEF OutAccepted, OutExpected, OutDataReceived
      <4> QED  BY <3>2, <4>1, <4>2 DEF Out!Next, Out!Deliver
    <3> QED  BY <3>1, <3>2 DEF PipeInv, PipeTypeOK
  <2>2. CASE HostAcked
    <3>1. CASE phase = "setup"
      <4>1. outLog = <<>>
        BY <2>2, <3>1, PacketFields DEF HostAcked, PipeInv, OnWire
      <4> QED  BY <2>2, <3>1, <4>1 DEF HostAcked
    <3>2. CASE phase = "data"
      <4>1. outToggle # hostOut
        BY <2>2, <3>2, PacketFields DEF HostAcked, PipeInv, OnWire
      <4>2. Len(outLog) = outAcked + 1
        BY <3>2, <4>1 DEF PipeInv, InSync
      <4> QED  BY <2>2, <3>2, <4>2 DEF HostAcked, Out!Next, Out!Learn
    <3> QED  BY <3>1, <3>2 DEF PipeInv, PipeTypeOK
  <2>3. CASE HostBegins
    BY <2>3 DEF HostBegins, Out!Next, Out!Restart
  <2>4. CASE PipeReset
    BY <2>4 DEF PipeReset, Out!Next, Out!Restart
  <2>5. CASE UNCHANGED <<session, phase, outLog, outAcked>>
    BY <2>5
  <2> QED
    BY <2>1, <2>2, <2>3, <2>4, <2>5
    DEF PipeNext, pipeVars, HostToken, HostData, HostRefused, HostTakes, HostTimeout,
        TokenHeard, TokenReceived, OutDataReceived, OutDataIgnored, OutRepeated,
        OutExpected, OutRefused, OutTimeout, InTokenReceived, InResponse, InTimeout,
        AckReceived, QueuePacket, Lose
<1> QED  BY <1>1, <1>2, PipeInductive, PTL DEF PipeSpec, OutExactlyOnce, Out!Spec

(* The IN direction does so too.  The delivery is the host's taking the    *)
(* data, and the device learns of it when the host's ACK comes in time.    *)
THEOREM InImplementation == PipeSpec => InExactlyOnce
<1>1. PipeInit => In!Init
  BY DEF PipeInit, In!Init, InKnown
<1>2. PipeInv /\ [PipeNext]_pipeVars => [In!Next]_In!vars
  <2> SUFFICES ASSUME PipeInv, [PipeNext]_pipeVars
               PROVE  [In!Next]_In!vars
    OBVIOUS
  <2> USE DEF In!vars, InKnown, hostVars, device
  <2>1. CASE HostTakes
    <3>1. phase = "data" /\ wire.toggle = inToggle /\ wire.n = inAcked + 1
      <4>1. hostState = "awaitData" /\ wire.pid = "DATA"
        BY <2>1 DEF HostTakes
      <4>2. wire.to = "host"
        BY <4>1, DataFields DEF PipeInv, OnWire
      <4> QED  BY <4>1, <4>2 DEF PipeInv, OnWire, Engines
    <3>2. CASE wire.toggle = hostIn
      <4>1. Len(inLog) = inAcked
        BY <3>1, <3>2 DEF PipeInv, InSync
      <4> QED  BY <2>1, <3>1, <3>2, <4>1 DEF HostTakes, In!Next, In!Deliver
    <3>3. CASE wire.toggle # hostIn
      BY <2>1, <3>3 DEF HostTakes
    <3> QED  BY <3>2, <3>3
  <2>2. CASE AckReceived
    <3>1. phase = "data" /\ (inXact = "waitAck" => inToggle # hostIn)
      BY <2>2, PacketFields DEF AckReceived, PipeInv, OnWire
    <3>2. CASE inXact = "waitAck"
      <4>1. Len(inLog) = inAcked + 1
        BY <3>1, <3>2 DEF PipeInv, InSync
      <4> QED  BY <2>2, <3>1, <3>2, <4>1 DEF AckReceived, In!Next, In!Learn
    <3>3. CASE inXact # "waitAck"
      BY <2>2, <3>3 DEF AckReceived
    <3> QED  BY <3>2, <3>3
  <2>3. CASE OutAccepted
    <3>1. outXact = "SETUP" => phase = "setup"
      BY DEF PipeInv, Engines
    <3> QED  BY <2>3, <3>1 DEF OutAccepted, OutExpected, OutDataReceived
  <2>4. CASE HostAcked
    <3>1. phase = "setup" => inAcked = 0
      BY <2>4, PacketFields DEF HostAcked, PipeInv, OnWire
    <3> QED  BY <2>4, <3>1 DEF HostAcked
  <2>5. CASE HostBegins
    BY <2>5 DEF HostBegins, In!Next, In!Restart
  <2>6. CASE PipeReset
    BY <2>6 DEF PipeReset, In!Next, In!Restart
  <2>7. CASE UNCHANGED <<session, phase, inLog, inAcked>>
    BY <2>7
  <2> QED
    BY <2>1, <2>2, <2>3, <2>4, <2>5, <2>6, <2>7
    DEF PipeNext, pipeVars, HostToken, HostData, HostRefused, HostTimeout,
        TokenHeard, TokenReceived, OutDataReceived, OutDataIgnored, OutRepeated,
        OutExpected, OutRefused, OutTimeout, InTokenReceived, InResponse, InTimeout,
        QueuePacket, Lose
<1> QED  BY <1>1, <1>2, PipeInductive, PTL DEF PipeSpec, InExactlyOnce, In!Spec

=============================================================================
