-------------------------- MODULE UsbControlProofs --------------------------
(***************************************************************************)
(* The polled USB stack, for any number of buffers, any depth of the FIFOs *)
(* and any size of answers: how device and host go together through        *)
(* transfers that run to their end, and where the packet buffers are       *)
(* (LockInv).                                                              *)
(***************************************************************************)
EXTENDS UsbControl, SequenceTheorems, FiniteSetTheorems, TLAPS

Entries == [buf : Buffers, rdy : BOOLEAN, pend : BOOLEAN, sending : BOOLEAN]

Labels == {"poll", "clear", "clearPend", "clearSent", "sent", "send", "sendPart", "sendReady",
           "partReady", "fill", "receive", "setup", "out", "stallIn", "stallOut"}


Transfer(x) == DOMAIN x = {"active", "left", "next"} /\ x.next \in Buffers \cup {NoBuf}

(* The types of what says where buffers are. *)
BufferTypes ==
  /\ pool \subseteq Buffers /\ avSetup \subseteq Buffers /\ avOut \subseteq Buffers
  /\ rx \in Seq(Packets)
  /\ configin \in [Eps -> Entries]
  /\ inSent \subseteq Eps
  /\ xact \in Xacts
  /\ pc \in Labels
  /\ pc \in {"clearPend", "clearSent", "send", "sendPart", "sendReady", "partReady"} => buf \in Buffers
  /\ pkt \in Buffers \cup {NoBuf}
  /\ pc \in {"setup", "out"} => pkt \in Buffers
  /\ Transfer(xfer)

(* The host has been given, or is about to be given, the queued packet. *)
DataOnWire == xact.kind = "data" \/ (xact.kind = "in" /\ xact.hasData)

-----------------------------------------------------------------------------
(* Where buffers are. *)

Holders == {"pool", "avSetup", "avOut", "rx", "prepared", "queued", "working", "packet"}

BufsOf(s)   == {s[i].buf : i \in DOMAIN s}
Distinct(s) == \A i, j \in DOMAIN s : i # j => s[i].buf # s[j].buf

Working == IF pc \in {"clearSent", "send", "sendPart", "sendReady", "partReady"} THEN {buf} ELSE {}
Packet  == IF pc \in {"setup", "out", "stallIn", "stallOut"} THEN {pkt} \ {NoBuf} ELSE {}

Held == [h \in Holders |->
           CASE h = "pool"     -> pool
             [] h = "avSetup"  -> avSetup
             [] h = "avOut"    -> avOut
             [] h = "rx"       -> BufsOf(rx)
             [] h = "prepared" -> Prepared
             [] h = "queued"   -> Queued
             [] h = "working"  -> Working
             [] h = "packet"   -> Packet]

Disjoint(held) == \A g, h \in Holders : g # h => held[g] \cap held[h] = {}

-----------------------------------------------------------------------------
(* Facts about places. *)

HeldIs ==
  /\ Held["pool"] = pool /\ Held["avSetup"] = avSetup /\ Held["avOut"] = avOut
  /\ Held["rx"] = BufsOf(rx)
  /\ Held["prepared"] = Prepared /\ Held["queued"] = Queued
  /\ Held["working"] = Working /\ Held["packet"] = Packet

LEMMA HeldValues == HeldIs
BY DEF HeldIs, Held, Holders

LEMMA HeldValuesNext == HeldIs'
BY DEF HeldIs, Held, Holders

(* One buffer moves from one place to another, and others may be lost. *)
LEMMA MovedStaysDisjoint ==
  ASSUME NEW H, NEW G, Disjoint(H),
         NEW x \in Holders, NEW y \in Holders, x # y, NEW b \in H[x],
         G[x] \subseteq H[x] \ {b}, G[y] \subseteq H[y] \cup {b},
         \A h \in Holders \ {x, y} : G[h] \subseteq H[h]
  PROVE  Disjoint(G)
<1>1. \A h \in Holders : h # x => b \notin H[h]
  BY DEF Disjoint
<1>2. b \notin G[x] /\ \A h \in Holders : \A c \in G[h] : c \in H[h] \/ (c = b /\ h = y)
  OBVIOUS
<1> QED  BY <1>1, <1>2 DEF Disjoint

LEMMA AppendBufs ==
  ASSUME NEW s \in Seq(Packets), NEW p \in Packets, Distinct(s), p.buf \notin BufsOf(s)
  PROVE  BufsOf(Append(s, p)) = BufsOf(s) \cup {p.buf} /\ Distinct(Append(s, p))
<1> DEFINE t == Append(s, p)
<1>1. /\ Len(s) \in Nat /\ DOMAIN s = 1..Len(s) /\ DOMAIN t = 1..(Len(s) + 1)
      /\ \A i \in 1..Len(s) : t[i] = s[i]
      /\ t[Len(s) + 1] = p
  BY AppendProperties, LenProperties
<1> HIDE DEF t
<1>2. /\ \A i \in DOMAIN t : i \in DOMAIN s \/ i = Len(s) + 1
      /\ \A i \in DOMAIN s : i \in DOMAIN t
      /\ Len(s) + 1 \in DOMAIN t
  BY <1>1
<1>3. BufsOf(t) = BufsOf(s) \cup {p.buf}
  BY <1>1, <1>2 DEF BufsOf
<1>4. Distinct(t)
  BY <1>1, <1>2 DEF BufsOf, Distinct
<1> QED  BY <1>3, <1>4 DEF t

LEMMA TailBufs ==
  ASSUME NEW s \in Seq(Packets), s # <<>>, Distinct(s)
  PROVE  /\ Head(s) \in Packets /\ Tail(s) \in Seq(Packets) /\ Head(s).buf \in BufsOf(s)
         /\ BufsOf(Tail(s)) \subseteq BufsOf(s) \ {Head(s).buf}
         /\ Distinct(Tail(s))
<1> DEFINE t == Tail(s)
<1>1. /\ Len(s) \in Nat /\ Len(s) > 0 /\ DOMAIN s = 1..Len(s)
      /\ DOMAIN t = 1..(Len(s) - 1)
      /\ \A i \in DOMAIN t : t[i] = s[i + 1]
      /\ Head(s) \in Packets /\ t \in Seq(Packets)
  BY HeadTailProperties, LenProperties, EmptySeq
<1>2. Head(s) = s[1] /\ 1 \in DOMAIN s
  BY <1>1
<1> HIDE DEF t
<1>3. \A i \in DOMAIN t : i + 1 \in DOMAIN s /\ i + 1 # 1
  BY <1>1
<1>4. BufsOf(t) \subseteq BufsOf(s) \ {s[1].buf}
  <2> SUFFICES ASSUME NEW i \in DOMAIN t  PROVE t[i].buf \in BufsOf(s) /\ t[i].buf # s[1].buf
    BY DEF BufsOf
  <2>1. i + 1 \in DOMAIN s /\ i + 1 # 1 /\ t[i] = s[i + 1]
    BY <1>1, <1>3
  <2> QED  BY <1>2, <2>1 DEF BufsOf, Distinct
<1>5. Distinct(t)
  <2> SUFFICES ASSUME NEW i \in DOMAIN t, NEW j \in DOMAIN t, i # j
               PROVE  t[i].buf # t[j].buf
    BY DEF Distinct
  <2>1. i + 1 \in DOMAIN s /\ j + 1 \in DOMAIN s /\ i + 1 # j + 1
    BY <1>1, <1>3
  <2> QED  BY <1>1, <2>1 DEF Distinct
<1>6. s[1].buf \in BufsOf(s)
  BY <1>2 DEF BufsOf
<1> QED  BY <1>1, <1>2, <1>4, <1>5, <1>6 DEF t

LEMMA EndpointIsZero == 0 \in Eps /\ Eps = {0}
BY EndpointAssumption

(* The forms a transaction can have. *)
LEMMA XactForms ==
  ASSUME xact \in Xacts
  PROVE  /\ Receiving => /\ xact \in [kind : {"setup", "out"}, ep : Eps, nak : BOOLEAN]
                         /\ xact.ep = 0
         /\ xact.kind = "in" =>
              xact \in [kind : {"in"}, ep : Eps, buf : Buffers, hasData : BOOLEAN]
         /\ xact.kind = "data" =>
              xact \in [kind : {"data"}, ep : Eps, buf : Buffers] /\ xact.ep = 0
BY EndpointIsZero DEF Xacts, NoXact, Receiving

LEMMA NoXactIsQuiet == NoXact \in Xacts /\ NoXact.kind = "none"
BY DEF NoXact, Xacts

LEMMA CancelType ==
  ASSUME NEW c \in Entries
  PROVE  Cancel(c) \in Entries /\ Cancel(c).buf = c.buf /\ ~Cancel(c).rdy
BY DEF Cancel, Entries

-----------------------------------------------------------------------------
(* Transfers that run to their end.  One transaction at most ends during a *)
(* poll; what the next transfer has sent may wait behind the status stage  *)
(* of this one.                                                            *)

(* No buffer is in two places, and none is lost. *)
Partition(held) == Disjoint(held) /\ \A b \in Buffers : \E h \in Holders : b \in held[h]

Known == Kinds \ {"unknown"}

Between == {"poll", "fill", "receive"}

Ready == configin[0].rdy

FirstStage(r) == IF r \in {"small", "large"} THEN "dataIn" ELSE "statusIn"

(* After k packets of the transfer before, the FIFO holds what the host    *)
(* has sent of the next one: nothing, or the SETUP packet of its request.  *)
Setup(p) == p.setup /\ content[p.buf].req = req
Begun(k) ==
  \/ stage \in {"idle", "setup"} /\ Len(rx) = k
  \/ stage = FirstStage(req) /\ Len(rx) = k + 1 /\ Setup(rx[k + 1])

(* The host is to send the status packet, or it is first in the FIFO. *)
StatusNext ==
  \/ stage = "statusOut" /\ Len(rx) = 0
  \/ Len(rx) > 0 /\ ~rx[1].setup /\ Begun(1)

(* What is put into b is of the answer, and marked when it is the last.    *)
Answer(b) == content[b].req = req /\ (content[b].last <=> ~MoreToSend)

Taken ==
  \/ inSent = {0} /\ pc \in Between \cup {"clear", "clearPend", "clearSent"}
  \/ inSent = {} /\ pc = "sent"

Answering == ctrl = AfterSetup(req) /\ stage = FirstStage(req) /\ Len(rx) = 0

(* Device and host, step by step through a transfer. *)
Idle ==
  /\ ctrl = "idle" /\ inSent = {} /\ ~Ready
  /\ \/ pc \in Between /\ Begun(0)
     \/ pc = "setup" /\ Len(rx) = 0 /\ stage = FirstStage(req) /\ content[pkt].req = req

Writing ==
  /\ Answering /\ inSent = {} /\ ~Ready
  /\ pc \in {"send", "sendPart", "sendReady", "partReady"} /\ Answer(buf) /\ xfer.next = NoBuf

Offered ==
  /\ Answering /\ inSent = {} /\ Ready
  /\ pc \in Between /\ Answer(configin[0].buf)

PartTaken == Answering /\ Taken /\ ~Ready /\ MoreToSend

AllTaken ==
  /\ Taken /\ ~Ready /\ ~MoreToSend
  /\ \/ ctrl \in {"addrStatIn", "cfgStatIn", "statIn"} /\ Begun(0)
     \/ ctrl = "waitIn" /\ StatusNext
  /\ ctrl = "addrStatIn" => hostAddr = 1
  /\ pc \in {"fill", "receive"} => Len(rx) = 0 /\ ended > 0

StatusDue ==
  /\ ctrl = "statOut" /\ inSent = {} /\ ~Ready
  /\ \/ pc \in Between /\ StatusNext
     \/ pc = "out" /\ Begun(0)

Phase == Idle \/ Writing \/ Offered \/ PartTaken \/ AllTaken \/ StatusDue

TransferInv ==
  /\ xfer \in [active : BOOLEAN, left : Nat, next : Buffers \cup {NoBuf}]
  /\ xfer.active => ctrl = "waitIn"
  /\ MoreToSend => req = "large"
  /\ xfer.next # NoBuf => /\ xfer.active /\ content[xfer.next].req = "large"
                          /\ (content[xfer.next].last <=> xfer.left = 0)

WireInv ==
  /\ xact.kind = "setup" => stage = "setup"
  /\ xact.kind = "out" => stage = "statusOut"
  /\ xact.kind \in {"in", "data"} => stage \in {"dataIn", "statusIn"}
  /\ DataOnWire => Ready /\ xact.buf = configin[0].buf

(* No stall, no reset, no address before its status stage. *)
CalmInv ==
  /\ inStall = {} /\ outStall = {} /\ ~stalled
  /\ resetIntr = FALSE /\ "reset" \notin istate
  /\ req \in Known
  /\ addr = 1 => hostAddr = 1

(* The packet in hand, and what the poll has made sure of. *)
Received ==
  \/ pc \in {"receive", "setup", "out"}
  \/ pc \in {"send", "sendPart", "sendReady", "partReady"} /\ pkt # NoBuf

SupplyInv ==
  /\ content \in [Buffers -> [req : Kinds \cup {"none"}, last : BOOLEAN]]
  /\ pc \notin {"setup", "out", "send", "sendPart", "sendReady", "partReady"} => pkt = NoBuf
  /\ pc = "clearPend" => buf = configin[0].buf
  /\ pc = "sent" => pool # {}
  /\ Cardinality(avOut) <= AvOutDepth
  /\ ended \in Nat
  /\ Received /\ ended = 0 => avSetup # {}

LockInv ==
  BufferTypes /\ Partition(Held) /\ Distinct(rx) /\ Phase /\ TransferInv /\ WireInv
  /\ CalmInv /\ SupplyInv

Regular == Overlap <= 1 /\ Requests \subseteq Known

-----------------------------------------------------------------------------
LEMMA SameStaysPartition ==
  ASSUME NEW H, NEW G, Partition(H), \A h \in Holders : G[h] = H[h]
  PROVE  Partition(G)
BY DEF Partition, Disjoint

LEMMA MovedStaysPartition ==
  ASSUME NEW H, NEW G, Partition(H),
         NEW x \in Holders, NEW y \in Holders, x # y, NEW b \in H[x],
         G[x] = H[x] \ {b}, G[y] = H[y] \cup {b},
         \A h \in Holders \ {x, y} : G[h] = H[h]
  PROVE  Partition(G)
<1>1. Disjoint(G)
  BY MovedStaysDisjoint DEF Partition
<1>2. \A c \in Buffers : \E h \in Holders : c \in G[h]
  <2> SUFFICES ASSUME NEW c \in Buffers  PROVE \E h \in Holders : c \in G[h]
    OBVIOUS
  <2>1. PICK h \in Holders : c \in H[h]
    BY DEF Partition
  <2>2. c \in G[h] \/ c \in G[y]
    BY <2>1
  <2> QED  BY <2>2
<1> QED  BY <1>1, <1>2 DEF Partition

(* The host's side, and what is in the FIFO, stay as they are. *)
LEMMA HostStays ==
  ASSUME UNCHANGED <<stage, req, rx, content>>
  PROVE  /\ Begun(0)' <=> Begun(0)
         /\ Begun(1)' <=> Begun(1)
         /\ StatusNext' <=> StatusNext
BY DEF Begun, StatusNext, Setup

LEMMA TransferStays ==
  ASSUME UNCHANGED xfer
  PROVE  MoreToSend' <=> MoreToSend
BY DEF MoreToSend, PartLeft

LEMMA RxPackets ==
  ASSUME BufferTypes
  PROVE  /\ Len(rx) \in Nat /\ DOMAIN rx = 1..Len(rx)
         /\ \A i \in DOMAIN rx : rx[i] \in Packets /\ rx[i].buf \in Buffers
<1>1. Len(rx) \in Nat /\ DOMAIN rx = 1..Len(rx)
  BY LenProperties DEF BufferTypes
<1>2. \A i \in DOMAIN rx : rx[i] \in Packets
  BY <1>1, ElementOfSeq DEF BufferTypes
<1> QED  BY <1>1, <1>2 DEF Packets

LEMMA PollLocks ==
  ASSUME LockInv, Poll  PROVE LockInv'
<1> USE DEF LockInv, Poll, hwVars, fifos, inRegs, outRegs, host
<1>1. BufferTypes'
  BY DEF BufferTypes, Labels
<1>2. \A h \in Holders : Held'[h] = Held[h]
  BY HeldValues, HeldValuesNext DEF HeldIs, Holders, Queued, Prepared, Working, Packet
<1>3. Partition(Held)'
  BY <1>2, SameStaysPartition, Zenon
<1>4. pc' \in {"clear", "fill"} /\ (pc' = "clear" <=> inSent # {})
  OBVIOUS
<1>5. Phase'
  <2> USE <1>4, HostStays, TransferStays
  <2>1. ASSUME Idle  PROVE Idle'
    BY <2>1 DEF Idle, Between, Ready
  <2>2. ~Writing
    BY DEF Writing
  <2>3. ASSUME Offered  PROVE Offered'
    BY <2>3 DEF Offered, Between, Ready, Answering, Answer
  <2>4. ASSUME PartTaken  PROVE PartTaken'
    BY <2>4 DEF PartTaken, Taken, Between, Ready, Answering
  <2>5. ASSUME AllTaken  PROVE AllTaken'
    BY <2>5 DEF AllTaken, Taken, Between, Ready
  <2>6. ASSUME StatusDue  PROVE StatusDue'
    BY <2>6 DEF StatusDue, Between, Ready
  <2> QED  BY <2>1, <2>2, <2>3, <2>4, <2>5, <2>6 DEF Phase
<1>6. TransferInv' /\ WireInv' /\ CalmInv'
  BY TransferStays DEF TransferInv, WireInv, CalmInv, DataOnWire, Ready
<1>7. SupplyInv'
  BY <1>4 DEF SupplyInv, Received
<1> QED  BY <1>1, <1>3, <1>5, <1>6, <1>7 DEF Distinct

LEMMA ClearReadLocks ==
  ASSUME LockInv, ClearRead  PROVE LockInv'
<1> USE DEF LockInv, ClearRead, hwVars, fifos, inRegs, outRegs, host
<1>1. BufferTypes'
  BY EndpointIsZero DEF BufferTypes, Labels, Entries
<1>2. \A h \in Holders : Held'[h] = Held[h]
  BY HeldValues, HeldValuesNext DEF HeldIs, Holders, Queued, Prepared, Working, Packet
<1>3. Partition(Held)'
  BY <1>2, SameStaysPartition, Zenon
<1>4. Phase'
  <2> USE HostStays, TransferStays
  <2>1. PartTaken \/ AllTaken
    BY DEF Phase, Idle, Writing, Offered, StatusDue, Between
  <2>2. ASSUME PartTaken  PROVE PartTaken'
    BY <2>2 DEF PartTaken, Taken, Between, Ready, Answering
  <2>3. ASSUME AllTaken  PROVE AllTaken'
    BY <2>3 DEF AllTaken, Taken, Between, Ready
  <2> QED  BY <2>1, <2>2, <2>3 DEF Phase
<1>5. TransferInv' /\ WireInv' /\ CalmInv'
  BY TransferStays DEF TransferInv, WireInv, CalmInv, DataOnWire, Ready
<1>6. SupplyInv'
  BY DEF SupplyInv, Received
<1> QED  BY <1>1, <1>3, <1>4, <1>5, <1>6 DEF Distinct

LEMMA ClearWritePendLocks ==
  ASSUME LockInv, ClearWritePend  PROVE LockInv'
<1> USE DEF LockInv, ClearWritePend, ClearPend, fifos, outRegs, host
<1>1. BufferTypes'
  BY EndpointIsZero, BuffersAssumption DEF BufferTypes, Labels, Entries
<1>2. ~Ready'
  BY EndpointIsZero DEF BufferTypes, Entries, Ready
<1>3. PartTaken \/ AllTaken
  BY DEF Phase, Idle, Writing, Offered, StatusDue, Between
<1>4. ~Ready /\ inSent = {0}
  BY <1>3 DEF PartTaken, AllTaken, Taken
<1>5. Partition(Held)'
  <2>1. Queued = {buf} /\ Queued' = {} /\ Working = {} /\ Working' = {buf}
    BY <1>2, <1>4 DEF SupplyInv, Queued, Working, Ready
  <2>2. \A h \in Holders \ {"queued", "working"} : Held'[h] = Held[h]
    BY HeldValues, HeldValuesNext DEF HeldIs, Holders, Prepared, Packet
  <2>3. /\ buf \in Held["queued"] /\ Held'["queued"] = Held["queued"] \ {buf}
        /\ Held'["working"] = Held["working"] \cup {buf}
    BY <2>1, HeldValues, HeldValuesNext DEF HeldIs
  <2>4. "queued" \in Holders /\ "working" \in Holders /\ "queued" # "working"
    BY DEF Holders
  <2> QED  BY <2>2, <2>3, <2>4, MovedStaysPartition, Zenon
<1>6. Phase'
  <2> USE <1>2, HostStays, TransferStays
  <2>1. ASSUME PartTaken  PROVE PartTaken'
    BY <2>1 DEF PartTaken, Taken, Between, Answering
  <2>2. ASSUME AllTaken  PROVE AllTaken'
    BY <2>2 DEF AllTaken, Taken, Between
  <2> QED  BY <1>3, <2>1, <2>2 DEF Phase
<1>7. TransferInv' /\ WireInv' /\ CalmInv'
  BY <1>4, TransferStays DEF TransferInv, WireInv, CalmInv, DataOnWire
<1>8. SupplyInv'
  BY DEF SupplyInv, Received
<1> QED  BY <1>1, <1>5, <1>6, <1>7, <1>8 DEF Distinct

(* The buffer that is returned holds neither the next packet nor one that  *)
(* was received, so what they say is kept.                                 *)
LEMMA ClearWriteSentLocks ==
  ASSUME LockInv, ClearWriteSent  PROVE LockInv'
<1> USE DEF LockInv, ClearWriteSent, ClearSent, fifos, outRegs, host
<1>1. BufferTypes' /\ inSent' = {}
  BY EndpointIsZero DEF BufferTypes, Labels, Return
<1>2. PartTaken \/ AllTaken
  BY DEF Phase, Idle, Writing, Offered, StatusDue, Between
<1>3. ~Ready
  BY <1>2 DEF PartTaken, AllTaken
<1>4. Queued = {} /\ Queued' = {} /\ Working = {buf} /\ Working' = {}
  BY <1>1, <1>3 DEF Queued, Working, Ready
<1>5. Partition(Held)'
  <2>1. \A h \in Holders \ {"pool", "working"} : Held'[h] = Held[h]
    BY <1>4, HeldValues, HeldValuesNext DEF HeldIs, Holders, Prepared, Packet
  <2>2. /\ buf \in Held["working"] /\ Held'["working"] = Held["working"] \ {buf}
        /\ Held'["pool"] = Held["pool"] \cup {buf}
    BY <1>4, HeldValues, HeldValuesNext DEF HeldIs, Return
  <2>3. "pool" \in Holders /\ "working" \in Holders /\ "pool" # "working"
    BY DEF Holders
  <2> QED  BY <2>1, <2>2, <2>3, MovedStaysPartition, Zenon
<1>6. xfer.next # buf /\ \A i \in DOMAIN rx : rx[i].buf # buf
  <2>1. Working \cap Prepared = {} /\ Working \cap BufsOf(rx) = {}
    BY HeldValues DEF HeldIs, Partition, Disjoint, Holders
  <2>2. buf \in Buffers
    BY DEF BufferTypes
  <2> QED  BY <1>4, <2>1, <2>2, NoBufAssumption DEF Prepared, BufsOf
<1>7. \A b \in Buffers \ {buf} : content'[b] = content[b]
  BY DEF SupplyInv
<1>8. \A i \in DOMAIN rx : rx[i] \in Packets /\ content'[rx[i].buf] = content[rx[i].buf]
  BY <1>6, <1>7, RxPackets
<1>9. Phase'
  <2>1. /\ 0 < Len(rx) => 1 \in DOMAIN rx
        /\ Len(rx) = 2 => 2 \in DOMAIN rx
    BY RxPackets
  <2>2. /\ Begun(0) => Begun(0)'
        /\ Begun(1) => Begun(1)'
        /\ StatusNext => StatusNext'
    BY <1>8, <2>1 DEF Begun, StatusNext, Setup
  <2> USE <1>1, <2>2, TransferStays
  <2>3. ASSUME PartTaken  PROVE PartTaken'
    BY <2>3 DEF PartTaken, Taken, Between, Answering, Ready
  <2>4. ASSUME AllTaken  PROVE AllTaken'
    BY <2>4 DEF AllTaken, Taken, Between, Ready
  <2> QED  BY <1>2, <2>3, <2>4 DEF Phase
<1>10. TransferInv'
  BY <1>6, <1>7, TransferStays DEF TransferInv
<1>11. WireInv' /\ CalmInv'
  BY DEF WireInv, CalmInv, DataOnWire, Ready
<1>12. SupplyInv'
  BY DEF SupplyInv, Received, NoData, Return
<1> QED  BY <1>1, <1>5, <1>9, <1>10, <1>11, <1>12 DEF Distinct

LEMMA PartFacts == Part.req = "large" /\ (Part.last <=> xfer.left = 1)
BY DEF Part, Data

LEMMA PartType == Part \in [req : Kinds \cup {"none"}, last : BOOLEAN]
BY DEF Part, Data, Kinds

(* The packet that was queued has been returned, so there is a buffer to   *)
(* write the next part to.                                                 *)
LEMMA SendNextPartLocks ==
  ASSUME LockInv, SendNextPart  PROVE LockInv'
<1> USE DEF LockInv, SendNextPart, hwVars, fifos, inRegs, outRegs, host
<1>1. BufferTypes'
  BY DEF BufferTypes, Transfer, Labels, TakeNext
<1>2. PartTaken
  BY DEF Phase, Idle, Writing, Offered, StatusDue, AllTaken, Between
<1>3. Working = {} /\ Working' = {buf'} /\ buf' \in Buffers
  BY <1>1 DEF Working, BufferTypes
<1>4. Queued' = Queued /\ BufsOf(rx)' = BufsOf(rx) /\ Packet' = Packet
  BY DEF Queued, Packet
<1>5. \A h \in Holders \ {"prepared", "pool", "working"} : Held'[h] = Held[h]
  BY <1>4, HeldValues, HeldValuesNext DEF HeldIs, Holders
<1>6. "prepared" \in Holders /\ "pool" \in Holders /\ "working" \in Holders
      /\ "prepared" # "working" /\ "pool" # "working"
  BY DEF Holders
<1>7. CASE xfer.next # NoBuf
  <2>1. Prepared = {buf'} /\ Prepared' = {} /\ pool' = pool
    BY <1>7 DEF Prepared, TakeNext, TransferInv
  <2>2. /\ buf' \in Held["prepared"] /\ Held'["prepared"] = Held["prepared"] \ {buf'}
        /\ Held'["working"] = Held["working"] \cup {buf'}
        /\ Held'["pool"] = Held["pool"]
    BY <1>3, <2>1, HeldValues, HeldValuesNext DEF HeldIs
  <2>3. \A h \in Holders \ {"prepared", "working"} : Held'[h] = Held[h]
    BY <1>5, <2>2
  <2>4. Partition(Held)'
    BY <1>6, <2>2, <2>3, MovedStaysPartition, Zenon
  <2>5. xfer' = [xfer EXCEPT !.next = NoBuf] /\ buf' = xfer.next /\ content' = content
    BY <1>7 DEF TakeNext
  <2>6. TransferInv' /\ xfer'.next = NoBuf /\ (MoreToSend' <=> xfer.left > 0)
    BY <1>7, <2>5, NoBufAssumption DEF TransferInv, MoreToSend, PartLeft
  <2>7. Answer(buf)'
    BY <1>2, <1>7, <2>5, <2>6 DEF Answer, TransferInv
  <2>8. Phase'
    BY <1>2, <2>5, <2>6, <2>7 DEF Phase, Writing, PartTaken, Answering, Taken, Between, Ready
  <2>9. WireInv' /\ CalmInv' /\ SupplyInv'
    BY <2>5 DEF WireInv, CalmInv, SupplyInv, Received, DataOnWire, Ready
  <2> QED  BY <1>1, <2>4, <2>6, <2>8, <2>9 DEF Distinct
<1>8. CASE xfer.next = NoBuf
  <2>1. buf' \in pool /\ pool' = pool \ {buf'} /\ Prepared' = Prepared
    BY <1>8 DEF Prepared, TransferInv
  <2>2. /\ buf' \in Held["pool"] /\ Held'["pool"] = Held["pool"] \ {buf'}
        /\ Held'["working"] = Held["working"] \cup {buf'}
        /\ Held'["prepared"] = Held["prepared"]
    BY <1>3, <2>1, HeldValues, HeldValuesNext DEF HeldIs
  <2>3. \A h \in Holders \ {"pool", "working"} : Held'[h] = Held[h]
    BY <1>5, <2>2
  <2>4. Partition(Held)'
    BY <1>6, <2>2, <2>3, MovedStaysPartition, Zenon
  <2>5. /\ xfer' = [xfer EXCEPT !.left = @ - 1]
        /\ content' = [content EXCEPT ![buf'] = Part]
        /\ PartLeft
    BY <1>8 DEF MoreToSend
  <2>6. TransferInv' /\ xfer'.next = NoBuf /\ (MoreToSend' <=> xfer.left > 1)
    BY <1>8, <2>5, NoBufAssumption DEF TransferInv, MoreToSend, PartLeft
  <2>7. content'[buf'] = Part
    BY <1>3, <2>5 DEF SupplyInv
  <2>8. Answer(buf)'
    BY <1>2, <2>5, <2>6, <2>7, PartFacts DEF Answer, TransferInv, PartLeft
  <2>9. Phase'
    BY <1>2, <2>6, <2>8 DEF Phase, Writing, PartTaken, Answering, Taken, Between, Ready
  <2>10. SupplyInv'
    BY <2>5, PartType DEF SupplyInv, Received
  <2>11. WireInv' /\ CalmInv'
    BY DEF WireInv, CalmInv, DataOnWire, Ready
  <2> QED  BY <1>1, <2>4, <2>6, <2>9, <2>10, <2>11 DEF Distinct
<1> QED  BY <1>7, <1>8

LEMMA TxDoneLocks ==
  ASSUME LockInv, TxDone  PROVE LockInv'
<1> USE DEF LockInv, TxDone, hwVars, fifos, inRegs, outRegs, host
<1>1. BufferTypes'
  BY DEF BufferTypes, Transfer, Labels, EndXfer
<1>2. ~MoreToSend
  BY DEF SupplyInv
<1>3. xfer' = [xfer EXCEPT !.active = FALSE] /\ xfer.next = NoBuf
  BY <1>2 DEF EndXfer, TransferInv, MoreToSend
<1>4. TransferInv' /\ ~MoreToSend'
  BY <1>3 DEF TransferInv, MoreToSend, PartLeft
<1>5. \A h \in Holders : Held'[h] = Held[h]
  BY <1>3, <1>4, HeldValues, HeldValuesNext
  DEF HeldIs, Holders, Queued, Prepared, Working, Packet, TransferInv
<1>6. Partition(Held)'
  BY <1>5, SameStaysPartition, Zenon
<1>7. AllTaken
  BY <1>2 DEF Phase, Idle, Writing, Offered, StatusDue, PartTaken, Between
<1>8. Phase'
  <2>1. CASE ctrl \in {"addrStatIn", "cfgStatIn", "statIn"}
    BY <1>7, <2>1, HostStays DEF Phase, AllTaken, Idle, Taken, Between, Ready
  <2>2. CASE ctrl = "waitIn"
    BY <1>7, <2>2, HostStays DEF Phase, AllTaken, StatusDue, Taken, Between, Ready
  <2> QED  BY <1>7, <2>1, <2>2 DEF AllTaken
<1>9. CalmInv'
  BY <1>7 DEF CalmInv, AllTaken, Address
<1>10. WireInv' /\ SupplyInv'
  BY DEF WireInv, SupplyInv, Received, DataOnWire, Ready
<1> QED  BY <1>1, <1>4, <1>6, <1>8, <1>9, <1>10 DEF Distinct

LEMMA SendBufferLocks ==
  ASSUME LockInv, SendBuffer  PROVE LockInv'
<1> USE DEF LockInv, SendBuffer, WriteConfigin, fifos, outRegs, host
<1>1. BufferTypes'
  BY EndpointIsZero DEF BufferTypes, Labels, Entries
<1>2. Writing
  BY DEF Phase, Idle, Offered, PartTaken, AllTaken, StatusDue, Taken, Between
<1>3. ~Ready /\ ~Ready' /\ inSent = {} /\ inSent' = {}
  BY <1>2, EndpointIsZero DEF BufferTypes, Entries, Writing, Ready
<1>4. Queued = {} /\ Queued' = {} /\ Working' = Working /\ Packet' = Packet /\ Prepared' = Prepared
  BY <1>3 DEF Queued, Working, Packet, Prepared, Ready
<1>5. \A h \in Holders : Held'[h] = Held[h]
  BY <1>4, HeldValues, HeldValuesNext DEF HeldIs, Holders
<1>6. Partition(Held)'
  BY <1>5, SameStaysPartition, Zenon
<1>7. Phase'
  BY <1>2, <1>3, TransferStays DEF Phase, Writing, Answering, Answer
<1>8. TransferInv' /\ WireInv' /\ CalmInv' /\ SupplyInv'
  BY <1>3, TransferStays
  DEF TransferInv, WireInv, CalmInv, SupplyInv, Received, DataOnWire
<1> QED  BY <1>1, <1>6, <1>7, <1>8 DEF Distinct

(* The buffer is queued, and if there is one for the next part it is       *)
(* prepared.                                                               *)
LEMMA SendReadyLocks ==
  ASSUME LockInv, SendReady  PROVE LockInv'
<1> USE DEF LockInv, SendReady, Readying, WriteConfigin, fifos, outRegs, host
<1>1. Writing /\ buf \in Buffers /\ buf' = NoBuf
  BY DEF Phase, Idle, Offered, PartTaken, AllTaken, StatusDue, Taken, Between, BufferTypes
<1>2. /\ configin' \in [Eps -> Entries]
      /\ configin'[0].buf = buf /\ configin'[0].rdy
  BY <1>1, EndpointIsZero DEF BufferTypes, Entries
<1>3. inSent = {} /\ ~Ready /\ xfer.next = NoBuf
  BY <1>1 DEF Writing
<1>4. Working = {buf} /\ Working' = {} /\ Queued = {} /\ Queued' = {buf}
  BY <1>2, <1>3 DEF Working, Queued, Ready
<1>5. Packet' = Packet /\ BufsOf(rx)' = BufsOf(rx) /\ Prepared = {}
  BY <1>3 DEF Packet, Prepared
<1>6. \A h \in Holders \ {"pool", "prepared", "working", "queued"} : Held'[h] = Held[h]
  BY <1>5, HeldValues, HeldValuesNext DEF HeldIs, Holders
<1>7. /\ "working" \in Holders /\ "queued" \in Holders /\ "pool" \in Holders
      /\ "prepared" \in Holders
  BY DEF Holders
<1> DEFINE H == [Held EXCEPT !["working"] = {}, !["queued"] = {buf}]
<1>8. DOMAIN Held = Holders
  BY DEF Held
<1>9. /\ H["working"] = {} /\ H["queued"] = {buf}
      /\ \A h \in Holders \ {"working", "queued"} : H[h] = Held[h]
  BY <1>7, <1>8
<1> HIDE DEF H
<1>10. Partition(H)
  <2>1. /\ buf \in Held["working"] /\ H["working"] = Held["working"] \ {buf}
        /\ H["queued"] = Held["queued"] \cup {buf}
    BY <1>4, <1>9, HeldValues DEF HeldIs
  <2> QED  BY <1>7, <1>9, <2>1, MovedStaysPartition, Zenon
<1>11. buf \notin pool
  BY <1>4, <1>7, HeldValues DEF HeldIs, Partition, Disjoint
<1>12. CASE pc = "partReady" /\ PartLeft /\ pool # {}
  <2>1. PICK b \in pool :
          /\ pool' = pool \ {b}
          /\ content' = [content EXCEPT ![b] = Part]
          /\ xfer' = [xfer EXCEPT !.left = @ - 1, !.next = b]
    BY <1>12
  <2>2. b \in Buffers /\ b # NoBuf /\ b # buf
    BY <1>11, NoBufAssumption DEF BufferTypes
  <2>3. xfer'.next = b /\ Prepared' = {b}
    BY <2>1, <2>2 DEF TransferInv, Prepared
  <2>4. content'[b] = Part /\ content'[buf] = content[buf]
    BY <1>1, <2>1, <2>2 DEF SupplyInv
  <2>5. TransferInv' /\ MoreToSend' /\ MoreToSend
    <3>1. /\ xfer \in [active : BOOLEAN, left : Nat, next : Buffers \cup {NoBuf}]
          /\ ctrl' = ctrl /\ req' = req
          /\ xfer.active => ctrl = "waitIn"
          /\ MoreToSend => req = "large"
      BY DEF TransferInv
    <3> HIDE DEF LockInv, SendReady
    <3>2. xfer.active /\ xfer.left > 0
      BY <1>12 DEF PartLeft
    <3>3. xfer'.active /\ xfer'.left = xfer.left - 1
      BY <2>1, <3>1, <3>2
    <3>4. xfer' \in [active : BOOLEAN, left : Nat, next : Buffers \cup {NoBuf}]
      <4>1. xfer.left - 1 \in Nat
        BY <3>1, <3>2
      <4>2. xfer' = [active |-> xfer.active, left |-> xfer.left - 1, next |-> b]
        BY <2>1, <3>1
      <4> QED  BY <2>2, <3>1, <4>1, <4>2
    <3>5. MoreToSend' /\ MoreToSend
      BY <1>12, <2>2, <2>3, <3>3 DEF MoreToSend
    <3>6. Part.last <=> xfer'.left = 0
      BY <3>1, <3>2, <3>3, PartFacts
    <3>7. content'[xfer'.next].req = "large" /\ (content'[xfer'.next].last <=> xfer'.left = 0)
      BY <2>3, <2>4, <3>6, PartFacts
    <3>8. req = "large" /\ ctrl = "waitIn"
      BY <3>1, <3>2, <3>5
    <3> QED  BY <3>1, <3>3, <3>4, <3>5, <3>7, <3>8, Zenon DEF TransferInv
  <2>6. Partition(Held)'
    <3>1. /\ b \in H["pool"] /\ Held'["pool"] = H["pool"] \ {b}
          /\ Held'["prepared"] = H["prepared"] \cup {b}
      BY <1>5, <1>7, <1>9, <2>1, <2>3, HeldValues, HeldValuesNext DEF HeldIs
    <3>2. \A h \in Holders \ {"pool", "prepared"} : Held'[h] = H[h]
      BY <1>4, <1>6, <1>9, HeldValuesNext DEF HeldIs
    <3> QED  BY <1>7, <1>10, <3>1, <3>2, MovedStaysPartition, Zenon
  <2>7. BufferTypes'
    BY <1>2, <2>1, <2>2 DEF BufferTypes, Transfer, Labels
  <2>8. Offered'
    BY <1>1, <1>2, <2>4, <2>5 DEF Offered, Writing, Answering, Answer, Between, Ready
  <2>9. SupplyInv'
    BY <2>1, PartType DEF SupplyInv, Received
  <2>10. WireInv' /\ CalmInv'
    BY <1>2, <1>3 DEF WireInv, CalmInv, DataOnWire, Ready
  <2> QED  BY <2>5, <2>6, <2>7, <2>8, <2>9, <2>10 DEF Distinct, Phase
<1>13. CASE ~(pc = "partReady" /\ PartLeft /\ pool # {})
  <2>1. UNCHANGED <<pool, content, xfer>>
    BY <1>13
  <2>2. Partition(Held)'
    <3>1. Prepared' = Prepared
      BY <2>1 DEF Prepared
    <3> HIDE DEF LockInv, SendReady
    <3>2. \A h \in Holders : Held'[h] = H[h]
      BY <1>4, <1>6, <1>9, <2>1, <3>1, HeldValues, HeldValuesNext DEF HeldIs
    <3> QED  BY <1>10, <3>2, SameStaysPartition, Zenon
  <2>3. BufferTypes'
    BY <1>2, <2>1 DEF BufferTypes, Transfer, Labels
  <2>4. Offered'
    BY <1>1, <1>2, <2>1, TransferStays DEF Offered, Writing, Answering, Answer, Between, Ready
  <2>5. SupplyInv' /\ TransferInv'
    BY <2>1, TransferStays DEF SupplyInv, Received, TransferInv
  <2>6. WireInv' /\ CalmInv'
    BY <1>2, <1>3 DEF WireInv, CalmInv, DataOnWire, Ready
  <2> QED  BY <2>2, <2>3, <2>4, <2>5, <2>6 DEF Distinct, Phase
<1> QED  BY <1>12, <1>13

LEMMA AvailableFinite ==
  ASSUME BufferTypes
  PROVE  /\ IsFiniteSet(avSetup) /\ Cardinality(avSetup) \in Nat
         /\ IsFiniteSet(avOut) /\ Cardinality(avOut) \in Nat
<1>1. IsFiniteSet(avSetup) /\ IsFiniteSet(avOut)
  BY BuffersAssumption, FS_Subset DEF BufferTypes
<1> QED  BY <1>1, FS_CardinalityType

LEMMA AddOne ==
  ASSUME NEW S, NEW x, IsFiniteSet(S)
  PROVE  /\ IsFiniteSet(S \cup {x}) /\ Cardinality(S \cup {x}) \in Nat
         /\ Cardinality(S) \in Nat /\ Cardinality(S \cup {x}) <= Cardinality(S) + 1
<1>1. IsFiniteSet(S \cup {x})
  BY FS_AddElement
<1>2. Cardinality(S \cup {x}) \in Nat
  BY <1>1, FS_CardinalityType
<1>3. Cardinality(S) \in Nat
  BY FS_CardinalityType
<1>4. Cardinality(S \cup {x}) = IF x \in S THEN Cardinality(S) ELSE Cardinality(S) + 1
  BY FS_AddElement
<1> QED  BY <1>1, <1>2, <1>3, <1>4

(* At most two buffers are queued, prepared or received when the FIFOs     *)
(* have been filled, so if the pool is empty the Available OUT Buffer FIFO *)
(* cannot have all of the others.                                          *)
LEMMA SetupSupply ==
  ASSUME LockInv, pc = "fill", pool = {}  PROVE avSetup # {}
<1> USE DEF LockInv
<1>1. PICK x, y : Queued \cup Prepared \cup BufsOf(rx) \subseteq {x, y}
  <2>1. CASE Len(rx) = 0
    <3>1. Queued \cup Prepared \cup BufsOf(rx) \subseteq {configin[0].buf, xfer.next}
      BY <2>1, RxPackets DEF Queued, Prepared, BufsOf
    <3> QED  BY <3>1
  <2>2. CASE Queued = {} /\ Prepared = {} /\ Len(rx) <= 2
    <3>1. \A i \in DOMAIN rx : i = 1 \/ i = 2
      BY <2>2, RxPackets
    <3>2. Queued \cup Prepared \cup BufsOf(rx) \subseteq {rx[1].buf, rx[2].buf}
      BY <2>2, <3>1 DEF BufsOf
    <3> QED  BY <3>2
  <2>3. Offered \/ PartTaken \/ AllTaken => Len(rx) = 0
    BY DEF Offered, PartTaken, AllTaken, Answering
  <2>4. Idle \/ StatusDue => Queued = {} /\ Prepared = {} /\ Len(rx) <= 2
    <3> SUFFICES ASSUME Idle \/ StatusDue
                 PROVE  Queued = {} /\ Prepared = {} /\ Len(rx) <= 2
      OBVIOUS
    <3>1. inSent = {} /\ ~Ready /\ ctrl # "waitIn" /\ Len(rx) <= 2
      BY RxPackets DEF Idle, StatusDue, Begun, StatusNext
    <3> QED  BY <3>1 DEF Queued, Prepared, TransferInv, Ready
  <2>5. ~Writing
    BY DEF Writing
  <2> QED  BY <2>1, <2>2, <2>3, <2>4, <2>5 DEF Phase
<1> SUFFICES ASSUME avSetup = {}  PROVE FALSE
  OBVIOUS
<1>2. Buffers \subseteq avOut \cup {x} \cup {y}
  <2>1. Working = {} /\ Packet = {}
    BY DEF Working, Packet
  <2> SUFFICES ASSUME NEW b \in Buffers  PROVE b \in avOut \cup {x} \cup {y}
    OBVIOUS
  <2>2. PICK h \in Holders : b \in Held[h]
    BY DEF Partition
  <2> QED  BY <1>1, <2>1, <2>2, HeldValues DEF HeldIs, Holders
<1> DEFINE A == avOut \cup {x}
<1>3. /\ IsFiniteSet(A) /\ Cardinality(A) <= Cardinality(avOut) + 1
      /\ IsFiniteSet(A \cup {y}) /\ Cardinality(A \cup {y}) <= Cardinality(A) + 1
      /\ Cardinality(A) \in Nat /\ Cardinality(A \cup {y}) \in Nat
  <2>1. IsFiniteSet(A) /\ Cardinality(A) \in Nat /\ Cardinality(A) <= Cardinality(avOut) + 1
    BY AvailableFinite, AddOne
  <2> HIDE DEF A
  <2>2. /\ IsFiniteSet(A \cup {y}) /\ Cardinality(A \cup {y}) \in Nat
        /\ Cardinality(A \cup {y}) <= Cardinality(A) + 1
    BY <2>1, AddOne
  <2> QED  BY <2>1, <2>2
<1>4. Cardinality(Buffers) <= Cardinality(A \cup {y}) /\ Cardinality(Buffers) \in Nat
  BY <1>2, <1>3, BuffersAssumption, FS_Subset, FS_CardinalityType
<1> HIDE DEF A
<1> QED  BY <1>3, <1>4, AvailableFinite, BufferCountAssumption, DepthAssumption DEF SupplyInv

LEMMA FillLocks ==
  ASSUME LockInv, Fill  PROVE LockInv'
<1> USE DEF LockInv, host
<1>1. /\ pc = "fill"
      /\ UNCHANGED <<rx, inRegs, outRegs, xact, content, addr, resetIntr, istate, buf, pkt,
                     ctrl, xfer, host, ended>>
      /\ pc' \in {"fill", "receive"}
  BY DEF Fill, hwVars, fifos, WriteAvSetup, WriteAvOut
<1>2. Phase'
  <2> USE <1>1, HostStays, TransferStays DEF inRegs
  <2>1. ASSUME Idle  PROVE Idle'
    BY <2>1 DEF Idle, Between, Ready
  <2>2. ~Writing
    BY DEF Writing
  <2>3. ASSUME Offered  PROVE Offered'
    BY <2>3 DEF Offered, Between, Ready, Answering, Answer
  <2>4. ASSUME PartTaken  PROVE PartTaken'
    BY <2>4 DEF PartTaken, Taken, Between, Ready, Answering
  <2>5. ASSUME AllTaken  PROVE AllTaken'
    BY <2>5 DEF AllTaken, Taken, Between, Ready
  <2>6. ASSUME StatusDue  PROVE StatusDue'
    BY <2>6 DEF StatusDue, Between, Ready
  <2> QED  BY <2>1, <2>2, <2>3, <2>4, <2>5, <2>6 DEF Phase
<1>3. TransferInv' /\ WireInv' /\ CalmInv' /\ Distinct(rx)'
  BY <1>1, TransferStays
  DEF TransferInv, WireInv, CalmInv, DataOnWire, Ready, inRegs, outRegs, Distinct
<1>4. Queued' = Queued /\ Prepared' = Prepared /\ Working' = Working /\ Packet' = Packet
      /\ BufsOf(rx)' = BufsOf(rx)
  BY <1>1 DEF Queued, Prepared, Working, Packet, inRegs
<1>5. CASE pc' = "receive"
  <2>1. UNCHANGED <<avSetup, avOut, pool>>
    BY <1>5 DEF Fill, hwVars, fifos
  <2>2. BufferTypes'
    BY <1>1, <2>1 DEF BufferTypes, Labels, inRegs
  <2>3. \A h \in Holders : Held'[h] = Held[h]
    BY <1>4, <2>1, HeldValues, HeldValuesNext DEF HeldIs, Holders
  <2>4. Partition(Held)'
    BY <2>3, SameStaysPartition, Zenon
  <2>5. avSetup # {}
    <3>1. pool = {} \/ ~SetupLow
      BY <1>5 DEF Fill
    <3>2. ~SetupLow => avSetup # {}
      BY FS_EmptySet DEF SetupLow
    <3> QED  BY <1>1, <3>1, <3>2, SetupSupply
  <2>6. SupplyInv'
    BY <1>1, <2>1, <2>5 DEF SupplyInv, Received
  <2> QED  BY <1>2, <1>3, <2>2, <2>4, <2>6
<1>6. CASE pc' = "fill"
  <2>1. PICK b \in pool :
          /\ pool' = pool \ {b}
          /\ IF SetupLow THEN WriteAvSetup(b) ELSE WriteAvOut(b)
    BY <1>1, <1>6 DEF Fill
  <2>2. b \in Buffers
    BY DEF BufferTypes
  <2>3. \A h \in Holders \ {"pool", "avSetup", "avOut"} : Held'[h] = Held[h]
    BY <1>4, HeldValues, HeldValuesNext DEF HeldIs, Holders
  <2>4. "pool" \in Holders /\ "avSetup" \in Holders /\ "avOut" \in Holders
    BY DEF Holders
  <2>5. CASE SetupLow
    <3>1. avSetup' = avSetup \cup {b} /\ avOut' = avOut
      BY <2>1, <2>5, AvailableFinite, DepthAssumption DEF WriteAvSetup, SetupLow
    <3>2. /\ b \in Held["pool"] /\ Held'["pool"] = Held["pool"] \ {b}
          /\ Held'["avSetup"] = Held["avSetup"] \cup {b} /\ Held'["avOut"] = Held["avOut"]
      BY <2>1, <3>1, HeldValues, HeldValuesNext DEF HeldIs
    <3>3. \A h \in Holders \ {"pool", "avSetup"} : Held'[h] = Held[h]
      BY <2>3, <3>2
    <3>4. Partition(Held)'
      BY <2>4, <3>2, <3>3, MovedStaysPartition, Zenon
    <3>5. BufferTypes'
      BY <1>1, <1>6, <2>1, <2>2, <3>1 DEF BufferTypes, Labels, inRegs
    <3>6. SupplyInv'
      BY <1>1, <1>6, <3>1 DEF SupplyInv, Received
    <3> QED  BY <1>2, <1>3, <3>4, <3>5, <3>6
  <2>6. CASE ~SetupLow
    <3>1. Cardinality(avOut) < AvOutDepth
      BY <1>6, <2>1, <2>6, AvailableFinite, DepthAssumption DEF Fill
    <3>2. avOut' = avOut \cup {b} /\ avSetup' = avSetup
      BY <2>1, <2>6, <3>1 DEF WriteAvOut
    <3>3. /\ b \in Held["pool"] /\ Held'["pool"] = Held["pool"] \ {b}
          /\ Held'["avOut"] = Held["avOut"] \cup {b} /\ Held'["avSetup"] = Held["avSetup"]
      BY <2>1, <3>2, HeldValues, HeldValuesNext DEF HeldIs
    <3>4. \A h \in Holders \ {"pool", "avOut"} : Held'[h] = Held[h]
      BY <2>3, <3>3
    <3>5. Partition(Held)'
      BY <2>4, <3>3, <3>4, MovedStaysPartition, Zenon
    <3>6. BufferTypes'
      BY <1>1, <1>6, <2>1, <2>2, <3>2 DEF BufferTypes, Labels, inRegs
    <3>7. Cardinality(avOut') <= AvOutDepth
      <4>1. /\ Cardinality(avOut') <= Cardinality(avOut) + 1
            /\ Cardinality(avOut') \in Nat /\ Cardinality(avOut) \in Nat
        BY <3>2, AvailableFinite, AddOne
      <4> QED  BY <3>1, <4>1, DepthAssumption
    <3>8. SupplyInv'
      BY <1>1, <1>6, <3>7 DEF SupplyInv, Received
    <3> QED  BY <1>2, <1>3, <3>5, <3>6, <3>8
  <2> QED  BY <2>5, <2>6
<1> QED  BY <1>1, <1>5, <1>6

LEMMA HeadGoes ==
  ASSUME BufferTypes, Distinct(rx), rx # <<>>, rx' = Tail(rx)
  PROVE  /\ Head(rx) = rx[1] /\ 1 \in DOMAIN rx
         /\ Len(rx') = Len(rx) - 1
         /\ Len(rx) = 2 => rx'[1] = rx[2]
         /\ rx' \in Seq(Packets) /\ Distinct(rx')
         /\ BufsOf(rx') = BufsOf(rx) \ {rx[1].buf}
<1>1. rx \in Seq(Packets)
  BY DEF BufferTypes
<1>2. /\ Head(rx) = rx[1] /\ Len(rx) > 0 /\ Len(rx') = Len(rx) - 1
      /\ DOMAIN rx' = 1..(Len(rx) - 1)
      /\ \A i \in DOMAIN rx' : rx'[i] = rx[i + 1]
  BY <1>1, HeadTailProperties, LenProperties, EmptySeq
<1>3. /\ rx' \in Seq(Packets) /\ Distinct(rx')
      /\ BufsOf(rx') \subseteq BufsOf(rx) \ {rx[1].buf}
  BY <1>1, <1>2, TailBufs
<1>4. BufsOf(rx) \ {rx[1].buf} \subseteq BufsOf(rx')
  <2> SUFFICES ASSUME NEW i \in DOMAIN rx, rx[i].buf # rx[1].buf
               PROVE  rx[i].buf \in BufsOf(rx')
    BY DEF BufsOf
  <2>1. i - 1 \in DOMAIN rx' /\ i - 1 + 1 = i
    BY <1>2, RxPackets
  <2>2. rx'[i - 1] = rx[i]
    BY <1>2, <2>1
  <2> QED  BY <2>1, <2>2 DEF BufsOf
<1> QED  BY <1>2, <1>3, <1>4, RxPackets

LEMMA ReceiveLocks ==
  ASSUME LockInv, Receive  PROVE LockInv'
<1> USE DEF LockInv, host
<1>1. /\ pc = "receive" /\ rx # <<>> /\ rx' = Tail(rx) /\ pkt' = Head(rx).buf
      /\ pc' = IF Head(rx).setup THEN "setup" ELSE "out"
      /\ UNCHANGED <<avSetup, avOut, inRegs, outRegs, xact, pool, content, addr, resetIntr,
                     istate, buf, ctrl, xfer, host, ended>>
  BY DEF Receive, PopRx
<1>2. /\ Head(rx) = rx[1] /\ rx[1] \in Packets /\ rx[1].buf \in Buffers
      /\ Len(rx') = Len(rx) - 1 /\ Len(rx) \in Nat /\ Len(rx) > 0
      /\ Len(rx) = 2 => rx'[1] = rx[2]
      /\ rx' \in Seq(Packets) /\ Distinct(rx')
      /\ BufsOf(rx') = BufsOf(rx) \ {rx[1].buf} /\ rx[1].buf \in BufsOf(rx)
  <2>1. /\ Head(rx) = rx[1] /\ 1 \in DOMAIN rx /\ Len(rx') = Len(rx) - 1
        /\ Len(rx) = 2 => rx'[1] = rx[2]
        /\ rx' \in Seq(Packets) /\ Distinct(rx')
        /\ BufsOf(rx') = BufsOf(rx) \ {rx[1].buf}
    BY <1>1, HeadGoes
  <2>2. rx[1].buf \in BufsOf(rx)
    BY <2>1 DEF BufsOf
  <2>3. rx[1] \in Packets /\ rx[1].buf \in Buffers /\ Len(rx) \in Nat /\ Len(rx) > 0
    BY <2>1, RxPackets
  <2> QED  BY <2>1, <2>2, <2>3
<1>3. BufferTypes'
  BY <1>1, <1>2 DEF BufferTypes, Labels, inRegs
<1>4. Partition(Held)'
  <2>1. pkt' = rx[1].buf /\ pkt' # NoBuf
    BY <1>1, <1>2, NoBufAssumption
  <2>2. /\ Queued' = Queued /\ Prepared' = Prepared /\ Working' = Working
        /\ Packet = {} /\ Packet' = {pkt'}
    BY <1>1, <2>1 DEF Queued, Prepared, Working, Packet, inRegs
  <2>3. /\ pkt' \in Held["rx"] /\ Held'["rx"] = Held["rx"] \ {pkt'}
        /\ Held'["packet"] = Held["packet"] \cup {pkt'}
    BY <1>2, <2>1, <2>2, HeldValues, HeldValuesNext DEF HeldIs
  <2>4. \A h \in Holders \ {"rx", "packet"} : Held'[h] = Held[h]
    BY <1>1, <2>2, HeldValues, HeldValuesNext DEF HeldIs, Holders
  <2>5. "rx" \in Holders /\ "packet" \in Holders /\ "rx" # "packet"
    BY DEF Holders
  <2> QED  BY <2>3, <2>4, <2>5, MovedStaysPartition, Zenon
<1>5. Phase'
  <2>1. Idle \/ StatusDue
    BY <1>1, <1>2 DEF Phase, Writing, Offered, PartTaken, AllTaken, Answering
  <2>2. CASE Idle
    <3>1. Len(rx) = 1 /\ Setup(rx[1]) /\ stage = FirstStage(req)
      BY <1>1, <1>2, <2>2 DEF Idle, Begun
    <3> QED  BY <1>1, <1>2, <2>2, <3>1 DEF Phase, Idle, Setup, Ready, inRegs
  <2>3. CASE StatusDue
    <3>1. ~rx[1].setup /\ Begun(1)
      BY <1>1, <1>2, <2>3 DEF StatusDue, StatusNext
    <3>2. Begun(0)'
      BY <1>1, <1>2, <3>1 DEF Begun, Setup
    <3> QED  BY <1>1, <1>2, <2>3, <3>1, <3>2 DEF Phase, StatusDue, Ready, inRegs
  <2> QED  BY <2>1, <2>2, <2>3
<1>6. TransferInv' /\ WireInv' /\ CalmInv'
  BY <1>1, TransferStays DEF TransferInv, WireInv, CalmInv, DataOnWire, Ready, inRegs, outRegs
<1>7. SupplyInv'
  BY <1>1 DEF SupplyInv, Received
<1> QED  BY <1>2, <1>3, <1>4, <1>5, <1>6, <1>7

LEMMA StatusTakenLocks ==
  ASSUME LockInv, StatusTaken  PROVE LockInv'
<1> USE DEF LockInv, StatusTaken, WriteRxenOut, fifos, inRegs, host
<1>1. BufferTypes'
  BY DEF BufferTypes, Labels, Return
<1>2. Packet = {pkt} /\ Packet' = {} /\ pkt \in Buffers
  BY NoBufAssumption DEF BufferTypes, Packet
<1>3. Partition(Held)'
  <2>1. /\ pkt \in Held["packet"] /\ Held'["packet"] = Held["packet"] \ {pkt}
        /\ Held'["pool"] = Held["pool"] \cup {pkt}
    BY <1>2, HeldValues, HeldValuesNext DEF HeldIs, Return
  <2>2. \A h \in Holders \ {"packet", "pool"} : Held'[h] = Held[h]
    BY HeldValues, HeldValuesNext DEF HeldIs, Holders, Queued, Prepared, Working
  <2>3. "packet" \in Holders /\ "pool" \in Holders /\ "packet" # "pool"
    BY DEF Holders
  <2> QED  BY <2>1, <2>2, <2>3, MovedStaysPartition, Zenon
<1>4. Phase'
  <2>1. StatusDue
    BY DEF Phase, Idle, Writing, Offered, PartTaken, AllTaken, Answering, Taken, Between
  <2> QED  BY <2>1, HostStays DEF Phase, StatusDue, Idle, Between, Ready
<1>5. TransferInv' /\ WireInv' /\ CalmInv'
  <2>1. ~xfer.active
    BY DEF TransferInv
  <2> QED  BY <2>1, TransferStays DEF TransferInv, WireInv, CalmInv, DataOnWire, Ready
<1>6. SupplyInv'
  BY DEF SupplyInv, Received
<1> QED  BY <1>1, <1>3, <1>4, <1>5, <1>6 DEF Distinct

LEMMA AcknowledgeLocks ==
  ASSUME LockInv, Acknowledge  PROVE LockInv'
<1> USE DEF LockInv, Acknowledge, hwVars, fifos, inRegs, outRegs, host
<1>1. BufferTypes'
  BY DEF BufferTypes, Labels
<1>2. \A h \in Holders : Held'[h] = Held[h]
  BY HeldValues, HeldValuesNext DEF HeldIs, Holders, Queued, Prepared, Working, Packet
<1>3. Partition(Held)'
  BY <1>2, SameStaysPartition, Zenon
<1>4. ctrl' = ctrl
  BY DEF CalmInv
<1>5. Phase'
  <2> USE <1>4, HostStays, TransferStays
  <2>1. ASSUME Idle  PROVE Idle'
    BY <2>1 DEF Idle, Between, Ready
  <2>2. ~Writing
    BY DEF Writing
  <2>3. ASSUME Offered  PROVE Offered'
    BY <2>3 DEF Offered, Between, Ready, Answering, Answer
  <2>4. ASSUME PartTaken  PROVE PartTaken'
    BY <2>4 DEF PartTaken, Taken, Between, Ready, Answering
  <2>5. ASSUME AllTaken  PROVE AllTaken'
    BY <2>5 DEF AllTaken, Taken, Between, Ready
  <2>6. ASSUME StatusDue  PROVE StatusDue'
    BY <2>6 DEF StatusDue, Between, Ready
  <2> QED  BY <2>1, <2>2, <2>3, <2>4, <2>5, <2>6 DEF Phase
<1>6. TransferInv' /\ WireInv' /\ CalmInv'
  BY <1>4, TransferStays DEF TransferInv, WireInv, CalmInv, DataOnWire, Ready
<1>7. SupplyInv'
  BY DEF SupplyInv, Received
<1> QED  BY <1>1, <1>3, <1>5, <1>6, <1>7 DEF Distinct

(* Nothing is ever unexpected. *)
LEMMA NothingUnexpected ==
  ASSUME LockInv  PROVE ~Unexpected /\ ~StallIn /\ ~StallOut
BY DEF LockInv, Phase, Idle, Writing, Offered, PartTaken, AllTaken, StatusDue, Taken, Between,
       Unexpected, StallIn, StallOut

LEMMA FirstFacts ==
  ASSUME NEW r \in Known
  PROVE  /\ First(r) \in [req : Kinds \cup {"none"}, last : BOOLEAN]
         /\ First(r).req = r /\ (First(r).last <=> r # "large")
BY DEF First, Data, Known, Kinds

(* The SETUP packet is read, and the answer to it begins. *)
LEMMA SetupTakenLocks ==
  ASSUME LockInv, SetupTaken  PROVE LockInv'
<1> USE DEF LockInv, host
<1>1. /\ pc = "setup" /\ ctrl = "idle"
      /\ UNCHANGED <<fifos, inRegs, inStall, outStall, setNak, xact, addr, resetIntr, istate,
                     host, ended>>
  BY DEF SetupTaken, WriteRxenOut
<1>2. Idle
  BY <1>1 DEF Phase, Writing, Offered, PartTaken, AllTaken, StatusDue, Taken, Between
<1>3. /\ inSent = {} /\ ~Ready /\ Len(rx) = 0 /\ stage = FirstStage(req)
      /\ content[pkt].req = req
  BY <1>1, <1>2 DEF Idle, Between
<1>4. ~xfer.active /\ xfer.next = NoBuf
  BY <1>1 DEF TransferInv
<1>5. pkt \in Buffers /\ req \in Known
  BY <1>1 DEF BufferTypes, CalmInv
<1>6. PICK b \in pool \cup {pkt} :
        /\ pool' = (pool \cup {pkt}) \ {b}
        /\ buf' = b
        /\ content' = [content EXCEPT ![pkt] = NoData, ![b] = First(req)]
        /\ xfer' = IF req = "large"
                   THEN [active |-> TRUE, left |-> LargeParts - 1, next |-> NoBuf]
                   ELSE xfer
        /\ ctrl' = AfterSetup(req) /\ pc' \in {"send", "sendPart"} /\ pkt' = pkt
  <2>1. req # "unknown" /\ ~(req = "large" /\ xfer.active)
    BY <1>4, <1>5 DEF Known
  <2> QED  BY <1>3, <2>1 DEF SetupTaken, Return
<1>7. b \in Buffers
  BY <1>5, <1>6 DEF BufferTypes
<1>8. content'[b] = First(req)
  BY <1>6, <1>7 DEF SupplyInv
<1>9. TransferInv' /\ xfer'.next = NoBuf /\ (MoreToSend' <=> req = "large")
  <2>1. CASE req = "large"
    <3>1. LargeParts - 1 \in Nat /\ LargeParts - 1 > 0
      BY LargePartsAssumption
    <3>2. xfer' = [active |-> TRUE, left |-> LargeParts - 1, next |-> NoBuf]
      BY <1>6, <2>1
    <3>3. /\ xfer' \in [active : BOOLEAN, left : Nat, next : Buffers \cup {NoBuf}]
          /\ xfer'.active /\ xfer'.next = NoBuf /\ xfer'.left > 0
      BY <3>1, <3>2
    <3>4. ctrl' = "waitIn" /\ req' = req
      BY <1>1, <1>6, <2>1 DEF AfterSetup
    <3> HIDE DEF LockInv
    <3> QED  BY <2>1, <3>3, <3>4 DEF TransferInv, MoreToSend, PartLeft
  <2>2. CASE req # "large"
    <3>1. xfer' = xfer
      BY <1>6, <2>2
    <3> QED  BY <1>4, <2>2, <3>1 DEF TransferInv, MoreToSend, PartLeft
  <2> QED  BY <2>1, <2>2
<1>10. Phase'
  <2>1. Answer(buf)'
    BY <1>1, <1>5, <1>6, <1>8, <1>9, FirstFacts DEF Answer
  <2> QED  BY <1>1, <1>3, <1>6, <1>9, <2>1 DEF Phase, Writing, Answering, Ready, fifos, inRegs
<1>11. BufferTypes'
  <2>1. Transfer(xfer)'
    BY <1>9 DEF TransferInv, Transfer
  <2> QED  BY <1>1, <1>5, <1>6, <1>7, <2>1 DEF BufferTypes, Labels, fifos, inRegs
<1>12. Partition(Held)'
  <2>1. /\ Queued' = Queued /\ Prepared = {} /\ Prepared' = {}
        /\ Working = {} /\ Working' = {b} /\ Packet = {pkt} /\ Packet' = {}
        /\ BufsOf(rx)' = BufsOf(rx)
    BY <1>1, <1>4, <1>5, <1>6, <1>9, NoBufAssumption
    DEF Queued, Prepared, Working, Packet, fifos, inRegs
  <2>2. "packet" \in Holders /\ "pool" \in Holders /\ "working" \in Holders
    BY DEF Holders
  <2> DEFINE H == [Held EXCEPT !["packet"] = {}, !["pool"] = pool \cup {pkt}]
  <2>3. /\ H["packet"] = {} /\ H["pool"] = pool \cup {pkt}
        /\ \A h \in Holders \ {"packet", "pool"} : H[h] = Held[h]
    BY <2>2 DEF Held
  <2> HIDE DEF H
  <2>4. Partition(H)
    <3>1. /\ pkt \in Held["packet"] /\ H["packet"] = Held["packet"] \ {pkt}
          /\ H["pool"] = Held["pool"] \cup {pkt}
      BY <2>1, <2>3, HeldValues DEF HeldIs
    <3> QED  BY <2>2, <2>3, <3>1, MovedStaysPartition, Zenon
  <2>5. /\ b \in H["pool"] /\ Held'["pool"] = H["pool"] \ {b}
        /\ Held'["working"] = H["working"] \cup {b}
    BY <1>6, <2>1, <2>2, <2>3, HeldValues, HeldValuesNext DEF HeldIs
  <2>6. \A h \in Holders \ {"pool", "working"} : Held'[h] = H[h]
    BY <1>1, <2>1, <2>3, HeldValues, HeldValuesNext DEF HeldIs, Holders, fifos
  <2> QED  BY <2>2, <2>4, <2>5, <2>6, MovedStaysPartition, Zenon
<1>13. WireInv' /\ CalmInv' /\ Distinct(rx)'
  BY <1>1, <1>3 DEF WireInv, CalmInv, DataOnWire, Ready, Distinct, fifos, inRegs
<1>14. SupplyInv'
  <2>1. content' \in [Buffers -> [req : Kinds \cup {"none"}, last : BOOLEAN]]
    <3>1. NoData \in [req : Kinds \cup {"none"}, last : BOOLEAN]
      BY DEF NoData
    <3> QED  BY <1>5, <1>6, <3>1, FirstFacts DEF SupplyInv
  <2> QED  BY <1>1, <1>6, <2>1 DEF SupplyInv, Received, fifos
<1> QED  BY <1>9, <1>10, <1>11, <1>12, <1>13, <1>14

LEMMA HBeginLocks ==
  ASSUME LockInv, Regular, NEW r \in Requests, HBegin(r)  PROVE LockInv'
<1> USE DEF LockInv, HBegin, hwVars, fifos, inRegs, outRegs, sw
<1>1. BufferTypes'
  BY DEF BufferTypes
<1>2. \A h \in Holders : Held'[h] = Held[h]
  BY HeldValues, HeldValuesNext DEF HeldIs, Holders, Queued, Prepared, Working, Packet
<1>3. Partition(Held)'
  BY <1>2, SameStaysPartition, Zenon
<1>4. ~Answering
  BY DEF Answering, FirstStage
<1>5. Begun(0) => Begun(0)'
  BY DEF Begun, FirstStage
<1>6. StatusNext => StatusNext'
  BY DEF StatusNext, Begun, FirstStage
<1>7. Idle \/ AllTaken \/ StatusDue
  BY <1>4 DEF Phase, Writing, Offered, PartTaken
<1>8. ~MoreToSend /\ ~MoreToSend'
  BY <1>7, TransferStays DEF Idle, AllTaken, StatusDue, TransferInv, MoreToSend, PartLeft
<1>9. Phase'
  <2>1. ASSUME Idle  PROVE Idle'
    BY <1>5, <2>1 DEF Idle, Ready, FirstStage
  <2>2. ASSUME AllTaken  PROVE AllTaken'
    BY <1>5, <1>6, <1>8, <2>2 DEF AllTaken, Taken, Ready
  <2>3. ASSUME StatusDue  PROVE StatusDue'
    BY <1>5, <1>6, <2>3 DEF StatusDue, Ready
  <2> QED  BY <1>7, <2>1, <2>2, <2>3 DEF Phase
<1>10. TransferInv' /\ SupplyInv'
  BY <1>8 DEF TransferInv, SupplyInv, Received
<1>11. WireInv' /\ CalmInv'
  BY NoXactIsQuiet DEF WireInv, CalmInv, DataOnWire, Regular
<1> QED  BY <1>1, <1>3, <1>9, <1>10, <1>11 DEF Distinct

(* Only the transaction and the "sending" bits change. *)
LEMMA WireLocks ==
  ASSUME LockInv,
         UNCHANGED <<sw, fifos, inSent, outRegs, content, addr, resetIntr, host, ended>>,
         configin' \in [Eps -> Entries], xact' \in Xacts,
         configin'[0].buf = configin[0].buf, configin'[0].rdy = configin[0].rdy,
         WireInv'
  PROVE  LockInv'
<1> USE DEF LockInv, fifos, outRegs, sw, host
<1>1. BufferTypes'
  BY DEF BufferTypes
<1>2. \A h \in Holders : Held'[h] = Held[h]
  BY HeldValues, HeldValuesNext DEF HeldIs, Holders, Queued, Prepared, Working, Packet
<1>3. Partition(Held)'
  BY <1>2, SameStaysPartition, Zenon
<1>4. Phase'
  <2> USE HostStays, TransferStays
  <2>1. ASSUME Idle  PROVE Idle'
    BY <2>1 DEF Idle, Ready
  <2>2. ASSUME Writing  PROVE Writing'
    BY <2>2 DEF Writing, Ready, Answering, Answer
  <2>3. ASSUME Offered  PROVE Offered'
    BY <2>3 DEF Offered, Ready, Answering, Answer
  <2>4. ASSUME PartTaken  PROVE PartTaken'
    BY <2>4 DEF PartTaken, Taken, Ready, Answering
  <2>5. ASSUME AllTaken  PROVE AllTaken'
    BY <2>5 DEF AllTaken, Taken, Ready
  <2>6. ASSUME StatusDue  PROVE StatusDue'
    BY <2>6 DEF StatusDue, Ready
  <2> QED  BY <2>1, <2>2, <2>3, <2>4, <2>5, <2>6 DEF Phase
<1>5. TransferInv' /\ CalmInv' /\ SupplyInv'
  BY TransferStays DEF TransferInv, CalmInv, SupplyInv, Received
<1> QED  BY <1>1, <1>3, <1>4, <1>5 DEF Distinct

LEMMA HTokenLocks ==
  ASSUME LockInv, HToken  PROVE LockInv'
<1>1. UNCHANGED <<sw, fifos, inSent, outRegs, content, addr, resetIntr, host, ended>>
  BY DEF HToken, OutToken, InToken, inRegs
<1>2. BufferTypes /\ xact = NoXact /\ stage' = stage
  BY DEF LockInv, HToken, OutToken, InToken, host
<1>3. CASE (stage = "setup" /\ OutToken("setup", 0)) \/ (stage = "statusOut" /\ OutToken("out", 0))
  <2>1. PICK kind \in {"setup", "out"} :
          /\ OutToken(kind, 0)
          /\ (kind = "setup" /\ stage = "setup") \/ (kind = "out" /\ stage = "statusOut")
    BY <1>3
  <2>2. configin' = configin /\ xact' = [kind |-> kind, ep |-> 0, nak |-> FALSE]
    BY <2>1 DEF OutToken, inRegs
  <2>3. xact' \in [kind : {"setup", "out"}, ep : Eps, nak : BOOLEAN] /\ xact'.kind = kind
    BY <2>2, EndpointIsZero
  <2>4. xact' \in Xacts
    BY <2>3 DEF Xacts
  <2>5. WireInv'
    BY <1>2, <2>1, <2>3 DEF WireInv, DataOnWire
  <2> QED  BY <1>1, <1>2, <2>2, <2>4, <2>5, WireLocks DEF BufferTypes
<1>4. CASE InToken(0) /\ stage \in {"dataIn", "statusIn"}
  <2>1. configin[0] \in Entries
    BY <1>2, EndpointIsZero DEF BufferTypes
  <2>2. /\ configin' \in [Eps -> Entries]
        /\ configin'[0].buf = configin[0].buf /\ configin'[0].rdy = configin[0].rdy
    BY <1>2, <1>4, <2>1, EndpointIsZero DEF InToken, Entries, BufferTypes
  <2>3. xact' = [kind |-> "in", ep |-> 0, buf |-> configin[0].buf, hasData |-> configin[0].rdy]
    BY <1>4 DEF InToken
  <2>4. xact' \in Xacts
    BY <2>1, <2>3, EndpointIsZero DEF Entries, Xacts
  <2>5. WireInv'
    BY <1>2, <1>4, <2>2, <2>3 DEF WireInv, DataOnWire, Ready
  <2> QED  BY <1>1, <2>2, <2>4, <2>5, WireLocks
<1> QED  BY <1>3, <1>4 DEF HToken

LEMMA HRefusedLocks ==
  ASSUME LockInv, HRefused  PROVE LockInv'
<1>1. /\ UNCHANGED <<sw, fifos, inSent, outRegs, content, addr, resetIntr, host, ended, configin>>
      /\ xact' = NoXact
  BY DEF HRefused, OutNotTaken, inRegs, host, LockInv, CalmInv
<1>2. xact' \in Xacts /\ WireInv'
  BY <1>1, NoXactIsQuiet DEF WireInv, DataOnWire
<1> QED  BY <1>1, <1>2, WireLocks DEF LockInv, BufferTypes

LEMMA HAnsweredLocks ==
  ASSUME LockInv, HAnswered  PROVE LockInv'
<1>1. UNCHANGED <<sw, fifos, inSent, outRegs, content, addr, resetIntr, host, ended, configin>>
  BY DEF HAnswered, InAnswer, inRegs, host, LockInv, CalmInv
<1>2. xact.kind = "in" /\ xact \in [kind : {"in"}, ep : Eps, buf : Buffers, hasData : BOOLEAN]
  BY XactForms DEF HAnswered, InAnswer, LockInv, BufferTypes
<1>3. xact' \in Xacts /\ (xact' = NoXact \/ (/\ xact'.kind = "data" /\ xact'.buf = xact.buf
                                             /\ DataOnWire))
  BY <1>2, NoXactIsQuiet DEF HAnswered, InAnswer, DataOnWire, Xacts
<1>4. WireInv'
  BY <1>1, <1>2, <1>3, NoXactIsQuiet DEF WireInv, DataOnWire, Ready, host, LockInv
<1> QED  BY <1>1, <1>3, <1>4, WireLocks DEF LockInv, BufferTypes

(* A packet of the host's goes from its FIFO to the Received Buffer FIFO.  *)
LEMMA PacketArrives ==
  ASSUME LockInv, NEW b \in Buffers, OutTaken(b), ~Ready, UNCHANGED sw
  PROVE  /\ BufferTypes' /\ Partition(Held)' /\ Distinct(rx)' /\ ~Ready'
         /\ Len(rx) \in Nat /\ Len(rx') = Len(rx) + 1
         /\ rx'[Len(rx) + 1].buf = b /\ (rx'[Len(rx) + 1].setup <=> xact.kind = "setup")
         /\ \A i \in DOMAIN rx : rx'[i] = rx[i]
         /\ Cardinality(avOut') <= AvOutDepth /\ configin'[0].buf = configin[0].buf
<1> USE DEF LockInv, sw
<1>1. Receiving /\ xact.ep = 0 /\ xact' = NoXact /\ inSent' = inSent
  BY XactForms DEF OutTaken, BufferTypes
<1> DEFINE p == [ep |-> xact.ep, setup |-> xact.kind = "setup", buf |-> b]
<1>2. /\ p \in Packets /\ p.buf = b /\ (p.setup <=> xact.kind = "setup")
      /\ rx' = Append(rx, p)
  BY <1>1, EndpointIsZero DEF OutTaken, Packets
<1>3. /\ configin' \in [Eps -> Entries] /\ configin'[0].buf = configin[0].buf /\ ~Ready'
  <2>1. CASE xact.kind = "setup"
    BY <1>1, <2>1, CancelType, EndpointIsZero DEF OutTaken, BufferTypes, Ready
  <2>2. CASE xact.kind # "setup"
    BY <2>2 DEF OutTaken, BufferTypes, Ready
  <2> QED  BY <2>1, <2>2
<1> DEFINE from == IF xact.kind = "setup" THEN "avSetup" ELSE "avOut"
<1>4. /\ b \in Held[from] /\ Held'[from] = Held[from] \ {b}
      /\ \A h \in {"avSetup", "avOut"} \ {from} : Held'[h] = Held[h]
      /\ avOut' \subseteq avOut /\ avSetup' \subseteq avSetup
  BY HeldValues, HeldValuesNext DEF HeldIs, OutTaken, Available
<1>5. from \in Holders /\ "rx" \in Holders /\ from # "rx"
  BY DEF Holders
<1> HIDE DEF from, p
<1>6. b \notin BufsOf(rx)
  BY <1>4, <1>5, HeldValues DEF HeldIs, Partition, Disjoint
<1>7. rx' \in Seq(Packets) /\ BufsOf(rx') = BufsOf(rx) \cup {b} /\ Distinct(rx')
  BY <1>2, <1>6, AppendBufs, AppendProperties DEF BufferTypes
<1>8. /\ Len(rx) \in Nat /\ Len(rx') = Len(rx) + 1 /\ rx'[Len(rx) + 1] = p
      /\ \A i \in DOMAIN rx : rx'[i] = rx[i]
  BY <1>2, RxPackets, AppendProperties DEF BufferTypes
<1>9. BufferTypes'
  BY <1>1, <1>3, <1>4, <1>7, NoXactIsQuiet DEF BufferTypes
<1>10. Partition(Held)'
  <2>1. Queued' = Queued /\ Working' = Working /\ Packet' = Packet /\ Prepared' = Prepared
    BY <1>1, <1>3 DEF Queued, Working, Packet, Prepared, Ready
  <2>2. Held'["rx"] = Held["rx"] \cup {b}
    BY <1>7, HeldValues, HeldValuesNext DEF HeldIs
  <2>3. \A h \in Holders \ {from, "rx"} : Held'[h] = Held[h]
    BY <1>4, <2>1, HeldValues, HeldValuesNext DEF HeldIs, Holders
  <2> QED  BY <1>4, <1>5, <2>2, <2>3, MovedStaysPartition, Zenon
<1>11. Cardinality(avOut') <= AvOutDepth
  <2>1. Cardinality(avOut') <= Cardinality(avOut) /\ Cardinality(avOut') \in Nat
    BY <1>4, AvailableFinite, FS_Subset, FS_CardinalityType
  <2> QED  BY <2>1, AvailableFinite, DepthAssumption DEF SupplyInv
<1> QED  BY <1>2, <1>3, <1>7, <1>8, <1>9, <1>10, <1>11

LEMMA EndsOnce ==
  ASSUME LockInv, Regular, Ends
  PROVE  /\ pc # "poll" => ended = 0 /\ ended' > 0
         /\ ended' \in Nat
BY OverlapAssumption DEF LockInv, SupplyInv, Regular, Ends

LEMMA HSetupTakenLocks ==
  ASSUME LockInv, Regular, NEW b \in Buffers, HSetupTaken(b)  PROVE LockInv'
<1> USE DEF LockInv
<1>1. /\ Ends /\ stage = "setup" /\ OutTaken(b) /\ xact.kind = "setup" /\ xact' = NoXact
      /\ content' = [content EXCEPT ![b] = Data(req, TRUE)]
      /\ UNCHANGED <<sw, addr, resetIntr, req, hostAddr, stalled, inSent>>
  BY DEF HSetupTaken, OutTaken, Receiving, WireInv
<1>2. stage' = FirstStage(req) /\ req \in Known
  BY DEF HSetupTaken, CalmInv, FirstStage, Known
<1>3. Idle \/ AllTaken \/ StatusDue
  BY <1>1 DEF Phase, Writing, Offered, PartTaken, Answering, FirstStage
<1>4. ~MoreToSend /\ ~MoreToSend' /\ ~Ready
  BY <1>1, <1>3, TransferStays
  DEF Idle, AllTaken, StatusDue, TransferInv, MoreToSend, PartLeft, sw
<1>5. /\ BufferTypes' /\ Partition(Held)' /\ Distinct(rx)' /\ ~Ready'
      /\ Len(rx) \in Nat /\ Len(rx') = Len(rx) + 1
      /\ rx'[Len(rx) + 1].buf = b /\ rx'[Len(rx) + 1].setup
      /\ \A i \in DOMAIN rx : rx'[i] = rx[i]
      /\ Cardinality(avOut') <= AvOutDepth /\ configin'[0].buf = configin[0].buf
  BY <1>1, <1>4, PacketArrives
<1>6. content'[b].req = req
  BY <1>1 DEF SupplyInv, Data
<1>7. Begun(0) => Begun(0)'
  BY <1>1, <1>2, <1>5, <1>6 DEF Begun, Setup, FirstStage
<1>8. StatusNext => StatusNext'
  <2> SUFFICES ASSUME StatusNext  PROVE StatusNext'
    OBVIOUS
  <2>1. Len(rx) = 1 /\ ~rx[1].setup
    BY <1>1 DEF StatusNext, Begun, FirstStage
  <2>2. rx'[1] = rx[1] /\ Len(rx') = 2 /\ rx'[2].setup /\ rx'[2].buf = b
    BY <1>5, <2>1, RxPackets
  <2>3. Setup(rx[2])'
    BY <1>1, <1>6, <2>2 DEF Setup
  <2>4. Begun(1)'
    BY <1>1, <1>2, <2>2, <2>3 DEF Begun
  <2> QED  BY <2>1, <2>2, <2>4 DEF StatusNext
<1>9. Phase'
  <2>1. ASSUME Idle  PROVE Idle'
    BY <1>1, <1>5, <1>7, <2>1 DEF Idle, FirstStage, sw
  <2>2. ASSUME AllTaken  PROVE AllTaken'
    <3>1. pc \notin {"fill", "receive"}
      BY <1>1, <2>2, EndsOnce DEF AllTaken
    <3> QED  BY <1>1, <1>4, <1>5, <1>7, <1>8, <2>2, <3>1 DEF AllTaken, Taken, sw
  <2>3. ASSUME StatusDue  PROVE StatusDue'
    BY <1>1, <1>5, <1>7, <1>8, <2>3 DEF StatusDue, sw
  <2> QED  BY <1>3, <2>1, <2>2, <2>3 DEF Phase
<1>10. TransferInv'
  <2>1. xfer.next = NoBuf
    BY <1>4 DEF TransferInv, MoreToSend
  <2> QED  BY <1>1, <1>4, <2>1 DEF TransferInv, sw
<1>11. WireInv' /\ CalmInv'
  BY <1>1, NoXactIsQuiet DEF WireInv, CalmInv, DataOnWire, OutTaken, sw
<1>12. SupplyInv'
  <2>1. Data(req, TRUE) \in [req : Kinds \cup {"none"}, last : BOOLEAN]
    BY <1>2 DEF Data, Known
  <2>2. content' \in [Buffers -> [req : Kinds \cup {"none"}, last : BOOLEAN]]
    BY <1>1, <2>1 DEF SupplyInv
  <2>3. (pc # "poll" => ended' > 0) /\ ended' \in Nat
    BY <1>1, EndsOnce
  <2>4. UNCHANGED <<pc, pkt, buf, pool>>
    BY <1>1 DEF sw
  <2>5. Received' => pc # "poll"
    BY <2>4 DEF Received
  <2>6. Cardinality(avOut') <= AvOutDepth /\ configin'[0].buf = configin[0].buf
    BY <1>5
  <2> QED  BY <2>2, <2>3, <2>4, <2>5, <2>6, SMT DEF SupplyInv
<1> QED  BY <1>5, <1>9, <1>10, <1>11, <1>12

LEMMA HStatusTakenLocks ==
  ASSUME LockInv, Regular, NEW b \in Buffers, HStatusTaken(b)  PROVE LockInv'
<1> USE DEF LockInv
<1>1. /\ Ends /\ stage = "statusOut" /\ stage' = "idle" /\ OutTaken(b)
      /\ xact.kind = "out" /\ xact' = NoXact
      /\ UNCHANGED <<sw, content, addr, resetIntr, req, hostAddr, stalled, inSent, avSetup>>
  BY DEF HStatusTaken, OutTaken, Receiving, WireInv
<1>2. ~Begun(0) /\ ~Begun(1) /\ ~Answering
  BY <1>1 DEF Begun, Answering, FirstStage
<1>3. AllTaken \/ StatusDue
  BY <1>1, <1>2 DEF Phase, Idle, Writing, Offered, PartTaken, FirstStage
<1>4. ~Ready
  BY <1>3 DEF AllTaken, StatusDue
<1>5. /\ BufferTypes' /\ Partition(Held)' /\ Distinct(rx)' /\ ~Ready'
      /\ Len(rx) \in Nat /\ Len(rx') = Len(rx) + 1
      /\ ~rx'[Len(rx) + 1].setup
      /\ Cardinality(avOut') <= AvOutDepth /\ configin'[0].buf = configin[0].buf
  BY <1>1, <1>4, PacketArrives
<1>6. StatusNext => StatusNext'
  BY <1>1, <1>2, <1>5 DEF StatusNext, Begun
<1>7. MoreToSend' <=> MoreToSend
  BY <1>1, TransferStays DEF sw
<1>8. Phase'
  <2>1. ASSUME AllTaken  PROVE AllTaken'
    <3>1. pc \notin {"fill", "receive"}
      BY <1>1, <2>1, EndsOnce DEF AllTaken
    <3> QED  BY <1>1, <1>2, <1>5, <1>6, <1>7, <2>1, <3>1 DEF AllTaken, Taken, sw
  <2>2. ASSUME StatusDue  PROVE StatusDue'
    BY <1>1, <1>2, <1>5, <1>6, <2>2 DEF StatusDue, sw
  <2> QED  BY <1>3, <2>1, <2>2 DEF Phase
<1>9. TransferInv' /\ WireInv' /\ CalmInv'
  BY <1>1, <1>7, NoXactIsQuiet DEF TransferInv, WireInv, CalmInv, DataOnWire, OutTaken, sw
<1>10. SupplyInv'
  BY <1>1, <1>5, EndsOnce DEF SupplyInv, Received, sw
<1> QED  BY <1>5, <1>8, <1>9, <1>10

(* The host takes a part of the answer, or the last one, or the status.    *)
LEMMA HAcksLocks ==
  ASSUME LockInv, HAcks  PROVE LockInv'
<1> USE DEF LockInv
<1>1. /\ Ends /\ xact.kind = "data" /\ xact.ep = 0 /\ xact.buf = configin[0].buf
      /\ xact' = NoXact /\ Ready
      /\ configin' = [configin EXCEPT ![0].rdy = FALSE, ![0].sending = FALSE]
      /\ inSent' = {0}
      /\ UNCHANGED <<fifos, outRegs, sw, content, addr, resetIntr, req, stalled>>
  <2>1. xact.kind = "data" /\ xact.ep = 0 /\ DataOnWire
    BY XactForms DEF HAcks, InAcked, BufferTypes, DataOnWire
  <2>2. inSent' = {0}
    BY <2>1, EndpointIsZero DEF HAcks, InAcked, BufferTypes
  <2> QED  BY <2>1, <2>2 DEF HAcks, InAcked, WireInv
<1>2. Offered
  BY <1>1 DEF Phase, Idle, Writing, PartTaken, AllTaken, StatusDue
<1>3. /\ pc \in Between /\ inSent = {} /\ ctrl = AfterSetup(req) /\ stage = FirstStage(req)
      /\ Len(rx) = 0 /\ (content[xact.buf].last <=> ~MoreToSend) /\ req \in Known
  BY <1>1, <1>2 DEF Offered, Answering, Answer, CalmInv
<1>4. /\ configin' \in [Eps -> Entries] /\ ~Ready'
      /\ configin'[0].buf = configin[0].buf
  <2>1. configin' = [configin EXCEPT ![0].rdy = FALSE, ![0].sending = FALSE]
    BY <1>1
  <2>2. configin \in [Eps -> Entries]
    BY DEF BufferTypes
  <2> HIDE DEF LockInv
  <2> QED  BY <2>1, <2>2, EndpointIsZero DEF Entries, Ready
<1>5. ended' \in Nat /\ (pc # "poll" => ended' > 0)
  BY <1>1 DEF Ends, SupplyInv
<1>6. BufferTypes'
  BY <1>1, <1>4, NoXactIsQuiet, EndpointIsZero DEF BufferTypes, fifos, sw
<1>7. Partition(Held)'
  <2>1. Queued = {configin[0].buf} /\ Queued' = {configin[0].buf}
    BY <1>1, <1>3, <1>4 DEF Queued, Ready, Between, sw
  <2>2. \A h \in Holders : Held'[h] = Held[h]
    BY <1>1, <2>1, HeldValues, HeldValuesNext
    DEF HeldIs, Holders, Prepared, Working, Packet, fifos, sw
  <2> QED  BY <2>2, SameStaysPartition, Zenon
<1>8. TransferInv' /\ (MoreToSend' <=> MoreToSend)
  BY <1>1, TransferStays DEF TransferInv, sw
<1>9. CASE stage = "statusIn"
  <2>1. stage' = "idle" /\ hostAddr' = IF req = "address" THEN 1 ELSE hostAddr
    BY <1>9 DEF HAcks
  <2>2. ctrl \in {"addrStatIn", "cfgStatIn", "statIn"} /\ (ctrl = "addrStatIn" => req = "address")
    BY <1>3, <1>9 DEF AfterSetup, FirstStage, Known, Kinds
  <2>3. ~MoreToSend
    BY <2>2 DEF TransferInv, MoreToSend, PartLeft
  <2>4. Begun(0)'
    BY <1>1, <1>3, <2>1 DEF Begun, fifos
  <2>5. AllTaken'
    BY <1>1, <1>3, <1>4, <1>5, <1>8, <2>1, <2>2, <2>3, <2>4
    DEF AllTaken, Taken, Between, fifos, sw
  <2>6. CalmInv'
    BY <1>1, <2>1 DEF CalmInv, outRegs, sw
  <2>7. WireInv' /\ SupplyInv'
    BY <1>1, <1>4, <1>5, NoXactIsQuiet DEF WireInv, DataOnWire, SupplyInv, Received, fifos, sw
  <2> QED  BY <1>1, <1>6, <1>7, <1>8, <2>5, <2>6, <2>7 DEF Distinct, Phase, fifos
<1>10. CASE stage # "statusIn"
  <2>1. stage = "dataIn" /\ ctrl = "waitIn"
    BY <1>3, <1>10 DEF AfterSetup, FirstStage
  <2>2. stage' = (IF MoreToSend THEN "dataIn" ELSE "statusOut") /\ hostAddr' = hostAddr
    BY <1>3, <1>10 DEF HAcks
  <2>3. Phase'
    <3>1. CASE MoreToSend
      BY <1>1, <1>3, <1>4, <1>8, <2>1, <2>2, <3>1
      DEF Phase, PartTaken, Answering, Taken, Between, fifos, sw
    <3>2. CASE ~MoreToSend
      BY <1>1, <1>3, <1>4, <1>5, <1>8, <2>1, <2>2, <3>2
      DEF Phase, AllTaken, StatusNext, Taken, Between, fifos, sw
    <3> QED  BY <3>1, <3>2
  <2>4. WireInv' /\ SupplyInv' /\ CalmInv'
    BY <1>1, <1>4, <1>5, <2>2, NoXactIsQuiet
    DEF WireInv, DataOnWire, SupplyInv, Received, CalmInv, fifos, outRegs, sw
  <2> QED  BY <1>1, <1>6, <1>7, <1>8, <2>3, <2>4 DEF Distinct, fifos
<1> QED  BY <1>9, <1>10

-----------------------------------------------------------------------------
LEMMA LockInit == CtlInit => LockInv
<1> SUFFICES ASSUME CtlInit  PROVE LockInv
  OBVIOUS
<1> USE DEF CtlInit, QuietInit
<1>2. ~Ready /\ inSent = {} /\ pc = "poll" /\ Len(rx) = 0 /\ xact.kind = "none"
  BY EndpointIsZero, NoXactIsQuiet, EmptySeq DEF Ready
<1>1. BufferTypes /\ Distinct(rx) /\ Disjoint(Held)
  <2>1. avSetup \subseteq Buffers /\ avOut \subseteq Buffers \ avSetup
    BY DEF kSubset
  <2>2. configin \in [Eps -> Entries]
    BY EndpointIsZero, BuffersAssumption DEF Entries
  <2>3. rx \in Seq(Packets) /\ BufsOf(rx) = {} /\ Distinct(rx)
    BY EmptySeq DEF BufsOf, Distinct
  <2>4. Transfer(xfer)
    BY DEF NoXfer, Transfer
  <2>5. BufferTypes
    BY <2>1, <2>2, <2>3, <2>4, NoXactIsQuiet DEF BufferTypes, Labels
  <2>6. Queued = {} /\ Prepared = {} /\ Working = {} /\ Packet = {}
    BY <1>2 DEF Queued, Prepared, Working, Packet, NoXfer, Ready
  <2>7. Disjoint(Held)
    BY <2>1, <2>3, <2>6, HeldValues DEF HeldIs, Disjoint, Holders
  <2> QED  BY <2>3, <2>5, <2>7
<1>3. Partition(Held)
  <2> SUFFICES ASSUME NEW b \in Buffers  PROVE \E h \in Holders : b \in Held[h]
    BY <1>1 DEF Partition
  <2>1. b \in pool \/ b \in avSetup \/ b \in avOut
    OBVIOUS
  <2> QED  BY <2>1, HeldValues DEF HeldIs, Holders
<1>4. Idle
  BY <1>2 DEF Idle, Begun, Between
<1>5. TransferInv
  BY DEF TransferInv, NoXfer, MoreToSend, PartLeft
<1>6. WireInv
  BY <1>2 DEF WireInv, DataOnWire
<1>7. CalmInv
  BY DEF CalmInv, Known, Kinds
<1>8. SupplyInv
  <2>1. Cardinality(avOut) = AvOutDepth
    BY DEF kSubset
  <2>2. content \in [Buffers -> [req : Kinds \cup {"none"}, last : BOOLEAN]]
    BY DEF NoData
  <2> QED  BY <1>2, <2>1, <2>2, DepthAssumption DEF SupplyInv, Received
<1> QED  BY <1>1, <1>3, <1>4, <1>5, <1>6, <1>7, <1>8 DEF LockInv, Phase

LEMMA LockStep ==
  ASSUME Regular, LockInv, [CtlNext]_ctlVars  PROVE LockInv'
<1>1. CASE UNCHANGED ctlVars
  <2>1. /\ UNCHANGED <<sw, fifos, inSent, outRegs, content, addr, resetIntr, host, ended>>
        /\ UNCHANGED <<configin, xact>> /\ stage' = stage
    BY <1>1 DEF ctlVars, hwVars, inRegs, host
  <2>2. WireInv' /\ configin' \in [Eps -> Entries] /\ xact' \in Xacts
    BY <2>1 DEF LockInv, WireInv, BufferTypes, DataOnWire, Ready
  <2> QED  BY <2>1, <2>2, WireLocks
<1>2. CASE Software
  BY <1>2, PollLocks, ClearReadLocks, ClearWritePendLocks, ClearWriteSentLocks,
     SendNextPartLocks, TxDoneLocks, SendBufferLocks, SendReadyLocks, FillLocks, ReceiveLocks,
     SetupTakenLocks, StatusTakenLocks, NothingUnexpected, AcknowledgeLocks
  DEF Software
<1>3. CASE Host
  BY <1>3, HBeginLocks, HTokenLocks, HRefusedLocks, HAnsweredLocks, HAcksLocks,
     HSetupTakenLocks, HStatusTakenLocks
  DEF Host
<1> QED  BY <1>1, <1>2, <1>3 DEF CtlNext

LEMMA LockInvHolds == ASSUME Regular PROVE CtlSpec => []LockInv
<1>1. LockInv /\ [CtlNext]_ctlVars => LockInv'
  BY LockStep
<1> QED  BY <1>1, LockInit, PTL DEF CtlSpec

LEMMA HeldApart ==
  ASSUME LockInv  PROVE BuffersNotShared
<1>1. /\ InHand = Working \cup Packet
      /\ InFifos = Held["avSetup"] \cup Held["avOut"] \cup Held["rx"]
      /\ pool = Held["pool"] /\ Prepared = Held["prepared"] /\ Queued = Held["queued"]
      /\ Working = Held["working"] /\ Packet = Held["packet"]
  BY HeldValues DEF HeldIs, InHand, InFifos, Working, Packet, BufsOf, Readying
<1>2. \A g, h \in Holders : g # h => Held[g] \cap Held[h] = {}
  BY DEF LockInv, Partition, Disjoint
<1>3. /\ pool \cap (Queued \cup Prepared \cup InHand \cup InFifos) = {}
      /\ InFifos \cap (Queued \cup Prepared \cup InHand) = {}
      /\ Prepared \cap (Queued \cup InHand) = {}
      /\ Queued \cap InHand = {}
  BY <1>1, <1>2 DEF Holders
<1> QED  BY <1>3 DEF BuffersNotShared

LEMMA PartitionCovers ==
  ASSUME LockInv  PROVE NoBufferLost
<1> USE DEF LockInv
<1>1. /\ InHand = Working \cup Packet
      /\ InFifos = Held["avSetup"] \cup Held["avOut"] \cup Held["rx"]
      /\ pool = Held["pool"] /\ Prepared = Held["prepared"] /\ Queued = Held["queued"]
      /\ Working = Held["working"] /\ Packet = Held["packet"]
  BY HeldValues DEF HeldIs, InHand, InFifos, Working, Packet, BufsOf, Readying
<1>2. Buffers \subseteq pool \cup Queued \cup Prepared \cup InHand \cup InFifos
  <2> SUFFICES ASSUME NEW b \in Buffers
               PROVE  b \in pool \cup Queued \cup Prepared \cup InHand \cup InFifos
    OBVIOUS
  <2>1. PICK h \in Holders : b \in Held[h]
    BY DEF Partition
  <2> QED  BY <1>1, <2>1 DEF Holders
<1>3. pool \cup Queued \cup Prepared \cup InHand \cup InFifos \subseteq Buffers
  <2>1. Queued \subseteq Buffers
    BY EndpointIsZero DEF BufferTypes, Queued, Entries
  <2>2. Prepared \subseteq Buffers
    BY DEF TransferInv, Prepared
  <2>3. InHand \subseteq Buffers
    BY DEF BufferTypes, InHand, Readying
  <2>4. InFifos \subseteq Buffers
    BY RxPackets DEF BufferTypes, InFifos
  <2> QED  BY <2>1, <2>2, <2>3, <2>4 DEF BufferTypes
<1> QED  BY <1>2, <1>3 DEF NoBufferLost

(* No packet buffer is ever in two places of the pool, the FIFOs, the      *)
(* endpoint and the running code, for any number of buffers and any size   *)
(* of answers: nothing is written over before it is sent or read.          *)
THEOREM BuffersApart == ASSUME Regular PROVE CtlSpec => []BuffersNotShared
<1>1. LockInv => BuffersNotShared
  BY HeldApart
<1> QED  BY <1>1, LockInvHolds, PTL

(* No request costs the software a buffer, and a poll that has filled the  *)
(* FIFOs leaves one for the next SETUP packet, for any number of buffers,  *)
(* any depth of the FIFOs and any size of answers.                         *)
THEOREM KeepsBuffers == ASSUME Regular PROVE CtlSpec => []BuffersKept
<1>1. LockInv => BuffersKept
  BY PartitionCovers DEF LockInv, BuffersKept, SetupSupplied, SupplyInv, Received
<1> QED  BY <1>1, LockInvHolds, PTL

(* Every packet that is put on the wire is of the answer to the request    *)
(* the host made last.                                                     *)
THEOREM RightAnswer == ASSUME Regular PROVE CtlSpec => []AnswersRequest
<1>1. LockInv => AnswersRequest
  <2> SUFFICES ASSUME LockInv, xact.kind = "data"  PROVE content[xact.buf].req = req
    BY DEF AnswersRequest
  <2>1. Ready /\ xact.buf = configin[0].buf
    BY DEF LockInv, WireInv, DataOnWire
  <2>2. Offered
    BY <2>1 DEF LockInv, Phase, Idle, Writing, PartTaken, AllTaken, StatusDue
  <2> QED  BY <2>1, <2>2 DEF Offered, Answer
<1> QED  BY <1>1, LockInvHolds, PTL

(* The device takes its new address only when the host has, in the status  *)
(* stage.                                                                  *)
THEOREM AddressLast == ASSUME Regular PROVE CtlSpec => []AddressAfterStatus
<1>1. LockInv => AddressAfterStatus
  BY DEF LockInv, CalmInv, AddressAfterStatus
<1> QED  BY <1>1, LockInvHolds, PTL

(* When the host's transfer is over and the device has processed all of    *)
(* it, the control endpoint is idle and nothing of the transfer is left.   *)
THEOREM InStep == ASSUME Regular PROVE CtlSpec => []AgreeWhenIdle
<1>1. LockInv => AgreeWhenIdle
  <2> SUFFICES ASSUME LockInv, pc = "poll", stage = "idle", inSent = {}, rx = <<>>
               PROVE  ctrl = "idle" /\ ~xfer.active /\ Prepared = {} /\ ~configin[0].rdy
    BY DEF AgreeWhenIdle
  <2>1. Len(rx) = 0
    BY EmptySeq
  <2>2. Idle
    BY <2>1 DEF LockInv, Phase, Writing, Offered, PartTaken, AllTaken, StatusDue, Answering,
                Taken, StatusNext, FirstStage
  <2> QED  BY <2>2 DEF Idle, LockInv, TransferInv, Prepared, Ready
<1> QED  BY <1>1, LockInvHolds, PTL

(* The requests setup_req knows are never answered with a STALL. *)
THEOREM KnownSucceed == ASSUME Regular PROVE CtlSpec => []NeverStalled
<1>1. LockInv => NeverStalled
  BY DEF LockInv, CalmInv, NeverStalled
<1> QED  BY <1>1, LockInvHolds, PTL

=============================================================================
