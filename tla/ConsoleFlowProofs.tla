------------------------- MODULE ConsoleFlowProofs -------------------------
(***************************************************************************)
(* The console's flow control for any watermarks and any depth of the      *)
(* receive FIFO, however late the host reacts.                             *)
(***************************************************************************)
EXTENDS ConsoleFlow, SequenceTheorems, TLAPS

Threads == {"main", "isr"}
Bytes   == {"text", "resume", "pause"}
States  == {"auto", "resume", "pause"}

MainLabels == {"idle", "receive", "drain", "snapshot", "disable", "avail", "setEnabled",
               "send", "store", "restore"}
IsrLabels  == {"off", "check", "avail", "setEnabled", "send", "store", "ack", "failed"}

TypeOK ==
  /\ rx \in Nat /\ tx \in Seq(Bytes)
  /\ irqEnabled \in BOOLEAN /\ snapshot \in BOOLEAN
  /\ pending \in {"no", "new", "late"}
  /\ flow \in States
  /\ at \in [Threads -> MainLabels \cup IsrLabels]
  /\ at["main"] \in MainLabels /\ at["isr"] \in IsrLabels
  /\ ctrl \in [Threads -> States]

Deciding(t) == at[t] \in {"setEnabled", "send", "store"}

(* The handler cannot run until the main program enables the interrupt. *)
Masked == ~irqEnabled /\ pending = "no" /\ at["isr"] = "off"

(* The handler only ever pauses the host, and only one that is not paused  *)
(* already.                                                                *)
IsrInv ==
  /\ at["isr"] # "off" => pending = "no"
  /\ at["isr"] = "avail" => ctrl["isr"] = "auto" /\ rx >= High
  /\ Deciding("isr") => ctrl["isr"] = "pause" /\ flow # "pause" /\ rx >= High

(* While the main program decides, the handler cannot run, or it finds the *)
(* host paused and does nothing.                                           *)
MainInv ==
  /\ flow = "auto" => /\ at["main"] \in {"snapshot", "disable", "avail", "send", "store"}
                      /\ ctrl["main"] = "resume"
  /\ at["main"] \in {"snapshot", "disable"} => ctrl["main"] \in {"auto", "resume"}
  /\ at["main"] \in {"snapshot", "disable", "avail"} /\ ctrl["main"] = "resume" =>
       flow # "resume"
  /\ at["main"] = "avail" => ~irqEnabled /\ pending # "new" /\ ctrl["main"] \in {"auto", "resume"}
  /\ at["main"] = "setEnabled" =>
       Masked /\ flow = IF ctrl["main"] = "resume" THEN "pause" ELSE "resume"
  /\ Deciding("main") =>
       \/ ctrl["main"] = "resume" /\ (Masked \/ flow = "pause")
       \/ ctrl["main"] = "pause" /\ Masked /\ flow = "resume" /\ rx >= High

(* A paused host is told to go on by the call that takes the level below   *)
(* the low watermark.                                                      *)
PauseInv ==
  flow = "pause" =>
    \/ rx >= Low
    \/ at["main"] \in {"snapshot", "disable", "avail"}
    \/ Deciding("main") /\ ctrl["main"] = "resume"

(* At most one byte of text is in the transmit FIFO, and only then. *)
Text == IF at["main"] = "drain" THEN 1 ELSE 0

(* The host is told to go on when less than Low bytes are there, and to    *)
(* pause when High are: the bytes it sends in between take as long as the  *)
(* control bytes ahead.  Only the first call tells it to go on whatever    *)
(* the level is.                                                           *)
RoomInv ==
  /\ at["main"] \in {"snapshot", "disable", "avail"} /\ ctrl["main"] = "resume" =>
       Len(tx) <= 1 /\ (flow = "auto" /\ at["isr"] # "store" => Len(tx) = 0)
  /\ at["main"] \in {"setEnabled", "send"} /\ ctrl["main"] = "resume" =>
       Len(tx) <= 1 \/ (Len(tx) <= 3 /\ Len(tx) + rx <= Low + 2)
  /\ at["main"] = "store" /\ ctrl["main"] = "resume" =>
       Len(tx) <= 2 \/ Len(tx) + rx <= Low + 3
  /\ flow = "resume" /\ at["main"] # "store" /\ at["isr"] # "store" =>
       Len(tx) <= Text + 2 \/ Len(tx) + rx <= Text + Low + 3
  /\ flow = "pause" /\ at["main"] # "store" => Len(tx) <= Text + 3
  /\ at["isr"] = "store" \/ (at["main"] = "store" /\ ctrl["main"] = "pause") =>
       Len(tx) <= Text + 3

KnowInv ==
  IF at["isr"] = "store" THEN WillKnow("pause")
  ELSE IF at["main"] = "store" THEN WillKnow(ctrl["main"])
  ELSE flow # "auto" => WillKnow(flow)

FlowInv == TypeOK /\ IsrInv /\ MainInv /\ PauseInv /\ RoomInv /\ KnowInv

-----------------------------------------------------------------------------
(* What the host will know, when a byte is sent or heard. *)

LEMMA TxFacts ==
  ASSUME TypeOK
  PROVE  Len(tx) \in Nat /\ DOMAIN tx = 1..Len(tx) /\ \A i \in DOMAIN tx : tx[i] \in Bytes
BY LenProperties, ElementOfSeq DEF TypeOK

LEMMA SentText ==
  ASSUME TypeOK, tx' = Append(tx, "text"), told' = told, NEW v, WillKnow(v)
  PROVE  WillKnow(v)'
<1>1. /\ Len(tx) \in Nat /\ DOMAIN tx = 1..Len(tx) /\ DOMAIN tx' = 1..(Len(tx) + 1)
      /\ \A i \in DOMAIN tx : tx'[i] = tx[i]
      /\ tx'[Len(tx) + 1] = "text"
  BY TxFacts, AppendProperties DEF TypeOK, Bytes
<1>2. \A i \in DOMAIN tx' : i \in DOMAIN tx \/ i = Len(tx) + 1
  BY <1>1
<1>3. CASE told = v /\ \A i \in DOMAIN tx : tx[i] = "text"
  BY <1>1, <1>2, <1>3 DEF WillKnow
<1>4. ASSUME NEW i \in DOMAIN tx, tx[i] = v, \A j \in DOMAIN tx : j > i => tx[j] = "text"
      PROVE  WillKnow(v)'
  <2>1. i \in DOMAIN tx' /\ tx'[i] = v
    BY <1>1, <1>4
  <2>2. \A j \in DOMAIN tx' : j > i => tx'[j] = "text"
    BY <1>1, <1>2, <1>4
  <2> QED  BY <2>1, <2>2 DEF WillKnow
<1> QED  BY <1>3, <1>4 DEF WillKnow

LEMMA SentControl ==
  ASSUME TypeOK, NEW v \in {"resume", "pause"}, tx' = Append(tx, v)
  PROVE  WillKnow(v)'
<1> DEFINE n == Len(tx) + 1
<1>1. n \in Nat /\ DOMAIN tx' = 1..n /\ tx'[n] = v
  BY TxFacts, AppendProperties DEF TypeOK, Bytes
<1> HIDE DEF n
<1>2. n \in DOMAIN tx' /\ \A j \in DOMAIN tx' : ~(j > n)
  <2>1. n > 0
    BY TxFacts DEF n
  <2> QED  BY <1>1, <2>1
<1> QED  BY <1>1, <1>2 DEF WillKnow

LEMMA HeardNext ==
  ASSUME TypeOK, tx # <<>>, tx' = Tail(tx),
         told' = (IF Head(tx) = "text" THEN told ELSE Head(tx)),
         NEW v \in {"resume", "pause"}, WillKnow(v)
  PROVE  WillKnow(v)'
<1>1. /\ Len(tx) \in Nat /\ Len(tx) > 0 /\ DOMAIN tx = 1..Len(tx)
      /\ DOMAIN tx' = 1..(Len(tx) - 1)
      /\ \A i \in DOMAIN tx' : tx'[i] = tx[i + 1]
      /\ Head(tx) = tx[1]
  BY TxFacts, HeadTailProperties, EmptySeq DEF TypeOK
<1>2. \A i \in DOMAIN tx' : i + 1 \in DOMAIN tx /\ i \in Int
  BY <1>1
<1>3. 1 \in DOMAIN tx
  BY <1>1
<1>4. CASE told = v /\ \A i \in DOMAIN tx : tx[i] = "text"
  BY <1>1, <1>2, <1>3, <1>4 DEF WillKnow
<1>5. ASSUME NEW i \in DOMAIN tx, tx[i] = v, \A j \in DOMAIN tx : j > i => tx[j] = "text"
      PROVE  WillKnow(v)'
  <2>1. \A j \in DOMAIN tx' : j + 1 > i => tx'[j] = "text"
    BY <1>1, <1>2, <1>5
  <2>2. CASE i = 1
    <3>1. told' = v
      BY <1>1, <1>5, <2>2
    <3>2. \A j \in DOMAIN tx' : tx'[j] = "text"
      BY <1>1, <2>1, <2>2
    <3> QED  BY <3>1, <3>2 DEF WillKnow
  <2>3. CASE i # 1
    <3>1. i - 1 \in DOMAIN tx' /\ (i - 1) + 1 = i
      BY <1>1, <2>3
    <3>2. tx'[i - 1] = v
      BY <1>1, <1>5, <3>1
    <3>3. \A j \in DOMAIN tx' : j > i - 1 => tx'[j] = "text"
      BY <1>1, <2>1
    <3> QED  BY <3>1, <3>2, <3>3 DEF WillKnow
  <2> QED  BY <2>2, <2>3
<1> QED  BY <1>4, <1>5 DEF WillKnow

-----------------------------------------------------------------------------
(* The steps, one lemma for each. *)

LEMMA MainGoes ==
  ASSUME TypeOK, NEW l \in MainLabels, Goto("main", l)
  PROVE  /\ at'["main"] = l /\ at'["isr"] = at["isr"]
         /\ at' \in [Threads -> MainLabels \cup IsrLabels]
BY DEF TypeOK, Goto, Threads

LEMMA IsrGoes ==
  ASSUME TypeOK, NEW l \in IsrLabels, Goto("isr", l)
  PROVE  /\ at'["isr"] = l /\ at'["main"] = at["main"]
         /\ at' \in [Threads -> MainLabels \cup IsrLabels]
BY DEF TypeOK, Goto, Threads

LEMMA LatchKeeps ==
  ASSUME FlowInv, Latch  PROVE FlowInv'
<1> USE DEF FlowInv, Latch, uartVars, hostVars
<1>1. TypeOK'
  BY DEF TypeOK
<1>2. IsrInv'
  BY DEF IsrInv, Deciding
<1>3. MainInv'
  BY DEF MainInv, Deciding, Masked
<1>4. PauseInv' /\ RoomInv'
  BY DEF PauseInv, RoomInv, Text, Deciding
<1>5. KnowInv'
  BY DEF KnowInv, WillKnow
<1> QED  BY <1>1, <1>2, <1>3, <1>4, <1>5

LEMMA ByteTimeKeeps ==
  ASSUME FlowInv, ByteTime  PROVE FlowInv'
<1> USE DEF FlowInv
<1>1. /\ rx' \in {rx, rx + 1} /\ rx \in Nat
      /\ UNCHANGED <<irqEnabled, pending, flow, at, ctrl, snapshot>>
  BY DEF ByteTime, TypeOK
<1>2. \/ tx = <<>> /\ tx' = tx /\ told' = told
      \/ tx # <<>> /\ tx' = Tail(tx) /\ told' = IF Head(tx) = "text" THEN told ELSE Head(tx)
  BY DEF ByteTime, Heard
<1>3. tx' \in Seq(Bytes) /\ \/ Len(tx) = 0 /\ Len(tx') = 0
                            \/ Len(tx) > 0 /\ Len(tx') = Len(tx) - 1
  BY <1>2, HeadTailProperties, EmptySeq, TxFacts DEF TypeOK
<1>4. rx' \in Nat /\ rx' >= rx /\ rx' <= rx + 1
  BY <1>1
<1>5. TypeOK'
  BY <1>1, <1>3, <1>4 DEF TypeOK
<1>6. IsrInv'
  BY <1>1, <1>4, WatermarkAssumption DEF IsrInv, Deciding
<1>7. MainInv'
  BY <1>1, <1>4, WatermarkAssumption DEF MainInv, Deciding, Masked
<1>8. PauseInv'
  BY <1>1, <1>4, WatermarkAssumption DEF PauseInv, Deciding
<1>9. RoomInv'
  <2>1. Text' = Text /\ Text \in {0, 1}
    BY <1>1 DEF Text
  <2>2. Len(tx) \in Nat /\ Len(tx') \in Nat
    BY <1>3, TxFacts, LenProperties
  <2>3. \A k \in Nat : (Len(tx) <= k => Len(tx') <= k)
                       /\ (Len(tx) + rx <= k => Len(tx') = 0 \/ Len(tx') + rx' <= k)
    BY <1>1, <1>3, <1>4, <2>2
  <2> QED  BY <1>1, <1>3, <2>1, <2>2, <2>3, WatermarkAssumption DEF RoomInv
<1>10. KnowInv'
  <2>1. \A v \in {"resume", "pause"} : WillKnow(v) => WillKnow(v)'
    BY <1>2, HeardNext DEF WillKnow
  <2>2. at["main"] = "store" => ctrl["main"] \in {"resume", "pause"}
    BY DEF MainInv, Deciding
  <2>3. flow # "auto" => flow \in {"resume", "pause"}
    BY DEF TypeOK, States
  <2> QED  BY <1>1, <2>1, <2>2, <2>3 DEF KnowInv
<1> QED  BY <1>5, <1>6, <1>7, <1>8, <1>9, <1>10

LEMMA SnapshotKeeps ==
  ASSUME FlowInv, Snapshot  PROVE FlowInv'
<1> USE DEF FlowInv, Snapshot, Running, uartVars, hostVars
<1>1. at["main"] = "snapshot" /\ at'["main"] = "disable"
      /\ at'["isr"] = at["isr"]
      /\ at' \in [Threads -> MainLabels \cup IsrLabels]
  BY MainGoes DEF MainLabels
<1>2. TypeOK'
  BY <1>1 DEF TypeOK, MainLabels, IsrLabels
<1>3. IsrInv'
  BY <1>1 DEF IsrInv, Deciding
<1>4. MainInv'
  BY <1>1 DEF MainInv, Deciding, Masked
<1>5. PauseInv'
  BY <1>1 DEF PauseInv, Deciding
<1>6. RoomInv'
  BY <1>1 DEF RoomInv, Text
<1>7. KnowInv'
  BY <1>1 DEF KnowInv, WillKnow
<1> QED  BY <1>2, <1>3, <1>4, <1>5, <1>6, <1>7

LEMMA DisableKeeps ==
  ASSUME FlowInv, Disable  PROVE FlowInv'
<1> USE DEF FlowInv, Disable, Running, uartVars, hostVars
<1>1. at["main"] = "disable" /\ at'["main"] = "avail"
      /\ at'["isr"] = at["isr"]
      /\ at' \in [Threads -> MainLabels \cup IsrLabels]
  BY MainGoes DEF MainLabels
<1>2. TypeOK'
  BY <1>1 DEF TypeOK, MainLabels, IsrLabels
<1>3. IsrInv'
  BY <1>1 DEF IsrInv, Deciding
<1>4. MainInv'
  BY <1>1 DEF MainInv, Deciding, Masked
<1>5. PauseInv'
  BY <1>1 DEF PauseInv, Deciding
<1>6. RoomInv'
  BY <1>1 DEF RoomInv, Text
<1>7. KnowInv'
  BY <1>1 DEF KnowInv, WillKnow
<1> QED  BY <1>2, <1>3, <1>4, <1>5, <1>6, <1>7

LEMMA RestoreKeeps ==
  ASSUME FlowInv, Restore  PROVE FlowInv'
<1> USE DEF FlowInv, Restore, Running, uartVars, hostVars
<1>1. at["main"] = "restore" /\ at'["main"] = "idle"
      /\ at'["isr"] = at["isr"]
      /\ at' \in [Threads -> MainLabels \cup IsrLabels]
  BY MainGoes DEF MainLabels
<1>2. TypeOK'
  BY <1>1 DEF TypeOK, MainLabels, IsrLabels
<1>3. IsrInv'
  BY <1>1 DEF IsrInv, Deciding
<1>4. MainInv'
  BY <1>1 DEF MainInv, Deciding, Masked
<1>5. PauseInv'
  BY <1>1 DEF PauseInv, Deciding
<1>6. RoomInv'
  BY <1>1 DEF RoomInv, Text
<1>7. KnowInv'
  BY <1>1 DEF KnowInv, WillKnow
<1> QED  BY <1>2, <1>3, <1>4, <1>5, <1>6, <1>7

LEMMA GetcKeeps ==
  ASSUME FlowInv, Getc  PROVE FlowInv'
<1> USE DEF FlowInv, Getc, Running, uartVars, hostVars
<1>1. at["main"] = "idle" /\ at'["main"] = "receive"
      /\ at'["isr"] = at["isr"]
      /\ at' \in [Threads -> MainLabels \cup IsrLabels]
  BY MainGoes DEF MainLabels
<1>2. TypeOK'
  BY <1>1 DEF TypeOK, MainLabels, IsrLabels
<1>3. IsrInv'
  BY <1>1 DEF IsrInv, Deciding
<1>4. MainInv'
  BY <1>1 DEF MainInv, Deciding, Masked
<1>5. PauseInv'
  BY <1>1 DEF PauseInv, Deciding
<1>6. RoomInv'
  BY <1>1 DEF RoomInv, Text
<1>7. KnowInv'
  BY <1>1 DEF KnowInv, WillKnow
<1> QED  BY <1>2, <1>3, <1>4, <1>5, <1>6, <1>7

LEMMA DrainedKeeps ==
  ASSUME FlowInv, Drained  PROVE FlowInv'
<1> USE DEF FlowInv, Drained, Running, uartVars, hostVars
<1>1. at["main"] = "drain" /\ at'["main"] = "idle"
      /\ at'["isr"] = at["isr"]
      /\ at' \in [Threads -> MainLabels \cup IsrLabels]
  BY MainGoes DEF MainLabels
<1>2. TypeOK'
  BY <1>1 DEF TypeOK, MainLabels, IsrLabels
<1>3. IsrInv'
  BY <1>1 DEF IsrInv, Deciding
<1>4. MainInv'
  BY <1>1 DEF MainInv, Deciding, Masked
<1>5. PauseInv'
  BY <1>1 DEF PauseInv, Deciding
<1>6. RoomInv'
  BY <1>1 DEF RoomInv, Text
<1>7. KnowInv'
  BY <1>1 DEF KnowInv, WillKnow
<1> QED  BY <1>2, <1>3, <1>4, <1>5, <1>6, <1>7

LEMMA ClaimKeeps ==
  ASSUME FlowInv, Claim  PROVE FlowInv'
<1> USE DEF FlowInv, Claim, Running, uartVars, hostVars
<1>1. at["isr"] = "off" /\ at'["isr"] = "check"
      /\ at'["main"] = at["main"]
      /\ at' \in [Threads -> MainLabels \cup IsrLabels]
  BY IsrGoes DEF IsrLabels
<1>2. TypeOK'
  BY <1>1 DEF TypeOK, MainLabels, IsrLabels
<1>3. IsrInv'
  BY <1>1 DEF IsrInv, Deciding
<1>4. MainInv'
  BY <1>1 DEF MainInv, Deciding, Masked
<1>5. PauseInv'
  BY <1>1 DEF PauseInv, Deciding
<1>6. RoomInv'
  BY <1>1 DEF RoomInv, Text
<1>7. KnowInv'
  BY <1>1 DEF KnowInv, WillKnow
<1> QED  BY <1>2, <1>3, <1>4, <1>5, <1>6, <1>7

LEMMA CompleteKeeps ==
  ASSUME FlowInv, Complete  PROVE FlowInv'
<1> USE DEF FlowInv, Complete, Running, uartVars, hostVars
<1>1. at["isr"] = "ack" /\ at'["isr"] = "off"
      /\ at'["main"] = at["main"]
      /\ at' \in [Threads -> MainLabels \cup IsrLabels]
  BY IsrGoes DEF IsrLabels
<1>2. TypeOK'
  BY <1>1 DEF TypeOK, MainLabels, IsrLabels
<1>3. IsrInv'
  BY <1>1 DEF IsrInv, Deciding
<1>4. MainInv'
  BY <1>1 DEF MainInv, Deciding, Masked
<1>5. PauseInv'
  BY <1>1 DEF PauseInv, Deciding
<1>6. RoomInv'
  BY <1>1 DEF RoomInv, Text
<1>7. KnowInv'
  BY <1>1 DEF KnowInv, WillKnow
<1> QED  BY <1>2, <1>3, <1>4, <1>5, <1>6, <1>7

LEMMA ReceiveKeeps ==
  ASSUME FlowInv, Receive  PROVE FlowInv'
<1> USE DEF FlowInv, Receive, Running, hostVars
<1>1. at["main"] = "receive" /\ at'["main"] = "snapshot"
      /\ at'["isr"] = at["isr"] /\ at["isr"] = "off"
      /\ at' \in [Threads -> MainLabels \cup IsrLabels]
  BY MainGoes DEF MainLabels
<1>2. /\ ctrl'["main"] = "auto" /\ ctrl'["isr"] = ctrl["isr"]
      /\ ctrl' \in [Threads -> States]
  BY DEF TypeOK, Threads, States
<1>3. rx' \in Nat /\ rx' = rx - 1
  BY DEF TypeOK
<1>4. TypeOK'
  BY <1>1, <1>2, <1>3 DEF TypeOK, MainLabels, IsrLabels
<1>5. IsrInv' /\ MainInv'
  BY <1>1, <1>2 DEF IsrInv, MainInv, Deciding, Masked
<1>6. PauseInv'
  BY <1>1 DEF PauseInv, Deciding
<1>7. RoomInv'
  <2>1. Len(tx) \in Nat /\ rx \in Nat
    BY TxFacts DEF TypeOK
  <2> QED  BY <1>1, <1>2, <1>3, <2>1, WatermarkAssumption DEF RoomInv, Text
<1>8. KnowInv'
  BY <1>1 DEF KnowInv, WillKnow
<1> QED  BY <1>4, <1>5, <1>6, <1>7, <1>8

LEMMA PutbufKeeps ==
  ASSUME FlowInv, Putbuf  PROVE FlowInv'
<1> USE DEF FlowInv, Putbuf, Running, hostVars
<1>1. at["main"] = "idle" /\ at'["main"] = "drain"
      /\ at'["isr"] = at["isr"] /\ at["isr"] = "off"
      /\ at' \in [Threads -> MainLabels \cup IsrLabels]
  BY MainGoes DEF MainLabels
<1>2. tx' = Append(tx, "text") /\ tx' \in Seq(Bytes) /\ Len(tx') = Len(tx) + 1
  BY AppendProperties DEF BytesSend, TypeOK, Bytes
<1>3. TypeOK'
  BY <1>1, <1>2 DEF TypeOK, MainLabels, IsrLabels
<1>4. IsrInv' /\ MainInv' /\ PauseInv'
  BY <1>1 DEF IsrInv, MainInv, PauseInv, Deciding, Masked
<1>5. RoomInv'
  <2>1. Len(tx) \in Nat /\ rx \in Nat
    BY TxFacts DEF TypeOK
  <2> QED  BY <1>1, <1>2, <2>1, WatermarkAssumption DEF RoomInv, Text
<1>6. KnowInv'
  BY <1>1, <1>2, SentText DEF KnowInv
<1> QED  BY <1>3, <1>4, <1>5, <1>6

LEMMA CheckKeeps ==
  ASSUME FlowInv, Check  PROVE FlowInv'
<1> USE DEF FlowInv, Check, uartVars, hostVars
<1>1. /\ at["isr"] = "check" /\ at'["main"] = at["main"]
      /\ at'["isr"] = IF rx >= High THEN "avail" ELSE "failed"
      /\ at' \in [Threads -> MainLabels \cup IsrLabels]
  BY IsrGoes DEF IsrLabels
<1>2. /\ ctrl'["isr"] = "auto" /\ ctrl'["main"] = ctrl["main"]
      /\ ctrl' \in [Threads -> States]
  BY DEF TypeOK, Threads, States
<1>3. TypeOK'
  BY <1>1, <1>2 DEF TypeOK, MainLabels, IsrLabels
<1>4. IsrInv' /\ MainInv'
  BY <1>1, <1>2 DEF IsrInv, MainInv, Deciding, Masked
<1>5. PauseInv' /\ RoomInv'
  BY <1>1, <1>2 DEF PauseInv, RoomInv, Text, Deciding
<1>6. KnowInv'
  BY <1>1, <1>2 DEF KnowInv, WillKnow
<1> QED  BY <1>3, <1>4, <1>5, <1>6

LEMMA MainAvailKeeps ==
  ASSUME FlowInv, Avail("main")  PROVE FlowInv'
<1> USE DEF FlowInv, Avail, Running, After, uartVars, hostVars
<1>1. /\ at["main"] = "avail" /\ at["isr"] = "off" /\ pending = "no" /\ pending' = "no"
      /\ ~irqEnabled /\ ctrl["main"] \in {"auto", "resume"}
      /\ UNCHANGED <<uartVars, flow, snapshot, hostVars>>
  BY DEF MainInv, TypeOK
<1>2. \/ ctrl["main"] = "resume" /\ Goto("main", "send") /\ ctrl' = ctrl
      \/ ctrl["main"] = "auto" /\ rx < Low /\ flow # "resume" /\ Goto("main", "setEnabled")
         /\ ctrl' = [ctrl EXCEPT !["main"] = "resume"]
      \/ ctrl["main"] = "auto" /\ rx >= High /\ flow # "pause" /\ Goto("main", "setEnabled")
         /\ ctrl' = [ctrl EXCEPT !["main"] = "pause"]
      \/ ctrl["main"] = "auto" /\ ~(rx < Low /\ flow # "resume") /\ Goto("main", "restore")
         /\ ctrl' = ctrl
  BY <1>1
<1> USE DEF Threads, States
<1>3. /\ at'["isr"] = "off" /\ at' \in [Threads -> MainLabels \cup IsrLabels]
      /\ at'["main"] \in {"send", "setEnabled", "restore"}
      /\ ctrl' \in [Threads -> States] /\ ctrl'["isr"] = ctrl["isr"]
  BY <1>1, <1>2, MainGoes DEF MainLabels, TypeOK
<1>4. \/ /\ ctrl["main"] = "resume" /\ at'["main"] = "send" /\ ctrl'["main"] = "resume"
      \/ /\ ctrl["main"] = "auto" /\ rx < Low /\ flow # "resume"
         /\ at'["main"] = "setEnabled" /\ ctrl'["main"] = "resume"
      \/ /\ ctrl["main"] = "auto" /\ rx >= High /\ flow # "pause"
         /\ at'["main"] = "setEnabled" /\ ctrl'["main"] = "pause"
      \/ /\ ctrl["main"] = "auto" /\ ~(rx < Low /\ flow # "resume")
         /\ at'["main"] = "restore" /\ ctrl'["main"] = "auto"
  BY <1>1, <1>2, MainGoes DEF MainLabels, TypeOK
<1>5. TypeOK'
  BY <1>1, <1>3 DEF TypeOK, MainLabels, IsrLabels
<1>6. IsrInv'
  BY <1>1, <1>3 DEF IsrInv, Deciding
<1>7. MainInv'
  BY <1>1, <1>3, <1>4 DEF MainInv, Deciding, Masked, TypeOK
<1>8. rx \in Nat /\ Len(tx) \in Nat
  BY TxFacts DEF TypeOK
<1>9. PauseInv'
  BY <1>1, <1>3, <1>4, <1>8, WatermarkAssumption DEF PauseInv, Deciding
<1>10. RoomInv'
  BY <1>1, <1>3, <1>4, <1>8, WatermarkAssumption DEF RoomInv, MainInv, Text, TypeOK
<1>11. KnowInv'
  BY <1>1, <1>3 DEF KnowInv, WillKnow
<1> QED  BY <1>5, <1>6, <1>7, <1>9, <1>10, <1>11

(* The handler finds the level at the high watermark or above: it pauses   *)
(* the host or does nothing.                                               *)
LEMMA IsrAvailKeeps ==
  ASSUME FlowInv, Avail("isr")  PROVE FlowInv'
<1> USE DEF FlowInv, Avail, Running, After, uartVars, hostVars
<1>1. /\ at["isr"] = "avail" /\ pending = "no" /\ ctrl["isr"] = "auto" /\ rx >= High
      /\ rx \in Nat /\ ~(rx < Low)
      /\ UNCHANGED <<uartVars, flow, snapshot, hostVars, pending>>
  BY WatermarkAssumption DEF IsrInv, TypeOK
<1> USE DEF Threads, States
<1>2. /\ at'["main"] = at["main"] /\ at' \in [Threads -> MainLabels \cup IsrLabels]
      /\ at'["isr"] \in {"setEnabled", "ack"}
      /\ ctrl' \in [Threads -> States] /\ ctrl'["main"] = ctrl["main"]
      /\ at'["isr"] = "setEnabled" => ctrl'["isr"] = "pause" /\ flow # "pause"
  BY <1>1, IsrGoes DEF IsrLabels, TypeOK
<1>3. TypeOK'
  BY <1>1, <1>2 DEF TypeOK, IsrLabels
<1>4. IsrInv' /\ MainInv'
  BY <1>1, <1>2 DEF IsrInv, MainInv, Deciding, Masked
<1>5. PauseInv' /\ RoomInv'
  BY <1>1, <1>2 DEF PauseInv, RoomInv, Text, Deciding
<1>6. KnowInv'
  BY <1>1, <1>2 DEF KnowInv, WillKnow
<1> QED  BY <1>3, <1>4, <1>5, <1>6

LEMMA MainSetEnabledKeeps ==
  ASSUME FlowInv, SetEnabled("main")  PROVE FlowInv'
<1> USE DEF FlowInv, SetEnabled, Running, hostVars
<1>1. /\ at["main"] = "setEnabled" /\ at["isr"] = "off" /\ pending = "no" /\ pending' = "no"
      /\ at'["main"] = "send" /\ at'["isr"] = "off"
      /\ at' \in [Threads -> MainLabels \cup IsrLabels]
  BY MainGoes DEF MainInv, Masked, MainLabels
<1>2. TypeOK'
  BY <1>1 DEF TypeOK, MainLabels, IsrLabels
<1>3. IsrInv' /\ MainInv'
  BY <1>1 DEF IsrInv, MainInv, Deciding, Masked
<1>4. PauseInv' /\ RoomInv'
  BY <1>1 DEF PauseInv, RoomInv, Text, Deciding
<1>5. KnowInv'
  BY <1>1 DEF KnowInv, WillKnow
<1> QED  BY <1>2, <1>3, <1>4, <1>5

LEMMA IsrSetEnabledKeeps ==
  ASSUME FlowInv, SetEnabled("isr")  PROVE FlowInv'
<1> USE DEF FlowInv, SetEnabled, Running, hostVars
<1>1. /\ at["isr"] = "setEnabled" /\ at'["isr"] = "send" /\ at'["main"] = at["main"]
      /\ at' \in [Threads -> MainLabels \cup IsrLabels]
      /\ ctrl["isr"] = "pause" /\ irqEnabled' = FALSE /\ pending' = pending
  BY IsrGoes DEF IsrLabels, IsrInv, Deciding
<1>2. TypeOK'
  BY <1>1 DEF TypeOK, MainLabels, IsrLabels
<1>3. IsrInv' /\ MainInv'
  BY <1>1 DEF IsrInv, MainInv, Deciding, Masked
<1>4. PauseInv' /\ RoomInv'
  BY <1>1 DEF PauseInv, RoomInv, Text, Deciding
<1>5. KnowInv'
  BY <1>1 DEF KnowInv, WillKnow
<1> QED  BY <1>2, <1>3, <1>4, <1>5

LEMMA ControlFits ==
  ASSUME TypeOK, Len(tx) <= 3, NEW v \in {"resume", "pause"}, BytesSend(v)
  PROVE  tx' = Append(tx, v) /\ tx' \in Seq(Bytes) /\ Len(tx') = Len(tx) + 1
<1>1. Len(tx) < TxDepth
  BY TxFacts, TxDepthAssumption
<1> QED  BY <1>1, AppendProperties DEF BytesSend, TypeOK, Bytes

LEMMA MainSendControlKeeps ==
  ASSUME FlowInv, SendControl("main")  PROVE FlowInv'
<1> USE DEF FlowInv, SendControl, Running, hostVars
<1>1. /\ at["main"] = "send" /\ at["isr"] = "off"
      /\ at'["main"] = "store" /\ at'["isr"] = "off"
      /\ at' \in [Threads -> MainLabels \cup IsrLabels]
      /\ ctrl["main"] \in {"resume", "pause"}
  BY MainGoes DEF MainInv, Deciding, MainLabels
<1>2. Len(tx) \in Nat /\ rx \in Nat
  BY TxFacts DEF TypeOK
<1>3. Len(tx) <= 3 /\ (ctrl["main"] = "pause" => Len(tx) <= 2)
  BY <1>1, <1>2, WatermarkAssumption DEF RoomInv, MainInv, Text, Deciding
<1>4. /\ tx' = Append(tx, ctrl["main"]) /\ tx' \in Seq(Bytes) /\ Len(tx') = Len(tx) + 1
  BY <1>1, <1>3, ControlFits
<1>5. TypeOK'
  BY <1>1, <1>4 DEF TypeOK, MainLabels, IsrLabels
<1>6. IsrInv' /\ MainInv'
  BY <1>1 DEF IsrInv, MainInv, Deciding, Masked
<1>7. PauseInv'
  BY <1>1 DEF PauseInv, Deciding
<1>8. RoomInv'
  BY <1>1, <1>2, <1>3, <1>4, WatermarkAssumption DEF RoomInv, Text
<1>9. KnowInv'
  BY <1>1, <1>4, SentControl DEF KnowInv
<1> QED  BY <1>5, <1>6, <1>7, <1>8, <1>9

LEMMA IsrSendControlKeeps ==
  ASSUME FlowInv, SendControl("isr")  PROVE FlowInv'
<1> USE DEF FlowInv, SendControl, Running, hostVars
<1>1. /\ at["isr"] = "send" /\ at'["isr"] = "store" /\ at'["main"] = at["main"]
      /\ at' \in [Threads -> MainLabels \cup IsrLabels]
      /\ ctrl["isr"] = "pause" /\ flow # "pause" /\ rx >= High
      /\ pending = "no" /\ pending' = "no"
  BY IsrGoes DEF IsrLabels, IsrInv, Deciding
<1>2. ~Deciding("main")
  BY <1>1 DEF MainInv, Masked
<1>3. Len(tx) \in Nat /\ rx \in Nat
  BY TxFacts DEF TypeOK
<1>4. Len(tx) <= Text + 2 /\ Text \in {0, 1} /\ Text' = Text
      /\ (at["main"] \in {"snapshot", "disable", "avail"} /\ ctrl["main"] = "resume"
            => Len(tx) = 0)
  BY <1>1, <1>2, <1>3, WatermarkAssumption DEF RoomInv, MainInv, Text, Deciding, TypeOK, States
<1>5. /\ tx' = Append(tx, "pause") /\ tx' \in Seq(Bytes) /\ Len(tx') = Len(tx) + 1
  BY <1>1, <1>3, <1>4, ControlFits
<1>6. TypeOK'
  BY <1>1, <1>5 DEF TypeOK, MainLabels, IsrLabels
<1>7. IsrInv' /\ MainInv'
  BY <1>1 DEF IsrInv, MainInv, Deciding, Masked
<1>8. PauseInv'
  BY <1>1 DEF PauseInv, Deciding
<1>9. RoomInv'
  BY <1>1, <1>2, <1>3, <1>4, <1>5, WatermarkAssumption DEF RoomInv, Deciding
<1>10. KnowInv'
  BY <1>1, <1>5, SentControl DEF KnowInv
<1> QED  BY <1>6, <1>7, <1>8, <1>9, <1>10

LEMMA MainStoreKeeps ==
  ASSUME FlowInv, Store("main")  PROVE FlowInv'
<1> USE DEF FlowInv, Store, Running, After, uartVars, hostVars
<1>1. /\ at["main"] = "store" /\ at["isr"] = "off"
      /\ at'["main"] = "restore" /\ at'["isr"] = "off"
      /\ at' \in [Threads -> MainLabels \cup IsrLabels]
      /\ ctrl["main"] \in {"resume", "pause"} /\ flow' = ctrl["main"]
  BY MainGoes DEF MainInv, Deciding, MainLabels
<1>2. TypeOK'
  BY <1>1 DEF TypeOK, MainLabels, IsrLabels, States
<1>3. IsrInv' /\ MainInv'
  BY <1>1 DEF IsrInv, MainInv, Deciding, Masked
<1>4. rx \in Nat /\ Len(tx) \in Nat
  BY TxFacts DEF TypeOK
<1>5. PauseInv' /\ RoomInv'
  BY <1>1, <1>4, WatermarkAssumption DEF PauseInv, RoomInv, MainInv, Text, Deciding
<1>6. KnowInv'
  BY <1>1 DEF KnowInv, WillKnow
<1> QED  BY <1>2, <1>3, <1>5, <1>6

LEMMA IsrStoreKeeps ==
  ASSUME FlowInv, Store("isr")  PROVE FlowInv'
<1> USE DEF FlowInv, Store, Running, After, uartVars, hostVars
<1>1. /\ at["isr"] = "store" /\ at'["isr"] = "ack" /\ at'["main"] = at["main"]
      /\ at' \in [Threads -> MainLabels \cup IsrLabels]
      /\ ctrl["isr"] = "pause" /\ flow # "pause" /\ rx >= High /\ flow' = "pause"
      /\ pending = "no" /\ pending' = "no"
  BY IsrGoes DEF IsrLabels, IsrInv, Deciding
<1>2. ~Deciding("main")
  BY <1>1 DEF MainInv, Masked
<1>3. TypeOK'
  BY <1>1 DEF TypeOK, MainLabels, IsrLabels, States
<1>4. IsrInv' /\ MainInv'
  BY <1>1, <1>2 DEF IsrInv, MainInv, Deciding, Masked
<1>5. rx \in Nat /\ Len(tx) \in Nat
  BY TxFacts DEF TypeOK
<1>6. PauseInv' /\ RoomInv'
  BY <1>1, <1>2, <1>5, WatermarkAssumption DEF PauseInv, RoomInv, Text, Deciding
<1>7. KnowInv'
  BY <1>1, <1>2 DEF KnowInv, WillKnow, Deciding
<1> QED  BY <1>3, <1>4, <1>6, <1>7

-----------------------------------------------------------------------------
LEMMA FlowInit == Init => FlowInv
<1> SUFFICES ASSUME Init  PROVE FlowInv
  OBVIOUS
<1> USE DEF Init
<1>1. at["main"] = "snapshot" /\ at["isr"] = "off" /\ ctrl["main"] = "resume"
  OBVIOUS
<1>2. tx \in Seq(Bytes) /\ Len(tx) = 0
  BY EmptySeq
<1>3. TypeOK
  <2>1. at \in [Threads -> MainLabels \cup IsrLabels] /\ ctrl \in [Threads -> States]
    BY DEF Threads, MainLabels, IsrLabels, States
  <2> QED  BY <1>1, <1>2, <2>1 DEF TypeOK, MainLabels, IsrLabels, States
<1>4. IsrInv /\ MainInv /\ PauseInv /\ KnowInv
  BY <1>1 DEF IsrInv, MainInv, PauseInv, KnowInv, Deciding
<1>5. RoomInv
  BY <1>1, <1>2 DEF RoomInv
<1> QED  BY <1>3, <1>4, <1>5 DEF FlowInv

LEMMA FlowStep == FlowInv /\ [Next]_vars => FlowInv'
<1> SUFFICES ASSUME FlowInv, [Next]_vars  PROVE FlowInv'
  OBVIOUS
<1>1. CASE UNCHANGED vars
  BY <1>1 DEF vars, uartVars, hostVars, FlowInv, TypeOK, IsrInv, MainInv, PauseInv, RoomInv,
              KnowInv, WillKnow, Deciding, Masked, Text
<1>2. ASSUME Manage("main")  PROVE FlowInv'
  BY <1>2, MainAvailKeeps, MainSetEnabledKeeps, MainSendControlKeeps, MainStoreKeeps DEF Manage
<1>3. ASSUME Manage("isr")  PROVE FlowInv'
  BY <1>3, IsrAvailKeeps, IsrSetEnabledKeeps, IsrSendControlKeeps, IsrStoreKeeps DEF Manage
<1>4. CASE MainStep
  BY <1>4, SnapshotKeeps, DisableKeeps, RestoreKeeps, GetcKeeps, ReceiveKeeps, PutbufKeeps,
     DrainedKeeps
  DEF MainStep
<1>5. CASE IsrStep
  BY <1>5, ClaimKeeps, CheckKeeps, CompleteKeeps DEF IsrStep
<1> QED  BY <1>1, <1>2, <1>3, <1>4, <1>5, LatchKeeps, ByteTimeKeeps DEF Next

LEMMA FlowInvHolds == Spec => []FlowInv
BY FlowInit, FlowStep, PTL DEF Spec

(* The state that the main program and the handler share is always what    *)
(* the host was told last, wherever the handler comes between two steps of *)
(* the main program: no control byte is refused by a full FIFO.            *)
THEOREM HostKnows == Spec => []HostKnowsFlow
<1>1. FlowInv => HostKnowsFlow
  BY DEF FlowInv, KnowInv, HostKnowsFlow
<1> QED  BY <1>1, FlowInvHolds, PTL

(* The program never waits for a byte of a host that waits for its XON.    *)
THEOREM NeverBothWait == Spec => []NoMutualWait
<1>1. FlowInv => NoMutualWait
  <2> SUFFICES ASSUME FlowInv, at["main"] = "receive", rx = 0, at["isr"] = "off"
               PROVE  WillKnow("resume")
    BY DEF NoMutualWait
  <2>1. flow # "auto" /\ flow # "pause"
    BY WatermarkAssumption DEF FlowInv, MainInv, PauseInv, Deciding
  <2>2. flow = "resume"
    BY <2>1 DEF FlowInv, TypeOK, States
  <2> QED  BY <2>2 DEF FlowInv, KnowInv
<1> QED  BY <1>1, FlowInvHolds, PTL

=============================================================================
