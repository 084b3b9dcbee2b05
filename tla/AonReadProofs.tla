--------------------------- MODULE AonReadProofs ---------------------------
(***************************************************************************)
(* The driver reads no count that the wake-up timer did not have a few     *)
(* ticks before, for counters of any width and any prescalers.             *)
(*                                                                         *)
(* SeenInv says what software's copies are.  Where no prescaler is below   *)
(* 5, no carry finds a half's crossing under way, and the copies lack one  *)
(* tick at most (RecentInv).  Where one is, a copy is of a count up to     *)
(* four ticks old, each half's of one of its own (LagInv), which a         *)
(* lower half that has not just wrapped makes good (TakenInv).             *)
(***************************************************************************)
EXTENDS AonTimerProofs

Quiet == call.todo = <<>>

(* Software's copy is what crossed last, or the clear on its way. *)
CopyInv ==
  \A r \in Halves :
    /\ r \in busy => vis[r] = 0 /\ (Pend(r) \/ due[r] = "ack")
    /\ r \notin busy /\ due[r] = "none" => vis[r] = transit[r]
    /\ Mine(r) => /\ r \in busy \/ due[r] = "none"
                  /\ ~Pend(r) => transit[r] = reg[r]

SkewInv ==
  /\ skew \in {"none", "open", "used"}
  /\ skew # "none" => \E r \in Regs : due[r] # "none"

SeenInv == CopyInv /\ SkewInv

-----------------------------------------------------------------------------
(* Halves *)

LEMMA HalvesAre ==
  /\ Halves = {"lo", "hi"} /\ "lo" \in Regs /\ "hi" \in Regs /\ "ctrl" \in Regs
  /\ "lo" \in Halves /\ "hi" \in Halves /\ "ctrl" \notin Halves
BY DEF Halves, Regs

LEMMA HalfTypes ==
  ASSUME AlarmInv
  PROVE  /\ \A r \in Halves : /\ reg[r] \in 0..(Half - 1) /\ vis[r] \in 0..(Half - 1)
                              /\ transit[r] \in 0..(Half - 1) /\ wait[r] \in 0..3
                              /\ due[r] \in {"none", "ack", "update"}
         /\ Count \in Nat
<1>1. \A r \in Halves : /\ reg[r] \in 0..(Half - 1) /\ vis[r] \in 0..(Half - 1)
                        /\ transit[r] \in 0..(Half - 1) /\ wait[r] \in 0..3
                        /\ due[r] \in {"none", "ack", "update"}
  BY HalvesAre DEF AlarmInv, BasicInv, TypeOK
<1>2. reg["lo"] \in 0..(Half - 1) /\ reg["hi"] \in 0..(Half - 1)
  BY <1>1, HalvesAre
<1>3. Count \in Nat
  BY <1>2, HalfAssumption DEF Count, Number
<1> QED BY <1>1, <1>3

(* Numbers are ordered by their upper halves first. *)
LEMMA Order ==
  ASSUME NEW h \in Nat, NEW k \in Nat, h <= k, NEW l \in 0..(Half - 1)
  PROVE  /\ h * Half \in Nat /\ k * Half \in Nat /\ h * Half <= k * Half
         /\ (h + 1) * Half = h * Half + Half
         /\ h < k => (h + 1) * Half <= k * Half
         /\ Number(h, l) = h * Half + l
<1>1. \A m, n \in Nat : m <= n => m * Half <= n * Half
  <2> SUFFICES ASSUME NEW m \in Nat, NEW n \in Nat, m <= n  PROVE m * Half <= n * Half
    OBVIOUS
  <2>1. n - m \in Nat /\ (n - m) * Half >= 0
    BY HalfAssumption
  <2>2. (n - m) * Half = n * Half - m * Half
    BY HalfAssumption
  <2> QED BY <2>1, <2>2, HalfAssumption
<1>2. h < k => (h + 1) * Half <= k * Half
  BY <1>1
<1> QED BY <1>1, <1>2, HalfAssumption DEF Number

-----------------------------------------------------------------------------
(* What software sees: accesses and what arrives *)

(* What is common to the three reads. *)
LEMMA ReadAccess ==
  ASSUME NEW r, Read(r)
  PROVE  /\ UNCHANGED <<timerVars, vis, busy, flight, transit, wait, held, due>>
         /\ r \notin busy /\ skew # "used"
         /\ skew' = IF skew = "none" THEN "none" ELSE "used"
BY DEF Read, Access

(* An access changes nothing of the crossings. *)
LEMMA AccessSeen ==
  ASSUME SeenInv, UNCHANGED <<timerVars, vis, busy, flight, transit, wait, held, due>>,
         call'.todo = call.todo, skew' \in {skew, "used"}, skew' = "none" <=> skew = "none"
  PROVE  SeenInv'
<1> USE DEF SeenInv, timerVars
<1>1. \A r : (Mine(r)' <=> Mine(r)) /\ (Pend(r)' <=> Pend(r))
  BY DEF Mine, Left, Pend
<1>2. CopyInv'
  BY <1>1 DEF CopyInv
<1>3. SkewInv'
  BY DEF SkewInv
<1> QED BY <1>2, <1>3

(* The four steps of a read. *)
LEMMA ReadsSeen ==
  ASSUME AlarmInv, GetCount \/ ReadLow \/ ReadCheck \/ Return
  PROVE  /\ UNCHANGED <<timerVars, vis, busy, flight, transit, wait, held, due>>
         /\ call'.todo = call.todo
         /\ skew' \in {skew, "used"} /\ (skew' = "none" <=> skew = "none")
         /\ prompt' = prompt
<1>1. DOMAIN call = {"todo", "read", "hi", "lo"}
  BY DEF AlarmInv, BasicInv, TypeOK, NoCall
<1>2. CASE GetCount
  <2>1. Read("hi") /\ call' = [call EXCEPT !.read = "lo", !.hi = vis["hi"]] /\ prompt' = prompt
    BY <1>2 DEF GetCount
  <2> QED BY <1>1, <2>1, ReadAccess
<1>3. CASE ReadLow
  <2>1. /\ Read("lo") /\ prompt' = prompt
        /\ call' = [call EXCEPT !.read = IF @ = "lo" THEN "check" ELSE "no", !.lo = vis["lo"]]
    BY <1>3 DEF ReadLow
  <2> QED BY <1>1, <2>1, ReadAccess
<1>4. CASE ReadCheck
  <2>1. /\ Read("hi") /\ prompt' = prompt
        /\ call' = [call EXCEPT !.read = IF vis["hi"] = call.hi THEN "no" ELSE "again", !.hi = vis["hi"]]
    BY <1>4 DEF ReadCheck, history
  <2> QED BY <1>1, <2>1, ReadAccess
<1>5. CASE Return
  BY <1>5 DEF Return, NoCall, crossingVars
<1> QED BY <1>2, <1>3, <1>4, <1>5

LEMMA DeliverSeen ==
  ASSUME AlarmInv, SeenInv, NEW S, Deliver(S)
  PROVE  SeenInv'
<1> USE DEF SeenInv
<1> DEFINE all == {r \in Regs : due[r] # "none"}
<1>1. /\ S \subseteq all
      /\ busy' = busy \ {r \in S : due[r] = "ack"}
      /\ skew' = IF S = all THEN "none" ELSE "open"
      /\ UNCHANGED <<reg, flight, transit, held, call>>
  BY DEF Deliver, timerVars
<1>2. ASSUME NEW r \in Regs
      PROVE  /\ vis'[r] = IF r \in S /\ r \in Halves /\ (due[r] = "ack" \/ r \notin busy)
                          THEN transit[r] ELSE vis[r]
             /\ due'[r] = IF r \in S THEN "none" ELSE due[r]
  BY DEF Deliver
<1>3. \A r \in Halves : r \in Regs
  BY DEF Regs
<1>4. \A r : (Mine(r)' <=> Mine(r)) /\ (Pend(r)' <=> Pend(r))
  BY <1>1 DEF Mine, Left, Pend
<1>5. CopyInv'
  <2> SUFFICES ASSUME NEW r \in Halves
               PROVE  /\ r \in busy' => vis'[r] = 0 /\ (Pend(r) \/ due'[r] = "ack")
                      /\ r \notin busy' /\ due'[r] = "none" => vis'[r] = transit[r]
                      /\ Mine(r) => /\ r \in busy' \/ due'[r] = "none"
                                    /\ ~Pend(r) => transit[r] = reg[r]
    BY <1>1, <1>4 DEF CopyInv
  <2> QED BY <1>1, <1>2, <1>3 DEF CopyInv
<1>6. SkewInv'
  <2>1. ASSUME S # all  PROVE \E r \in Regs : due'[r] # "none"
    <3>1. PICK r \in all : r \notin S
      BY <1>1, <2>1
    <3> QED BY <1>2, <3>1
  <2> QED BY <1>1, <2>1 DEF SkewInv
<1> QED BY <1>5, <1>6

-----------------------------------------------------------------------------
(* What software sees: writes *)

LEMMA WriteSeen ==
  ASSUME AlarmInv, SeenInv, NEW r \in Regs, NEW val, Write(r, val), r \in Halves => val = 0
  PROVE  /\ SkewInv'
         /\ skew' = "none" <=> skew = "none"
         /\ busy' = busy \cup {r}
         /\ \A x \in Halves : /\ x \in busy' => vis'[x] = 0 /\ (Pend(x)' \/ due'[x] = "ack")
                              /\ x \notin busy' /\ due'[x] = "none" => vis'[x] = transit'[x]
<1> USE DEF SeenInv
<1>1. /\ UNCHANGED <<reg, prescaleCount, transit, wait, held, due>>
      /\ vis'[r] = val /\ Pend(r)'
      /\ \A x \in Regs \ {r} : vis'[x] = vis[x] /\ (Pend(x)' <=> Pend(x))
  BY WriteFacts
<1>2. busy' = busy \cup {r} /\ skew' = IF skew = "none" THEN "none" ELSE "used"
  BY DEF Write, Access
<1>3. SkewInv'
  BY <1>1, <1>2 DEF SkewInv
<1>4. ASSUME NEW x \in Halves
      PROVE  /\ x \in busy' => vis'[x] = 0 /\ (Pend(x)' \/ due'[x] = "ack")
             /\ x \notin busy' /\ due'[x] = "none" => vis'[x] = transit'[x]
  <2>1. CASE x = r
    BY <1>1, <1>2, <2>1
  <2>2. CASE x # r
    <3>1. x \in Regs \ {r}
      BY <2>2 DEF Regs
    <3> QED BY <1>1, <1>2, <2>2, <3>1 DEF CopyInv
  <2> QED BY <2>1, <2>2
<1> QED BY <1>2, <1>3, <1>4

(* A call begins by stopping the timer, whose crossings go on. *)
LEMMA StoppingSeen ==
  ASSUME AlarmInv, SeenInv, NEW writes, Stopping(writes),
         writes = <<>> \/ Halves \subseteq Targets(writes)
  PROVE  /\ SeenInv' /\ Quiet /\ call'.todo = writes /\ call'.read = "no"
         /\ UNCHANGED <<reg, prescaleCount, transit, wait, held, due, from>>
         /\ (skew' = "none" <=> skew = "none")
         /\ \A r \in Halves : /\ vis'[r] = vis[r] /\ (Pend(r)' <=> Pend(r)) /\ Over(r)' = Over(r)
                              /\ r \in busy' <=> r \in busy
<1>1. /\ call = NoCall /\ Write("ctrl", Toggled(FALSE)) /\ from' = from
      /\ call' = [NoCall EXCEPT !.todo = writes] /\ "ctrl" \in Regs /\ "ctrl" \notin Halves
  BY HalvesAre DEF Stopping
<1>2. call'.todo = writes /\ call'.read = "no" /\ Quiet
  BY <1>1 DEF NoCall, Quiet
<1>3. \A r \in Halves : ~Mine(r)'
  BY <1>2 DEF Mine, Left
<1>4. /\ UNCHANGED <<reg, prescaleCount, transit, wait, held, due>>
      /\ \A r \in Halves : Over(r)' = Over(r)
      /\ \A r \in Regs \ {"ctrl"} : vis'[r] = vis[r] /\ (Pend(r)' <=> Pend(r))
  BY <1>1, WriteFacts
<1>5. \A r \in Halves : r \in Regs \ {"ctrl"}
  BY DEF Halves, Regs
<1>6. /\ SkewInv' /\ (skew' = "none" <=> skew = "none")
      /\ busy' = busy \cup {"ctrl"}
      /\ \A x \in Halves : /\ x \in busy' => vis'[x] = 0 /\ (Pend(x)' \/ due'[x] = "ack")
                           /\ x \notin busy' /\ due'[x] = "none" => vis'[x] = transit'[x]
  BY <1>1, WriteSeen
<1>7. CopyInv'
  BY <1>3, <1>6 DEF CopyInv
<1> QED BY <1>1, <1>2, <1>4, <1>5, <1>6, <1>7 DEF SeenInv

(* The calls that clear the counter, and the one that does not. *)
LEMMA CallSeen ==
  ASSUME AlarmInv, Start \/ Stop \/ Restart
  PROVE  \E writes : /\ Stopping(writes)
                     /\ \/ writes = <<>> /\ prompt' = prompt
                        \/ writes # <<>> /\ Halves \subseteq Targets(writes)
<1>1. CASE Start
  <2>1. PICK thold \in Thresholds, p \in Prescalers : Stopping(StartWrites(thold, p))
    BY <1>1 DEF Start
  <2>2. Halves \subseteq Targets(StartWrites(thold, p))
    BY StartIsWrites
  <2>3. StartWrites(thold, p) # <<>>
    BY <2>2, NoWrites, HalvesAre
  <2> QED BY <2>1, <2>2, <2>3
<1>2. CASE Stop
  BY <1>2 DEF Stop
<1>3. CASE Restart
  <2>1. vis["ctrl"] \in [on : BOOLEAN, prescaler : 0..PrescalerMask]
    BY DEF AlarmInv, BasicInv, TypeOK
  <2>2. On(Toggled(TRUE))
    BY <1>3, <2>1 DEF Restart, On, Toggled
  <2>3. Halves \subseteq Targets(RestartWrites)
    BY <2>2, RestartIsWrites
  <2>4. RestartWrites # <<>>
    BY <2>3, NoWrites, HalvesAre
  <2> QED BY <1>3, <2>3, <2>4 DEF Restart
<1> QED BY <1>1, <1>2, <1>3

(* With the last write, which enables the timer, a read may begin: both    *)
(* halves are cleared, or about to be.                                     *)
LEMMA NextWriteSeen ==
  ASSUME AlarmInv, SeenInv, NextWrite
  PROVE  /\ SeenInv' /\ ~Quiet /\ call'.read = call.read /\ from' = from
         /\ UNCHANGED <<reg, prescaleCount, transit, wait, held, due, prompt>>
         /\ Quiet' => \A x \in Halves :
              /\ Pend(x)' <=> Pend(x)
              /\ x \in busy' <=> x \in busy
              /\ vis'[x] = vis[x] /\ Over(x)' = Over(x)
              /\ ~Pend(x) => reg[x] = 0 /\ transit[x] = reg[x]
              /\ x \in busy \/ due[x] = "none"
<1> USE DEF SeenInv
<1>0. PICK w, v : w = Target /\ v = Value
  OBVIOUS
<1>1. /\ call.todo # <<>> /\ Writes(call.todo, threshold) /\ Write(w, v)
      /\ call' = [call EXCEPT !.todo = Tail(@)] /\ from' = from /\ prompt' = prompt
  BY <1>0 DEF NextWrite, AlarmInv, BasicInv, TypeOK, Target, Value
<1>2. call'.todo = Tail(call.todo) /\ call'.read = call.read
  BY <1>1 DEF AlarmInv, BasicInv, TypeOK, NoCall
<1>3. /\ w \in Regs /\ w \in Left /\ (w \in Halves => v = 0)
      /\ w = "ctrl" => Left = {"ctrl"}
      /\ Tail(call.todo) = <<>> <=> w = "ctrl"
      /\ Left' = Left \ {w}
  BY <1>0, <1>1, <1>2, TailIsWrites DEF Left, Target, Value
<1>4. /\ UNCHANGED <<reg, prescaleCount, transit, wait, held, due>>
      /\ w \notin busy /\ Pend(w)'
      /\ \A x \in Regs \ {w} : vis'[x] = vis[x] /\ (Pend(x)' <=> Pend(x))
      /\ \A x \in Halves : Over(x)' = Over(x)
  BY <1>1, <1>3, WriteFacts
<1>5. /\ SkewInv' /\ busy' = busy \cup {w}
      /\ \A x \in Halves : /\ x \in busy' => vis'[x] = 0 /\ (Pend(x)' \/ due'[x] = "ack")
                           /\ x \notin busy' /\ due'[x] = "none" => vis'[x] = transit'[x]
  BY <1>1, <1>3, WriteSeen
<1>6. \A x \in Halves : x \in Regs
  BY DEF Regs
<1>7. CopyInv'
  <2> SUFFICES ASSUME NEW x \in Halves, Mine(x)'
               PROVE  /\ x \in busy' \/ due[x] = "none"
                      /\ ~Pend(x)' => transit[x] = reg[x]
    BY <1>4, <1>5 DEF CopyInv
  <2>1. CASE x = w
    BY <1>4, <1>5, <2>1
  <2>2. CASE x # w
    <3>1. Mine(x) /\ (Pend(x)' <=> Pend(x))
      BY <1>1, <1>3, <1>4, <1>6, <2>2 DEF Mine
    <3> QED BY <1>5, <3>1 DEF CopyInv
  <2> QED BY <2>1, <2>2
<1>8. ASSUME Quiet', NEW x \in Halves
      PROVE  /\ Pend(x)' <=> Pend(x)
             /\ x \in busy' <=> x \in busy
             /\ vis'[x] = vis[x] /\ Over(x)' = Over(x)
             /\ ~Pend(x) => reg[x] = 0 /\ transit[x] = reg[x]
             /\ x \in busy \/ due[x] = "none"
  <2>1. w = "ctrl"
    BY <1>2, <1>3, <1>8 DEF Quiet
  <2>2. Mine(x) /\ x \in Regs \ {"ctrl"}
    BY <1>1, <1>3, <1>6, <2>1, HalvesAre DEF Mine
  <2>3. ~Pend(x) => reg[x] = 0 /\ transit[x] = reg[x]
    BY <2>2 DEF AlarmInv, BasicInv, MineInv, CopyInv
  <2> QED BY <1>4, <1>5, <2>1, <2>2, <2>3 DEF CopyInv
<1> QED BY <1>1, <1>2, <1>4, <1>5, <1>7, <1>8 DEF Quiet

-----------------------------------------------------------------------------
(* What software sees: a slow cycle *)

(* Before an edge everything under way to software has been seen. *)
LEMMA BeforeEdge ==
  ASSUME AlarmInv, SeenInv, Edge
  PROVE  /\ skew = "none" /\ skew' = "none" /\ UNCHANGED <<vis, busy, call, from>>
         /\ \A r \in Halves : /\ r \in Regs /\ due[r] = "none" /\ (r \in busy <=> Pend(r))
                              /\ r \in busy => vis[r] = 0
                              /\ r \notin busy => vis[r] = transit[r] /\ ~Accept(r)
<1>1. \A r \in Regs : due[r] = "none"
  BY DEF Edge
<1>2. skew = "none" /\ UNCHANGED <<skew, vis, busy, call, from>>
  BY <1>1 DEF SeenInv, SkewInv, Edge
<1>3. ASSUME NEW r \in Halves
      PROVE  /\ r \in Regs /\ due[r] = "none" /\ (r \in busy <=> Pend(r))
             /\ r \in busy => vis[r] = 0
             /\ r \notin busy => vis[r] = transit[r]
  BY <1>1 DEF AlarmInv, BasicInv, BusyInv, SeenInv, CopyInv, Regs
<1>4. \A r \in Halves : Accept(r) => Pend(r)
  BY EdgeHalf DEF AlarmInv, BasicInv
<1> QED BY <1>2, <1>3, <1>4

(* The crossing of a half that takes no write.  A change that crossed      *)
(* before the timer made it would be taken back.                           *)
LEMMA EdgeCopy ==
  ASSUME TypeOK, Edge, NEW r \in Halves, ~Accept(r)
  PROVE  /\ due[r] = "none"
         /\ reg'[r] = IF Incr THEN NextHalf(r) ELSE reg[r]
         /\ due'[r] = "none" => transit'[r] = transit[r]
         /\ wait[r] # 0 => transit'[r] = transit[r] /\ wait'[r] = wait[r] - 1 /\ due'[r] = "none"
         /\ wait[r] = 0 /\ transit[r] = reg'[r] /\ (Incr => transit[r] = reg[r]) =>
              transit'[r] = transit[r] /\ wait'[r] = 0 /\ due'[r] = "none"
         /\ wait[r] = 0 /\ transit[r] # reg'[r] =>
              transit'[r] = reg'[r] /\ wait'[r] = 3 /\ due'[r] = "update"
<1>1. r \in Regs /\ wait[r] \in 0..3
  BY DEF TypeOK, Regs
<1>2. reg'[r] = Ds(r) /\ due'[r] = Event(r) /\ due[r] = "none"
  BY <1>1 DEF Edge
<1>3. reg'[r] = IF Incr THEN NextHalf(r) ELSE reg[r]
  BY <1>2 DEF Ds
<1>4. /\ transit'[r] = IF LatchD(r) THEN Ds(r) ELSE IF LatchQ(r) THEN reg[r] ELSE transit[r]
      /\ wait'[r] = IF LatchD(r) \/ LatchQ(r) THEN 3 ELSE IF wait[r] = 0 THEN 0 ELSE wait[r] - 1
  BY DEF Edge
<1>5. LatchD(r) <=> wait[r] = 0 /\ Incr /\ transit[r] # reg'[r]
  BY <1>2 DEF LatchD
<1>6. LatchQ(r) <=> wait[r] = 0 /\ ~LatchD(r) /\ transit[r] # reg[r]
  BY DEF LatchQ
<1>7. due'[r] = IF LatchD(r) \/ LatchQ(r) THEN "update" ELSE "none"
  BY <1>2 DEF Event
<1> QED BY <1>1, <1>2, <1>3, <1>4, <1>5, <1>6, <1>7

(* A half that takes a write has it cross back at once. *)
LEMMA EdgeAccept ==
  ASSUME TypeOK, Edge, NEW r \in Halves, Accept(r)
  PROVE  /\ reg'[r] = vis[r] /\ transit'[r] = reg'[r] /\ wait'[r] = 3 /\ due'[r] = "ack"
         /\ Over(r)' = 3
<1>1. r \in Regs /\ wait[r] = 0
  BY DEF Regs, Accept
<1>2. reg'[r] = Ds(r) /\ due'[r] = Event(r) /\ Ds(r) = vis[r]
  BY <1>1 DEF Edge, Ds
<1>3. LatchD(r)
  BY <1>1 DEF LatchD
<1>4. transit'[r] = Ds(r) /\ wait'[r] = 3
  BY <1>3 DEF Edge
<1>5. due'[r] = "ack"
  BY <1>2 DEF Event
<1>6. Over(r)' = 3
  BY <1>2, <1>4 DEF Over
<1> QED BY <1>2, <1>4, <1>5, <1>6

LEMMA EdgeSeen ==
  ASSUME AlarmInv, SeenInv, Edge
  PROVE  SeenInv'
<1> USE DEF AlarmInv, BasicInv, SeenInv
<1>1. SkewInv'
  BY BeforeEdge DEF SkewInv
<1>2. call' = call /\ Left' = Left /\ \A r : Mine(r)' <=> Mine(r)
  BY BeforeEdge DEF Left, Mine
<1>3. CopyInv'
  <2> SUFFICES ASSUME NEW r \in Halves
               PROVE  /\ r \in busy => vis[r] = 0 /\ (Pend(r)' \/ due'[r] = "ack")
                      /\ r \notin busy /\ due'[r] = "none" => vis[r] = transit'[r]
                      /\ Mine(r) => /\ r \in busy \/ due'[r] = "none"
                                    /\ ~Pend(r)' => transit'[r] = reg'[r]
    BY <1>2, BeforeEdge DEF CopyInv
  <2>1. CASE Accept(r)
    BY <2>1, EdgeAccept, BeforeEdge
  <2>2. CASE ~Accept(r)
    <3>1. Pend(r)' <=> Pend(r)
      BY <2>2, EdgeHalf
    <3>2. /\ due'[r] = "none" => transit'[r] = transit[r]
          /\ wait[r] # 0 => transit'[r] = transit[r] /\ due'[r] = "none"
          /\ wait[r] = 0 /\ transit[r] = reg'[r] /\ ~Incr => transit'[r] = transit[r] /\ due'[r] = "none"
          /\ ~Incr => reg'[r] = reg[r]
      BY <2>2, EdgeCopy
    <3>3. ASSUME Mine(r), ~Pend(r)  PROVE due'[r] = "none" /\ transit'[r] = reg'[r]
      <4>1. transit[r] = reg[r] /\ flight["ctrl"] = 0 /\ ~vis["ctrl"].on
        BY <3>3 DEF CopyInv, MineInv, CtrlInv, Mine
      <4>2. ~Incr
        BY <4>1 DEF CtrlInv, Incr
      <4> QED BY <3>2, <4>1, <4>2
    <3> QED BY <3>1, <3>2, <3>3, BeforeEdge
  <2> QED BY <2>1, <2>2
<1> QED BY <1>1, <1>3

LEMMA SeenStep ==
  ASSUME AlarmInv, SeenInv, [Next]_vars
  PROVE  SeenInv'
<1>1. CASE Start \/ Stop \/ Restart
  BY <1>1, CallSeen, StoppingSeen
<1>2. CASE GetCount \/ ReadLow \/ ReadCheck \/ Return
  BY <1>2, ReadsSeen, AccessSeen
<1>3. CASE UNCHANGED vars
  <2>1. UNCHANGED <<timerVars, vis, busy, flight, transit, wait, held, due, skew, call>>
    BY <1>3 DEF vars, crossingVars
  <2> QED BY <2>1, AccessSeen DEF SeenInv, SkewInv
<1> QED BY <1>1, <1>2, <1>3, EdgeSeen, DeliverSeen, NextWriteSeen DEF Next

-----------------------------------------------------------------------------
(* The count *)

(* A number has but one pair of halves. *)
LEMMA OneNumber ==
  ASSUME NEW h \in Nat, NEW k \in Nat, NEW l \in 0..(Half - 1), NEW m \in 0..(Half - 1),
         h * Half + l = k * Half + m
  PROVE  h = k /\ l = m
<1>1. h * Half \in Nat /\ k * Half \in Nat
  BY HalfAssumption
<1>2. ~(h < k)
  <2> SUFFICES ASSUME h < k  PROVE FALSE
    OBVIOUS
  <2>1. (h + 1) * Half <= k * Half /\ (h + 1) * Half = h * Half + Half
    BY Order
  <2> QED BY <1>1, <2>1, HalfAssumption
<1>3. ~(k < h)
  <2> SUFFICES ASSUME k < h  PROVE FALSE
    OBVIOUS
  <2>1. (k + 1) * Half <= h * Half /\ (k + 1) * Half = k * Half + Half
    BY Order
  <2> QED BY <1>1, <2>1, HalfAssumption
<1>4. h = k
  BY <1>2, <1>3
<1> QED BY <1>1, <1>4, HalfAssumption

(* The halves put together are the halves of the number. *)
LEMMA NumberParts ==
  ASSUME NEW h \in 0..(Half - 1), NEW l \in 0..(Half - 1)
  PROVE  Number(h, l) \in Nat /\ Part("hi", Number(h, l)) = h /\ Part("lo", Number(h, l)) = l
<1> DEFINE n == Number(h, l)
           k == n \div Half
           m == n % Half
<1>1. h \in Nat /\ n = h * Half + l /\ n \in Nat
  BY HalfAssumption DEF Number
<1> HIDE DEF n
<1>2. m \in 0..(Half - 1) /\ k \in Nat /\ k * Half + m = n
  BY <1>1, DivMod DEF Number
<1> HIDE DEF k, m
<1>3. k = h /\ m = l
  BY <1>1, <1>2, OneNumber
<1> QED BY <1>1, <1>3 DEF Part, k, m, n

LEMMA CountParts ==
  ASSUME AlarmInv, NEW r \in Halves
  PROVE  reg[r] = Part(r, Count)
BY HalfTypes, HalvesAre, NumberParts DEF Count

-----------------------------------------------------------------------------
(* Outside a call that writes, the timer ticks only when it has seen both  *)
(* clears, and so counts as a whole.                                       *)
LEMMA QuietPart ==
  ASSUME AlarmInv, prompt \/ Slow, Quiet, Edge, Incr
  PROVE  /\ \A r \in Halves : ~Pend(r) /\ ~Accept(r) /\ reg'[r] = Part(r, Count + 1)
         /\ Count \in Nat /\ Count' = Count + 1
<1> USE DEF AlarmInv, BasicInv
<1>1. reg["ctrl"].on /\ prescaleCount = reg["ctrl"].prescaler
  BY DEF Incr
<1>2. prescaleCount \in Prescalers
  BY <1>1 DEF CtrlInv, On
<1>3. Left = {}
  BY NoWrites DEF Quiet, Left
<1>4. ASSUME NEW r \in Halves  PROVE ~Pend(r)
  <2>1. ~Mine(r) /\ r \notin Left
    BY <1>3 DEF Mine, Quiet
  <2>2. CASE vis["ctrl"].on
    BY <2>2, TickFacts
  <2>3. CASE ~vis["ctrl"].on /\ prompt
    BY <2>1, <2>3 DEF SoonInv
  <2>4. CASE ~vis["ctrl"].on /\ Slow
    <3>1. prescaleCount \in Nat /\ prescaleCount >= 5 /\ wait[r] \in 0..3
      BY <1>2, <2>4, PrescalerAssumption, HalfTypes DEF Slow
    <3>2. ~Enabling
      BY <2>4 DEF Enabling
    <3> QED BY <2>1, <2>4, <3>1, <3>2 DEF SlowInv, OvertakenInv
  <2> QED BY <2>2, <2>3, <2>4
<1>5. Count \in Nat /\ Count < MaxCount
  BY HalfTypes DEF Edge
<1>6. ASSUME NEW r \in Halves  PROVE ~Accept(r) /\ reg'[r] = Part(r, Count + 1)
  <2>1. ~Accept(r)
    BY <1>4, EdgeHalf
  <2>2. reg'[r] = NextHalf(r)
    BY <2>1, EdgeHalf
  <2> QED BY <1>5, <2>1, <2>2, NextPart
<1>7. Count' = Count + 1
  <2> DEFINE n == Count + 1
  <2>1. n \in Nat /\ reg'["lo"] = n % Half /\ reg'["hi"] = n \div Half
    BY <1>5, <1>6, HalvesAre DEF Part
  <2> HIDE DEF n
  <2>2. Number(n \div Half, n % Half) = n
    BY <2>1, DivMod
  <2>3. Count' = n
    BY <2>1, <2>2 DEF Count
  <2> QED BY <2>3 DEF n
<1> QED BY <1>4, <1>5, <1>6, <1>7

-----------------------------------------------------------------------------
(* Prescalers of 5 and more: what software's copies lack, and what the     *)
(* driver's call has seen of it.                                           *)

(* Both halves are cleared before the timer counts. *)
ClearInv == Quiet => \A r, q \in Halves : Pend(r) => Pend(q) \/ reg[q] = 0

(* The lower half misses a tick only when it has just been cleared, so     *)
(* never the tick that carries.                                            *)
LowInv ==
  Quiet /\ ~Pend("lo") =>
    /\ \/ Over("lo") = 0 \/ Over("lo") + prescaleCount <= 3
       \/ reg["lo"] = 0 /\ Over("lo") <= 3
       \/ reg["lo"] = 1 /\ Over("lo") + prescaleCount <= 6
       \/ reg["lo"] = 2 /\ Over("lo") + prescaleCount <= 4
    /\ transit["lo"] \in {reg["lo"], reg["lo"] - 1}

(* The upper half misses none. *)
HighInv ==
  Quiet /\ ~Pend("hi") =>
    /\ transit["hi"] = reg["hi"]
    /\ Over("hi") = 0 \/ Over("hi") + prescaleCount <= 3 \/ Pend("lo") \/ reg["lo"] = 0

(* What is about to reach software: of a carry both halves, or one of them *)
(* while the other has been seen.                                          *)
DueInv ==
  Quiet =>
    /\ "hi" \notin busy /\ due["hi"] = "update" =>
         /\ vis["hi"] = reg["hi"] - 1 /\ reg["lo"] = 0 /\ "lo" \notin busy
         /\ IF due["lo"] = "update" THEN vis["lo"] = Half - 1 ELSE skew # "none"
    /\ "lo" \notin busy /\ due["lo"] = "update" =>
         /\ transit["lo"] = reg["lo"]
         /\ \/ vis["lo"] = reg["lo"] - 1
            \/ /\ reg["lo"] = 0 /\ vis["lo"] = Half - 1
               /\ ("hi" \notin busy /\ due["hi"] = "update") \/ skew # "none"

(* The upper half in hand is not ahead of the timer's, nor the count at    *)
(* the beginning of the call ahead of it.  The lower half read next is not *)
(* from before a carry that the upper half has seen, and once it has been  *)
(* read, both are from one moment unless the check will fail.              *)
ReadInv ==
  /\ call.read \in {"no", "lo", "check", "again"}
  /\ from \in Nat
  /\ call.read # "no" =>
       /\ Quiet /\ "hi" \notin busy /\ call.hi \in 0..(Half - 1) /\ call.hi <= vis["hi"]
       /\ from <= Count /\ ("lo" \in busy => from = 0)
       /\ from <= (call.hi + 1) * Half
  /\ call.read = "again" => from <= call.hi * Half
  /\ call.read \in {"lo", "again"} /\ call.hi = reg["hi"] => vis["lo"] <= reg["lo"] \/ skew = "used"
  /\ call.read = "check" =>
       /\ "lo" \notin busy /\ call.lo \in 0..(Half - 1)
       /\ Number(call.hi, call.lo) <= Count
       /\ reg["hi"] = call.hi \/ (vis["hi"] = call.hi /\ skew # "used") =>
             Number(call.hi, call.lo) >= from - 1

ShownInv == ClearInv /\ LowInv /\ HighInv /\ DueInv

RecentInv == AlarmInv /\ SeenInv /\ ShownInv /\ ReadInv

(* Software's copy of the upper half is up to date, or one carry behind.   *)
LEMMA HighShown ==
  ASSUME AlarmInv, SeenInv, ShownInv, Quiet, "hi" \notin busy
  PROVE  /\ ~Pend("hi") /\ transit["hi"] = reg["hi"] /\ due["hi"] \in {"none", "update"}
         /\ due["hi"] = "none" => vis["hi"] = reg["hi"]
         /\ due["hi"] = "update" => vis["hi"] = reg["hi"] - 1 /\ reg["lo"] = 0
         /\ vis["hi"] <= reg["hi"]
<1>1. ~Pend("hi") /\ due["hi"] # "ack"
  BY HalvesAre DEF AlarmInv, BasicInv, BusyInv
<1>2. due["hi"] \in {"none", "update"}
  BY <1>1, HalvesAre, HalfTypes
<1>3. transit["hi"] = reg["hi"]
  BY <1>1 DEF ShownInv, HighInv
<1>4. due["hi"] = "none" => vis["hi"] = reg["hi"]
  BY <1>3, HalvesAre DEF SeenInv, CopyInv
<1>5. due["hi"] = "update" => vis["hi"] = reg["hi"] - 1 /\ reg["lo"] = 0
  BY DEF ShownInv, DueInv
<1>6. vis["hi"] <= reg["hi"]
  <2>1. reg["hi"] \in Nat
    BY HalfTypes, HalvesAre, HalfAssumption
  <2> QED BY <1>2, <1>4, <1>5, <2>1
<1> QED BY <1>1, <1>2, <1>3, <1>4, <1>5, <1>6

(* Its copy of the lower half is one tick behind at most, and ahead only   *)
(* from before a carry that has not been seen, or is just being seen.      *)
LEMMA LowShown ==
  ASSUME AlarmInv, SeenInv, ShownInv, Quiet
  PROVE  /\ "lo" \notin busy => ~Pend("lo") /\ vis["lo"] >= reg["lo"] - 1
         /\ transit["lo"] <= reg["lo"] \/ Pend("lo")
         /\ due["lo"] = "update" \/ vis["lo"] <= reg["lo"] \/ due["lo"] = "ack"
         /\ "lo" \in busy => vis["lo"] <= reg["lo"]
         /\ "hi" \notin busy /\ vis["hi"] = reg["hi"] => vis["lo"] <= reg["lo"] \/ skew # "none"
<1>1. /\ reg["lo"] \in 0..(Half - 1) /\ vis["lo"] \in 0..(Half - 1) /\ reg["hi"] \in 0..(Half - 1)
      /\ transit["lo"] \in 0..(Half - 1)
      /\ due["lo"] \in {"none", "ack", "update"}
  BY HalfTypes, HalvesAre
<1>2. ~Pend("lo") => transit["lo"] \in {reg["lo"], reg["lo"] - 1}
  BY DEF ShownInv, LowInv
<1>3. "lo" \in busy => vis["lo"] = 0
  BY HalvesAre DEF SeenInv, CopyInv
<1>4. "lo" \notin busy => ~Pend("lo") /\ due["lo"] # "ack"
  BY HalvesAre DEF AlarmInv, BasicInv, BusyInv
<1>5. "lo" \notin busy /\ due["lo"] = "none" => vis["lo"] = transit["lo"]
  BY HalvesAre DEF SeenInv, CopyInv
<1>6. "lo" \notin busy /\ due["lo"] = "update" =>
         \/ vis["lo"] = reg["lo"] - 1
         \/ /\ reg["lo"] = 0 /\ vis["lo"] = Half - 1
            /\ ("hi" \notin busy /\ due["hi"] = "update") \/ skew # "none"
  BY DEF ShownInv, DueInv
<1>7. "hi" \notin busy /\ due["hi"] = "update" => vis["hi"] = reg["hi"] - 1
  BY DEF ShownInv, DueInv
<1> QED BY <1>1, <1>2, <1>3, <1>4, <1>5, <1>6, <1>7, HalfAssumption

LEMMA AccessShown ==
  ASSUME ShownInv, UNCHANGED <<timerVars, vis, busy, flight, transit, wait, held, due>>,
         call'.todo = call.todo, skew' \in {skew, "used"}, skew' = "none" <=> skew = "none"
  PROVE  ShownInv'
<1> USE DEF ShownInv, timerVars
<1>1. /\ Quiet' <=> Quiet
      /\ \A r : (Pend(r)' <=> Pend(r)) /\ Over(r)' = Over(r)
  BY DEF Quiet, Pend, Over
<1>4. ClearInv' /\ LowInv' /\ HighInv'
  BY <1>1 DEF ClearInv, LowInv, HighInv
<1>5. DueInv'
  BY <1>1 DEF DueInv
<1> QED BY <1>4, <1>5

LEMMA GetCountRecent ==
  ASSUME RecentInv, GetCount
  PROVE  ShownInv' /\ ReadInv'
<1> USE DEF RecentInv
<1>1. /\ call = NoCall /\ Read("hi") /\ call' = [call EXCEPT !.read = "lo", !.hi = vis["hi"]]
      /\ from' = IF "lo" \in busy THEN 0 ELSE Count
  BY DEF GetCount
<1>2. /\ call'.todo = call.todo /\ call'.read = "lo" /\ call'.hi = vis["hi"] /\ call.todo = <<>>
  BY <1>1 DEF NoCall
<1>3. /\ UNCHANGED <<timerVars, vis, busy, flight, transit, wait, held, due>>
      /\ "hi" \notin busy /\ skew # "used" /\ skew' = IF skew = "none" THEN "none" ELSE "used"
  BY <1>1, ReadAccess
<1>4. UNCHANGED <<reg, vis, busy>> /\ Count' = Count
  BY <1>3 DEF timerVars, Count, Number
<1>5. Quiet /\ Quiet'
  BY <1>2 DEF Quiet
<1>6. ShownInv'
  BY <1>2, <1>3, AccessShown
<1>7. /\ reg["hi"] \in 0..(Half - 1) /\ vis["hi"] \in 0..(Half - 1) /\ reg["lo"] \in 0..(Half - 1)
      /\ Count \in Nat /\ vis["lo"] \in 0..(Half - 1)
  BY HalfTypes, HalvesAre
<1>8. /\ vis["hi"] = reg["hi"] \/ (vis["hi"] = reg["hi"] - 1 /\ reg["lo"] = 0)
  BY <1>3, <1>5, HighShown
<1>9. Count <= (vis["hi"] + 1) * Half
  <2>1. Count = reg["hi"] * Half + reg["lo"] /\ (reg["hi"] + 1) * Half = reg["hi"] * Half + Half
        /\ reg["hi"] * Half \in Nat
    <3>1. reg["hi"] \in Nat /\ reg["hi"] <= reg["hi"]
      BY <1>7, HalfAssumption
    <3> QED BY <1>7, <3>1, Order DEF Count
  <2>2. CASE vis["hi"] = reg["hi"]
    BY <1>7, <2>1, <2>2, HalfAssumption
  <2>3. CASE vis["hi"] = reg["hi"] - 1 /\ reg["lo"] = 0
    <3>1. vis["hi"] + 1 = reg["hi"]
      BY <1>7, <2>3
    <3> QED BY <2>1, <2>3, <3>1
  <2> QED BY <1>8, <2>2, <2>3
<1>10. 0 <= (vis["hi"] + 1) * Half
  BY <1>7, HalfAssumption
<1>11. vis["hi"] = reg["hi"] => vis["lo"] <= reg["lo"] \/ skew' = "used"
  BY <1>3, <1>5, LowShown
<1>12. /\ from' \in Nat /\ from' <= Count' /\ ("lo" \in busy' => from' = 0)
       /\ from' <= (call'.hi + 1) * Half /\ vis["hi"] <= vis'["hi"]
  BY <1>1, <1>2, <1>4, <1>7, <1>9, <1>10
<1>13. ReadInv'
  BY <1>2, <1>3, <1>4, <1>5, <1>7, <1>11, <1>12 DEF ReadInv
<1> QED BY <1>6, <1>13

LEMMA ReadLowRecent ==
  ASSUME RecentInv, ReadLow
  PROVE  /\ ShownInv' /\ ReadInv'
         /\ call.read = "again" => Result <= Count /\ Result >= from - 1
<1> USE DEF RecentInv
<1>1. /\ call.read \in {"lo", "again"} /\ Read("lo") /\ from' = from
      /\ call' = [call EXCEPT !.read = IF @ = "lo" THEN "check" ELSE "no", !.lo = vis["lo"]]
  BY DEF ReadLow
<1>2. DOMAIN call = {"todo", "read", "hi", "lo"}
  BY DEF AlarmInv, BasicInv, TypeOK, NoCall
<1>3. /\ call'.todo = call.todo /\ call'.hi = call.hi /\ call'.lo = vis["lo"]
      /\ call'.read = IF call.read = "lo" THEN "check" ELSE "no"
      /\ from' = from
  BY <1>1, <1>2
<1>4. /\ UNCHANGED <<timerVars, vis, busy, flight, transit, wait, held, due>>
      /\ "lo" \notin busy /\ skew # "used" /\ skew' = IF skew = "none" THEN "none" ELSE "used"
  BY <1>1, ReadAccess
<1>5. UNCHANGED <<reg, vis, busy>> /\ Count' = Count
  BY <1>4 DEF timerVars, Count, Number
<1>6. ShownInv'
  BY <1>3, <1>4, AccessShown
<1>7. /\ reg["hi"] \in 0..(Half - 1) /\ vis["hi"] \in 0..(Half - 1) /\ reg["lo"] \in 0..(Half - 1)
      /\ Count \in Nat /\ vis["lo"] \in 0..(Half - 1)
  BY HalfTypes, HalvesAre
<1>8. /\ Quiet /\ "hi" \notin busy /\ call.hi \in 0..(Half - 1) /\ call.hi <= vis["hi"]
      /\ from \in Nat /\ from <= Count /\ from <= (call.hi + 1) * Half
      /\ call.read = "again" => from <= call.hi * Half
      /\ call.hi = reg["hi"] => vis["lo"] <= reg["lo"]
  BY <1>1, <1>4 DEF ReadInv
<1>9. Quiet'
  BY <1>3, <1>8 DEF Quiet
<1>10. /\ vis["hi"] <= reg["hi"] /\ due["hi"] \in {"none", "update"}
       /\ due["hi"] = "none" => vis["hi"] = reg["hi"]
       /\ due["hi"] = "update" => vis["hi"] = reg["hi"] - 1
  BY <1>8, HighShown
<1>11. vis["lo"] >= reg["lo"] - 1
  BY <1>4, <1>8, LowShown
<1> DEFINE h == call.hi
           k == reg["hi"]
           n == Number(call.hi, vis["lo"])
<1>12. /\ h \in Nat /\ k \in Nat /\ h <= k /\ Count = k * Half + reg["lo"]
       /\ n = h * Half + vis["lo"] /\ h * Half \in Nat /\ k * Half \in Nat
       /\ (h + 1) * Half = h * Half + Half
       /\ h < k => (h + 1) * Half <= k * Half
  <2>1. h \in Nat /\ k \in Nat /\ h <= k
    BY <1>7, <1>8, <1>10, HalfAssumption
  <2> HIDE DEF h, k
  <2>2. /\ h * Half \in Nat /\ k * Half \in Nat /\ (h + 1) * Half = h * Half + Half
        /\ h < k => (h + 1) * Half <= k * Half
    BY <1>7, <2>1, Order
  <2> QED BY <2>1, <2>2 DEF h, k, Count, Number
<1>13. n <= Count
  <2>1. CASE h = k
    BY <1>7, <1>8, <1>12, <2>1
  <2>2. CASE h < k
    BY <1>7, <1>12, <2>2, HalfAssumption
  <2> QED BY <1>12, <2>1, <2>2
<1>14. k = h => n >= from - 1
  BY <1>7, <1>8, <1>11, <1>12
<1>15. vis["hi"] = h /\ skew' # "used" => n >= from - 1
  <2> SUFFICES ASSUME vis["hi"] = h, skew' # "used", k # h  PROVE n >= from - 1
    BY <1>14
  <2>1. due["hi"] = "update" /\ skew = "none"
    BY <1>4, <1>10
  <2>2. vis["lo"] = Half - 1
    BY <1>8, <2>1 DEF ShownInv, DueInv
  <2> QED BY <1>8, <1>12, <2>2, HalfAssumption
<1>16. call.read = "again" => n >= from - 1
  BY <1>7, <1>8, <1>12
<1>17. ReadInv'
  <2>1. CASE call.read = "lo"
    <3>1. call'.read = "check" /\ Number(call'.hi, call'.lo) = n
      BY <1>3, <2>1
    <3> QED BY <1>3, <1>4, <1>5, <1>7, <1>8, <1>9, <1>13, <1>14, <1>15, <3>1 DEF ReadInv
  <2>2. CASE call.read = "again"
    BY <1>3, <1>8, <2>2 DEF ReadInv
  <2> QED BY <1>1, <2>1, <2>2
<1>18. Result = n
  BY <1>3 DEF Result
<1> QED BY <1>6, <1>13, <1>16, <1>17, <1>18

LEMMA ReadCheckRecent ==
  ASSUME RecentInv, ReadCheck
  PROVE  /\ ShownInv' /\ ReadInv'
         /\ call'.read = "no" => Result <= Count /\ Result >= from - 1
<1> USE DEF RecentInv
<1>1. /\ call.read = "check" /\ Read("hi") /\ from' = from
      /\ call' = [call EXCEPT !.read = IF vis["hi"] = call.hi THEN "no" ELSE "again", !.hi = vis["hi"]]
  BY DEF ReadCheck, history
<1>2. DOMAIN call = {"todo", "read", "hi", "lo"}
  BY DEF AlarmInv, BasicInv, TypeOK, NoCall
<1>3. /\ call'.todo = call.todo /\ call'.hi = vis["hi"] /\ call'.lo = call.lo
      /\ call'.read = IF vis["hi"] = call.hi THEN "no" ELSE "again"
      /\ from' = from
  BY <1>1, <1>2
<1>4. /\ UNCHANGED <<timerVars, vis, busy, flight, transit, wait, held, due>>
      /\ "hi" \notin busy /\ skew # "used" /\ skew' = IF skew = "none" THEN "none" ELSE "used"
  BY <1>1, ReadAccess
<1>5. UNCHANGED <<reg, vis, busy>> /\ Count' = Count
  BY <1>4 DEF timerVars, Count, Number
<1>6. ShownInv'
  BY <1>3, <1>4, AccessShown
<1>7. vis["hi"] \in 0..(Half - 1)
  BY HalfTypes, HalvesAre
<1>8. /\ Quiet /\ call.hi \in 0..(Half - 1) /\ call.hi <= vis["hi"]
      /\ from \in Nat /\ from <= Count /\ from <= (call.hi + 1) * Half
      /\ "lo" \notin busy /\ Number(call.hi, call.lo) <= Count
      /\ vis["hi"] = call.hi => Number(call.hi, call.lo) >= from - 1
  BY <1>1, <1>4 DEF ReadInv
<1>9. Quiet'
  BY <1>3, <1>8 DEF Quiet
<1>10. vis["hi"] = call.hi => Result = Number(call.hi, call.lo)
  BY <1>3 DEF Result
<1>11. ASSUME vis["hi"] # call.hi
       PROVE  from <= vis["hi"] * Half /\ from <= (vis["hi"] + 1) * Half
  <2>1. call.hi \in Nat /\ vis["hi"] \in Nat /\ call.hi < vis["hi"] /\ 0 \in 0..(Half - 1)
    BY <1>7, <1>8, <1>11, HalfAssumption
  <2>2. /\ (call.hi + 1) * Half <= vis["hi"] * Half /\ vis["hi"] * Half \in Nat
        /\ (call.hi + 1) * Half = call.hi * Half + Half /\ call.hi * Half \in Nat
        /\ (vis["hi"] + 1) * Half = vis["hi"] * Half + Half
    BY <2>1, Order
  <2> QED BY <1>8, <2>2, HalfAssumption
<1>12. vis["hi"] = reg["hi"] => vis["lo"] <= reg["lo"] \/ skew' = "used"
  BY <1>4, <1>8, LowShown
<1>13. ReadInv'
  <2>1. CASE vis["hi"] = call.hi
    BY <1>3, <1>8, <2>1 DEF ReadInv
  <2>2. CASE vis["hi"] # call.hi
    <3>1. call'.read = "again"
      BY <1>3, <2>2
    <3>2. vis["hi"] <= vis'["hi"]
      BY <1>5, <1>7
    <3> QED BY <1>3, <1>4, <1>5, <1>7, <1>8, <1>9, <1>11, <1>12, <2>2, <3>1, <3>2 DEF ReadInv
  <2> QED BY <2>1, <2>2
<1> QED BY <1>3, <1>6, <1>8, <1>10, <1>13

LEMMA ReturnRecent ==
  ASSUME RecentInv, Return
  PROVE  ShownInv' /\ ReadInv'
<1>1. /\ call.todo = <<>> /\ call' = NoCall /\ from' = 0
      /\ UNCHANGED <<timerVars, vis, busy, flight, transit, wait, held, due, skew>>
  BY DEF Return, crossingVars
<1>2. call'.todo = call.todo /\ call'.read = "no"
  BY <1>1 DEF NoCall
<1>3. ShownInv'
  BY <1>1, <1>2, AccessShown DEF RecentInv
<1>4. ReadInv'
  BY <1>1, <1>2 DEF ReadInv
<1> QED BY <1>3, <1>4

LEMMA DeliverRecent ==
  ASSUME RecentInv, NEW S, Deliver(S)
  PROVE  ShownInv' /\ ReadInv'
<1> USE DEF RecentInv, ShownInv
<1> DEFINE all == {r \in Regs : due[r] # "none"}
<1>1. /\ S \subseteq all /\ (skew # "none" => S = all) /\ S \subseteq Regs
      /\ busy' = busy \ {r \in S : due[r] = "ack"}
      /\ skew' = IF S = all THEN "none" ELSE "open"
      /\ UNCHANGED <<reg, prescaleCount, flight, transit, wait, held, call, from>>
  BY DEF Deliver, timerVars, history
<1>2. ASSUME NEW r \in Regs
      PROVE  /\ vis'[r] = IF r \in S /\ r \in Halves /\ (due[r] = "ack" \/ r \notin busy)
                          THEN transit[r] ELSE vis[r]
             /\ due'[r] = IF r \in S THEN "none" ELSE due[r]
  BY DEF Deliver
<1>3. \A r \in Halves : r \in Regs
  BY DEF Regs
<1>4. /\ (Quiet' <=> Quiet) /\ Count' = Count
      /\ \A r : (Pend(r)' <=> Pend(r)) /\ Over(r)' = Over(r)
  BY <1>1 DEF Quiet, Pend, Over, Count, Number
<1>7. ClearInv' /\ LowInv' /\ HighInv'
  BY <1>1, <1>4 DEF ClearInv, LowInv, HighInv
<1>8. ASSUME NEW r \in Halves, due'[r] # "none"
      PROVE  /\ r \notin S /\ due'[r] = due[r] /\ vis'[r] = vis[r] /\ (r \in busy' <=> r \in busy)
             /\ skew' = "open" /\ skew = "none"
  <2>1. r \notin S /\ due[r] # "none"
    BY <1>2, <1>3, <1>8
  <2>2. r \in all
    BY <1>3, <2>1
  <2> QED BY <1>1, <1>2, <1>3, <2>1, <2>2
<1>9. DueInv'
  <2> SUFFICES ASSUME Quiet
               PROVE  /\ "hi" \notin busy' /\ due'["hi"] = "update" =>
                           /\ vis'["hi"] = reg["hi"] - 1 /\ reg["lo"] = 0 /\ "lo" \notin busy'
                           /\ IF due'["lo"] = "update" THEN vis'["lo"] = Half - 1 ELSE skew' # "none"
                      /\ "lo" \notin busy' /\ due'["lo"] = "update" =>
                           /\ transit["lo"] = reg["lo"]
                           /\ vis'["lo"] = reg["lo"] - 1
                              \/ (reg["lo"] = 0 /\ vis'["lo"] = Half - 1 /\ skew' # "none")
    BY <1>1, <1>4 DEF DueInv
  <2>1. ASSUME "hi" \notin busy', due'["hi"] = "update"
        PROVE  /\ vis'["hi"] = reg["hi"] - 1 /\ reg["lo"] = 0 /\ "lo" \notin busy'
               /\ IF due'["lo"] = "update" THEN vis'["lo"] = Half - 1 ELSE skew' # "none"
    <3>1. /\ due["hi"] = "update" /\ "hi" \notin busy /\ vis'["hi"] = vis["hi"] /\ skew' = "open"
      BY <1>8, <2>1, HalvesAre
    <3>2. /\ vis["hi"] = reg["hi"] - 1 /\ reg["lo"] = 0 /\ "lo" \notin busy
          /\ due["lo"] = "update" => vis["lo"] = Half - 1
      BY <3>1 DEF DueInv
    <3>3. due'["lo"] = "update" => due["lo"] = "update" /\ vis'["lo"] = vis["lo"]
      BY <1>8, HalvesAre
    <3> QED BY <1>1, <3>1, <3>2, <3>3
  <2>2. ASSUME "lo" \notin busy', due'["lo"] = "update"
        PROVE  /\ transit["lo"] = reg["lo"]
               /\ vis'["lo"] = reg["lo"] - 1
                  \/ (reg["lo"] = 0 /\ vis'["lo"] = Half - 1 /\ skew' # "none")
    <3>1. /\ due["lo"] = "update" /\ "lo" \notin busy /\ vis'["lo"] = vis["lo"] /\ skew' = "open"
      BY <1>8, <2>2, HalvesAre
    <3> QED BY <3>1 DEF DueInv
  <2> QED BY <2>1, <2>2
<1>10. ReadInv'
  <2>1. CASE call.read = "no"
    BY <1>1, <2>1 DEF ReadInv
  <2>2. CASE call.read # "no"
    <3>1. /\ Quiet /\ "hi" \notin busy /\ call.hi \in 0..(Half - 1) /\ call.hi <= vis["hi"]
          /\ "lo" \in busy => from = 0
      BY <2>2 DEF ReadInv
    <3>2. /\ reg["hi"] \in 0..(Half - 1) /\ vis["hi"] \in 0..(Half - 1) /\ reg["lo"] \in 0..(Half - 1)
          /\ vis["lo"] \in 0..(Half - 1)
      BY HalfTypes, HalvesAre
    <3>3. /\ transit["hi"] = reg["hi"] /\ due["hi"] \in {"none", "update"}
          /\ due["hi"] = "none" => vis["hi"] = reg["hi"]
          /\ due["hi"] = "update" => vis["hi"] = reg["hi"] - 1
      BY <3>1, HighShown
    <3>4. /\ vis'["hi"] = IF "hi" \in S THEN reg["hi"] ELSE vis["hi"]
          /\ "hi" \notin busy' /\ ("lo" \in busy' => "lo" \in busy)
      BY <1>1, <1>2, <3>1, <3>3, HalvesAre
    <3>5. vis["hi"] <= vis'["hi"]
      BY <3>2, <3>3, <3>4
    <3>6. ASSUME call.read \in {"lo", "again"}, call.hi = reg["hi"]
          PROVE  vis'["lo"] <= reg["lo"]
      <4>1. CASE "lo" \in S /\ (due["lo"] = "ack" \/ "lo" \notin busy)
        <5>1. ~Pend("lo") /\ vis'["lo"] = transit["lo"]
          BY <1>2, <4>1, HalvesAre DEF AlarmInv, BasicInv, BusyInv
        <5> QED BY <3>1, <5>1, LowShown
      <4>2. CASE ~("lo" \in S /\ (due["lo"] = "ack" \/ "lo" \notin busy))
        <5>1. vis'["lo"] = vis["lo"]
          BY <1>2, <4>2, HalvesAre
        <5>2. CASE "lo" \in busy
          BY <3>1, <5>1, <5>2, LowShown
        <5>3. CASE "lo" \notin busy /\ due["lo"] = "none"
          BY <3>1, <5>1, <5>3, LowShown
        <5>4. CASE "lo" \notin busy /\ due["lo"] # "none"
          <6>1. "lo" \notin S /\ "lo" \in all
            BY <4>2, <5>4, HalvesAre
          <6>2. skew # "used"
            BY <1>1, <6>1
          <6> QED BY <3>6, <5>1, <6>2 DEF ReadInv
        <5> QED BY <5>2, <5>3, <5>4
      <4> QED BY <4>1, <4>2
    <3>7. ASSUME call.read = "check", reg["hi"] = call.hi \/ (vis'["hi"] = call.hi /\ skew' # "used")
          PROVE  Number(call.hi, call.lo) >= from - 1
      <4>1. CASE reg["hi"] = call.hi
        BY <3>7, <4>1 DEF ReadInv
      <4>2. CASE reg["hi"] # call.hi
        <5>1. vis'["hi"] = call.hi /\ vis["hi"] = call.hi
          BY <3>1, <3>2, <3>5, <3>7, <4>2
        <5>2. "hi" \notin S /\ due["hi"] = "update"
          BY <3>3, <3>4, <4>2, <5>1
        <5>3. "hi" \in all
          BY <5>2, HalvesAre
        <5>4. skew # "used"
          BY <1>1, <5>2, <5>3
        <5> QED BY <3>7, <5>1, <5>4 DEF ReadInv
      <4> QED BY <4>1, <4>2
    <3>8. call.hi <= vis'["hi"]
      BY <3>1, <3>2, <3>4, <3>5
    <3> QED BY <1>1, <1>4, <3>1, <3>4, <3>6, <3>7, <3>8 DEF ReadInv
  <2> QED BY <2>1, <2>2
<1> QED BY <1>7, <1>9, <1>10

(* A call begins by stopping the timer, whose crossings go on. *)
LEMMA CallRecent ==
  ASSUME RecentInv, Start \/ Stop \/ Restart
  PROVE  ShownInv' /\ ReadInv'
<1> USE DEF RecentInv, ShownInv
<1>1. PICK writes : Stopping(writes) /\ (writes = <<>> \/ Halves \subseteq Targets(writes))
  BY CallSeen
<1>2. /\ Quiet /\ call'.read = "no"
      /\ UNCHANGED <<reg, prescaleCount, transit, wait, held, due, from>>
      /\ skew' = "none" <=> skew = "none"
      /\ \A r \in Halves : /\ vis'[r] = vis[r] /\ (Pend(r)' <=> Pend(r)) /\ Over(r)' = Over(r)
                           /\ r \in busy' <=> r \in busy
  BY <1>1, StoppingSeen
<1>3. /\ Over("lo")' = Over("lo") /\ (Pend("lo")' <=> Pend("lo")) /\ vis'["lo"] = vis["lo"]
      /\ Over("hi")' = Over("hi") /\ (Pend("hi")' <=> Pend("hi")) /\ vis'["hi"] = vis["hi"]
      /\ ("lo" \in busy' <=> "lo" \in busy) /\ ("hi" \in busy' <=> "hi" \in busy)
  BY <1>2, HalvesAre
<1>4. ClearInv'
  BY <1>2 DEF ClearInv
<1>5. LowInv' /\ HighInv'
  BY <1>2, <1>3 DEF LowInv, HighInv
<1>6. DueInv'
  BY <1>2, <1>3 DEF DueInv
<1>7. ReadInv'
  BY <1>2 DEF ReadInv
<1> QED BY <1>4, <1>5, <1>6, <1>7

(* With the last write, which enables the timer, a read may begin. *)
LEMMA NextWriteRecent ==
  ASSUME RecentInv, NextWrite
  PROVE  ShownInv' /\ ReadInv'
<1> USE DEF RecentInv, ShownInv
<1>1. /\ ~Quiet /\ call'.read = call.read /\ from' = from
      /\ UNCHANGED <<reg, prescaleCount, transit, wait, held, due>>
  BY NextWriteSeen
<1>2. call.read = "no"
  BY <1>1 DEF ReadInv
<1>3. ReadInv'
  BY <1>1, <1>2 DEF ReadInv
<1>4. ASSUME Quiet', NEW x \in Halves
      PROVE  /\ Pend(x)' <=> Pend(x)
             /\ x \in busy' <=> x \in busy
             /\ Over(x)' = Over(x)
             /\ ~Pend(x) => reg[x] = 0 /\ transit[x] = reg[x] /\ Over(x) <= 3
             /\ x \in busy \/ due[x] = "none"
  <2>1. /\ Pend(x)' <=> Pend(x)
        /\ x \in busy' <=> x \in busy
        /\ Over(x)' = Over(x)
        /\ ~Pend(x) => reg[x] = 0 /\ transit[x] = reg[x]
        /\ x \in busy \/ due[x] = "none"
    BY <1>4, NextWriteSeen
  <2>2. wait[x] \in 0..3
    BY HalfTypes
  <2> QED BY <2>1, <2>2 DEF Over
<1>5. ClearInv'
  BY <1>1, <1>4 DEF ClearInv
<1>6. LowInv' /\ HighInv'
  BY <1>1, <1>4, HalvesAre DEF LowInv, HighInv
<1>7. DueInv'
  BY <1>1, <1>4, HalvesAre DEF DueInv
<1> QED BY <1>3, <1>5, <1>6, <1>7

(* The timer carries as a whole, with nothing under way. *)
LEMMA QuietTick ==
  ASSUME Slow, AlarmInv, Quiet, Edge, Incr
  PROVE  /\ prescaleCount \in Nat /\ prescaleCount >= 5 /\ prescaleCount' = 0
         /\ \A r \in Halves : ~Pend(r) /\ ~Accept(r) /\ transit[r] = reg[r]
         /\ IF reg["lo"] = Half - 1 THEN reg'["lo"] = 0 /\ reg'["hi"] = reg["hi"] + 1
                                    ELSE reg'["lo"] = reg["lo"] + 1 /\ reg'["hi"] = reg["hi"]
         /\ Count' = Count + 1
<1>1. prescaleCount \in Nat /\ prescaleCount >= 5 /\ \A r \in Halves : transit[r] = reg[r]
  BY SlowTick
<1>2. /\ \A r \in Halves : ~Pend(r) /\ ~Accept(r) /\ reg'[r] = Part(r, Count + 1)
      /\ Count \in Nat /\ Count' = Count + 1
  BY QuietPart
<1>3. prescaleCount' = 0
  BY EdgePrescaler DEF AlarmInv, BasicInv
<1>4. reg["lo"] \in 0..(Half - 1) /\ reg["hi"] \in 0..(Half - 1)
  BY HalfTypes, HalvesAre
<1> DEFINE n == Count + 1
           k == n \div Half
           m == n % Half
<1>5. reg'["lo"] = m /\ reg'["hi"] = k
  BY <1>2, HalvesAre DEF Part
<1>6. n \in Nat /\ n = reg["hi"] * Half + reg["lo"] + 1
  BY <1>2, <1>4, HalfAssumption DEF Count, Number
<1>7. m \in 0..(Half - 1) /\ k \in Nat /\ k * Half + m = n
  <2> HIDE DEF n
  <2> QED BY <1>6, DivMod DEF Number
<1> HIDE DEF n, k, m
<1>8. IF reg["lo"] = Half - 1 THEN m = 0 /\ k = reg["hi"] + 1
                              ELSE m = reg["lo"] + 1 /\ k = reg["hi"]
  <2>1. CASE reg["lo"] = Half - 1
    <3> DEFINE h == reg["hi"] + 1
    <3>1. h \in Nat /\ h * Half = reg["hi"] * Half + Half /\ 0 \in 0..(Half - 1)
      BY <1>4, HalfAssumption
    <3>2. h * Half + 0 = k * Half + m
      BY <1>4, <1>6, <1>7, <2>1, <3>1, HalfAssumption
    <3> HIDE DEF h
    <3> DEFINE l == 0
    <3>3. l \in 0..(Half - 1) /\ h * Half + l = k * Half + m
      BY <3>1, <3>2
    <3> HIDE DEF l
    <3>4. h = k /\ l = m
      BY <1>7, <3>1, <3>3, OneNumber
    <3> QED BY <2>1, <3>4 DEF h, l
  <2>2. CASE reg["lo"] # Half - 1
    <3> DEFINE h == reg["hi"]
               l == reg["lo"] + 1
    <3>1. h \in Nat /\ l \in 0..(Half - 1) /\ h * Half + l = k * Half + m
      BY <1>4, <1>6, <1>7, <2>2, HalfAssumption
    <3> HIDE DEF h, l
    <3>2. h = k /\ l = m
      BY <1>7, <3>1, OneNumber
    <3> QED BY <2>2, <3>2 DEF h, l
  <2> QED BY <2>1, <2>2
<1> QED BY <1>1, <1>2, <1>3, <1>5, <1>8

(* A half that has been cleared, or is about to be, stays so until a tick. *)
LEMMA ClearStays ==
  ASSUME AlarmInv, SeenInv, Edge, ~Incr, NEW q \in Halves, Pend(q) \/ reg[q] = 0
  PROVE  Pend(q)' \/ reg'[q] = 0
<1>1. /\ Accept(q) => Pend(q) /\ reg'[q] = vis[q]
      /\ Pend(q)' <=> Pend(q) /\ ~Accept(q)
      /\ ~Accept(q) => reg'[q] = reg[q]
  BY EdgeHalf DEF AlarmInv, BasicInv
<1>2. Pend(q) => vis[q] = 0
  BY DEF SeenInv, CopyInv, AlarmInv, BasicInv, BusyInv, Regs
<1> QED BY <1>1, <1>2

LEMMA EdgeClear ==
  ASSUME Slow, AlarmInv, SeenInv, ShownInv, Edge
  PROVE  ClearInv'
<1> USE DEF AlarmInv, BasicInv, ShownInv
<1> SUFFICES ASSUME Quiet, NEW r \in Halves, NEW q \in Halves, Pend(r)'
             PROVE  Pend(q)' \/ reg'[q] = 0
  BY BeforeEdge DEF ClearInv, Quiet
<1>1. Pend(r)
  BY EdgeHalf
<1>2. ~Incr
  BY <1>1, QuietTick
<1>3. Pend(q) \/ reg[q] = 0
  BY <1>1 DEF ClearInv
<1> QED BY <1>2, <1>3, ClearStays

LEMMA EdgeLow ==
  ASSUME Slow, Half >= 3, AlarmInv, SeenInv, ShownInv, Edge
  PROVE  LowInv'
<1> USE DEF AlarmInv, BasicInv, ShownInv
<1> SUFFICES ASSUME Quiet, ~Pend("lo")'  PROVE LowInv'
  BY BeforeEdge DEF LowInv, Quiet
<1>1. /\ reg["lo"] \in 0..(Half - 1) /\ transit["lo"] \in 0..(Half - 1) /\ wait["lo"] \in 0..3
  BY HalfTypes, HalvesAre
<1>2. Incr => transit["lo"] = reg["lo"]
  BY SlowTick, HalvesAre
<1>3. Pend("lo")' <=> Pend("lo") /\ ~Accept("lo")
  BY EdgeHalf, HalvesAre
<1>4. /\ Over("lo") = wait["lo"] + IF transit["lo"] = reg["lo"] THEN 0 ELSE 4
      /\ Over("lo")' = wait'["lo"] + IF transit'["lo"] = reg'["lo"] THEN 0 ELSE 4
  BY DEF Over
<1>5. CASE Accept("lo")
  <2>1. reg'["lo"] = 0 /\ transit'["lo"] = 0 /\ Over("lo")' = 3
    BY <1>5, EdgeAccept, BeforeEdge, HalvesAre
  <2> QED BY <2>1 DEF LowInv
<1>6. CASE ~Accept("lo")
  <2>1. /\ reg'["lo"] = IF Incr THEN NextHalf("lo") ELSE reg["lo"]
        /\ wait["lo"] # 0 => transit'["lo"] = transit["lo"] /\ wait'["lo"] = wait["lo"] - 1
        /\ wait["lo"] = 0 /\ transit["lo"] = reg'["lo"] => transit'["lo"] = transit["lo"] /\ wait'["lo"] = 0
        /\ wait["lo"] = 0 /\ transit["lo"] # reg'["lo"] => transit'["lo"] = reg'["lo"] /\ wait'["lo"] = 3
    BY <1>2, <1>6, EdgeCopy, HalvesAre
  <2>2. /\ \/ Over("lo") = 0 \/ Over("lo") + prescaleCount <= 3
           \/ reg["lo"] = 0 /\ Over("lo") <= 3
           \/ reg["lo"] = 1 /\ Over("lo") + prescaleCount <= 6
           \/ reg["lo"] = 2 /\ Over("lo") + prescaleCount <= 4
        /\ transit["lo"] \in {reg["lo"], reg["lo"] - 1}
    BY <1>3, <1>6 DEF LowInv
  <2>3. CASE Incr
    <3>1. /\ prescaleCount \in Nat /\ prescaleCount >= 5 /\ prescaleCount' = 0
          /\ IF reg["lo"] = Half - 1 THEN reg'["lo"] = 0 ELSE reg'["lo"] = reg["lo"] + 1
      BY <2>3, QuietTick
    <3>2. Over("lo") = wait["lo"]
      BY <1>1, <1>2, <1>4, <2>3
    <3>3. CASE wait["lo"] = 0
      <4>1. transit'["lo"] = reg'["lo"] /\ Over("lo")' \in {0, 3}
        BY <1>4, <2>1, <3>3
      <4> QED BY <3>1, <4>1 DEF LowInv
    <3>4. CASE wait["lo"] # 0
      <4>1. /\ wait["lo"] \in 1..3
            /\ reg["lo"] = 0 \/ (reg["lo"] = 1 /\ wait["lo"] = 1)
        BY <1>1, <2>2, <3>1, <3>2, <3>4
      <4>2. reg'["lo"] = reg["lo"] + 1 /\ transit'["lo"] = reg["lo"] /\ wait'["lo"] = wait["lo"] - 1
        BY <1>2, <2>1, <2>3, <3>1, <3>4, <4>1, HalfAssumption
      <4>3. Over("lo")' = wait["lo"] + 3
        BY <1>4, <4>1, <4>2
      <4> QED BY <3>1, <4>1, <4>2, <4>3 DEF LowInv
    <3> QED BY <3>3, <3>4
  <2>4. CASE ~Incr
    <3>1. /\ Over("lo") \in Nat /\ Over("lo")' = IF Over("lo") = 0 THEN 0 ELSE Over("lo") - 1
      BY <1>6, <2>4, EdgeOver, HalvesAre
    <3>2. prescaleCount \in Nat /\ prescaleCount' \in Nat /\ prescaleCount' <= prescaleCount + 1
      BY EdgePrescaler, PrescalerAssumption
    <3>3. reg'["lo"] = reg["lo"] /\ transit'["lo"] \in {reg["lo"], transit["lo"]}
      BY <2>1, <2>4
    <3>4. transit'["lo"] \in {reg'["lo"], reg'["lo"] - 1}
      BY <2>2, <3>3
    <3>5. \/ Over("lo")' = 0 \/ Over("lo")' + prescaleCount' <= 3
          \/ reg'["lo"] = 0 /\ Over("lo")' <= 3
          \/ reg'["lo"] = 1 /\ Over("lo")' + prescaleCount' <= 6
          \/ reg'["lo"] = 2 /\ Over("lo")' + prescaleCount' <= 4
      BY <2>2, <3>1, <3>2, <3>3
    <3> QED BY <3>4, <3>5 DEF LowInv
  <2> QED BY <2>3, <2>4
<1> QED BY <1>5, <1>6

LEMMA EdgeHigh ==
  ASSUME Slow, Half >= 3, AlarmInv, SeenInv, ShownInv, Edge
  PROVE  HighInv'
<1> USE DEF AlarmInv, BasicInv, ShownInv
<1> SUFFICES ASSUME Quiet, ~Pend("hi")'  PROVE HighInv'
  BY BeforeEdge DEF HighInv, Quiet
<1>1. /\ reg["lo"] \in 0..(Half - 1) /\ reg["hi"] \in 0..(Half - 1) /\ wait["hi"] \in 0..3
  BY HalfTypes, HalvesAre
<1>2. Incr => transit["hi"] = reg["hi"]
  BY SlowTick, HalvesAre
<1>3. Pend("hi")' <=> Pend("hi") /\ ~Accept("hi")
  BY EdgeHalf, HalvesAre
<1>4. /\ Over("hi") = wait["hi"] + IF transit["hi"] = reg["hi"] THEN 0 ELSE 4
      /\ Over("hi")' = wait'["hi"] + IF transit'["hi"] = reg'["hi"] THEN 0 ELSE 4
  BY DEF Over
<1>5. CASE Accept("hi")
  <2>1. Pend("hi") /\ transit'["hi"] = reg'["hi"]
    BY <1>5, EdgeHalf, EdgeAccept, HalvesAre
  <2>2. ~Incr
    BY <2>1, QuietTick, HalvesAre
  <2>3. Pend("lo") \/ reg["lo"] = 0
    BY <2>1, HalvesAre DEF ClearInv
  <2>4. Pend("lo")' \/ reg'["lo"] = 0
    BY <2>2, <2>3, ClearStays, HalvesAre
  <2> QED BY <2>1, <2>4 DEF HighInv
<1>6. CASE ~Accept("hi")
  <2>1. /\ reg'["hi"] = IF Incr THEN NextHalf("hi") ELSE reg["hi"]
        /\ wait["hi"] # 0 => transit'["hi"] = transit["hi"] /\ wait'["hi"] = wait["hi"] - 1
        /\ wait["hi"] = 0 /\ transit["hi"] = reg'["hi"] => transit'["hi"] = transit["hi"] /\ wait'["hi"] = 0
        /\ wait["hi"] = 0 /\ transit["hi"] # reg'["hi"] => transit'["hi"] = reg'["hi"] /\ wait'["hi"] = 3
    BY <1>2, <1>6, EdgeCopy, HalvesAre
  <2>2. /\ transit["hi"] = reg["hi"] /\ Over("hi") = wait["hi"]
        /\ Over("hi") = 0 \/ Over("hi") + prescaleCount <= 3 \/ Pend("lo") \/ reg["lo"] = 0
    BY <1>1, <1>3, <1>4, <1>6 DEF HighInv
  <2>3. CASE Incr
    <3>1. /\ prescaleCount \in Nat /\ prescaleCount >= 5 /\ prescaleCount' = 0 /\ ~Pend("lo")
          /\ reg["lo"] # Half - 1 => reg'["hi"] = reg["hi"]
      BY <2>3, QuietTick, HalvesAre
    <3>2. CASE wait["hi"] = 0
      <4>1. transit'["hi"] = reg'["hi"] /\ Over("hi")' \in {0, 3}
        BY <1>4, <2>1, <3>2
      <4> QED BY <3>1, <4>1 DEF HighInv
    <3>3. CASE wait["hi"] # 0
      <4>1. reg["lo"] = 0 /\ wait["hi"] \in 1..3
        BY <1>1, <2>2, <3>1, <3>3
      <4>2. reg'["hi"] = reg["hi"] /\ transit'["hi"] = reg'["hi"] /\ wait'["hi"] = wait["hi"] - 1
        BY <2>1, <2>2, <3>1, <3>3, <4>1, HalfAssumption
      <4> QED BY <1>4, <3>1, <4>1, <4>2 DEF HighInv
    <3> QED BY <3>2, <3>3
  <2>4. CASE ~Incr
    <3>1. /\ Over("hi") \in Nat /\ Over("hi")' = IF Over("hi") = 0 THEN 0 ELSE Over("hi") - 1
      BY <1>6, <2>4, EdgeOver, HalvesAre
    <3>2. prescaleCount \in Nat /\ prescaleCount' \in Nat /\ prescaleCount' <= prescaleCount + 1
      BY EdgePrescaler, PrescalerAssumption
    <3>3. reg'["hi"] = reg["hi"] /\ transit'["hi"] = reg'["hi"]
      BY <2>1, <2>2, <2>4
    <3>4. Pend("lo") \/ reg["lo"] = 0 => Pend("lo")' \/ reg'["lo"] = 0
      BY <2>4, ClearStays, HalvesAre
    <3>5. Over("hi")' = 0 \/ Over("hi")' + prescaleCount' <= 3 \/ Pend("lo")' \/ reg'["lo"] = 0
      BY <2>2, <3>1, <3>2, <3>4
    <3> QED BY <3>3, <3>5 DEF HighInv
  <2> QED BY <2>3, <2>4
<1> QED BY <1>5, <1>6

LEMMA EdgeDue ==
  ASSUME Slow, Half >= 3, AlarmInv, SeenInv, ShownInv, Edge
  PROVE  DueInv'
<1> USE DEF AlarmInv, BasicInv, ShownInv
<1> SUFFICES ASSUME Quiet  PROVE DueInv'
  BY BeforeEdge DEF DueInv, Quiet
<1>1. /\ UNCHANGED <<vis, busy>>
      /\ "hi" \notin busy => vis["hi"] = transit["hi"] /\ ~Accept("hi") /\ ~Pend("hi")
      /\ "lo" \notin busy => vis["lo"] = transit["lo"] /\ ~Accept("lo") /\ ~Pend("lo")
      /\ ~Pend("hi") => "hi" \notin busy
      /\ ~Pend("lo") => "lo" \notin busy
  BY BeforeEdge, HalvesAre
<1>2. /\ reg["lo"] \in 0..(Half - 1) /\ reg["hi"] \in 0..(Half - 1)
      /\ wait["lo"] \in 0..3 /\ wait["hi"] \in 0..3
  BY HalfTypes, HalvesAre
<1>3. /\ Incr => transit["lo"] = reg["lo"] /\ transit["hi"] = reg["hi"]
      /\ Over("lo") = wait["lo"] + IF transit["lo"] = reg["lo"] THEN 0 ELSE 4
      /\ Over("hi") = wait["hi"] + IF transit["hi"] = reg["hi"] THEN 0 ELSE 4
  BY SlowTick, HalvesAre DEF Over
<1>4. Incr => /\ prescaleCount \in Nat /\ prescaleCount >= 5
              /\ ~Pend("lo") /\ ~Pend("hi") /\ ~Accept("lo") /\ ~Accept("hi")
              /\ IF reg["lo"] = Half - 1 THEN reg'["lo"] = 0 /\ reg'["hi"] = reg["hi"] + 1
                                         ELSE reg'["lo"] = reg["lo"] + 1 /\ reg'["hi"] = reg["hi"]
  BY QuietTick, HalvesAre
<1>5. ASSUME ~Accept("lo")
      PROVE  /\ reg'["lo"] = IF Incr THEN NextHalf("lo") ELSE reg["lo"]
             /\ wait["lo"] # 0 => due'["lo"] = "none"
             /\ wait["lo"] = 0 /\ transit["lo"] = reg'["lo"] => due'["lo"] = "none"
             /\ wait["lo"] = 0 /\ transit["lo"] # reg'["lo"] =>
                  transit'["lo"] = reg'["lo"] /\ due'["lo"] = "update"
  BY <1>3, <1>5, EdgeCopy, HalvesAre
<1>6. ASSUME ~Accept("hi")
      PROVE  /\ reg'["hi"] = IF Incr THEN NextHalf("hi") ELSE reg["hi"]
             /\ wait["hi"] # 0 => due'["hi"] = "none"
             /\ wait["hi"] = 0 /\ transit["hi"] = reg'["hi"] => due'["hi"] = "none"
             /\ wait["hi"] = 0 /\ transit["hi"] # reg'["hi"] => due'["hi"] = "update"
  BY <1>3, <1>6, EdgeCopy, HalvesAre
\* A carry crosses to software as a whole.
<1>7. ASSUME Incr, reg["lo"] = Half - 1
      PROVE  due'["lo"] = "update" /\ due'["hi"] = "update"
  <2>1. reg["lo"] \in Nat /\ reg["lo"] >= 2
    BY <1>2, <1>7, HalfAssumption
  <2>2. wait["lo"] = 0
    <3>1. \/ Over("lo") = 0 \/ Over("lo") + prescaleCount <= 3
          \/ reg["lo"] = 0 /\ Over("lo") <= 3
          \/ reg["lo"] = 1 /\ Over("lo") + prescaleCount <= 6
          \/ reg["lo"] = 2 /\ Over("lo") + prescaleCount <= 4
      BY <1>4, <1>7 DEF LowInv
    <3> QED BY <1>2, <1>3, <1>4, <1>7, <2>1, <3>1
  <2>3. wait["hi"] = 0
    <3>1. Over("hi") = 0 \/ Over("hi") + prescaleCount <= 3 \/ Pend("lo") \/ reg["lo"] = 0
      BY <1>4, <1>7 DEF HighInv
    <3> QED BY <1>2, <1>3, <1>4, <1>7, <2>1, <3>1
  <2>4. transit["lo"] # reg'["lo"] /\ transit["hi"] # reg'["hi"]
    BY <1>2, <1>3, <1>4, <1>7, <2>1
  <2> QED BY <1>4, <1>5, <1>6, <1>7, <2>2, <2>3, <2>4
<1>8. ASSUME "hi" \notin busy, due'["hi"] = "update"
      PROVE  /\ vis["hi"] = reg'["hi"] - 1 /\ reg'["lo"] = 0 /\ "lo" \notin busy
             /\ due'["lo"] = "update" /\ vis["lo"] = Half - 1
  <2>1. transit["hi"] = reg["hi"]
    BY <1>1, <1>8 DEF HighInv
  <2>2. transit["hi"] # reg'["hi"]
    BY <1>1, <1>6, <1>8
  <2>3. Incr /\ reg["lo"] = Half - 1
    BY <1>1, <1>4, <1>6, <1>8, <2>1, <2>2
  <2>4. due'["lo"] = "update" /\ "lo" \notin busy /\ vis["lo"] = reg["lo"]
    BY <1>1, <1>3, <1>4, <1>7, <2>3
  <2> QED BY <1>1, <1>2, <1>3, <1>4, <1>8, <2>3, <2>4
<1>9. ASSUME "lo" \notin busy, due'["lo"] = "update"
      PROVE  /\ transit'["lo"] = reg'["lo"]
             /\ \/ vis["lo"] = reg'["lo"] - 1
                \/ /\ reg'["lo"] = 0 /\ vis["lo"] = Half - 1
                   /\ "hi" \notin busy /\ due'["hi"] = "update"
  <2>1. transit'["lo"] = reg'["lo"] /\ vis["lo"] = transit["lo"] /\ transit["lo"] # reg'["lo"]
    BY <1>1, <1>5, <1>9
  <2>2. CASE Incr /\ reg["lo"] = Half - 1
    BY <1>1, <1>3, <1>4, <1>7, <2>1, <2>2
  <2>3. CASE Incr /\ reg["lo"] # Half - 1
    BY <1>2, <1>3, <1>4, <2>1, <2>3
  <2>4. CASE ~Incr
    <3>1. reg'["lo"] = reg["lo"] /\ transit["lo"] \in {reg["lo"], reg["lo"] - 1}
      BY <1>1, <1>5, <1>9, <2>4 DEF LowInv
    <3> QED BY <2>1, <3>1
  <2> QED BY <2>1, <2>2, <2>3, <2>4
<1> QED BY <1>1, <1>8, <1>9 DEF DueInv

LEMMA EdgeRead ==
  ASSUME Slow, RecentInv, Edge
  PROVE  ReadInv'
<1> USE DEF RecentInv
<1>1. UNCHANGED <<vis, busy, call, from>> /\ skew = "none" /\ skew' = "none"
  BY BeforeEdge
<1>2. CASE call.read = "no"
  BY <1>1, <1>2 DEF ReadInv
<1>3. CASE call.read # "no"
  <2>1. /\ Quiet /\ "hi" \notin busy /\ call.hi \in 0..(Half - 1) /\ call.hi <= vis["hi"]
        /\ from \in Nat /\ from <= Count /\ ("lo" \in busy => from = 0)
    BY <1>3 DEF ReadInv
  <2>2. /\ reg["lo"] \in 0..(Half - 1) /\ reg["hi"] \in 0..(Half - 1)
        /\ vis["lo"] \in 0..(Half - 1) /\ Count \in Nat
        /\ reg'["lo"] \in 0..(Half - 1) /\ Count' \in Nat
    <3>1. reg'["lo"] \in 0..(Half - 1) /\ reg'["hi"] \in 0..(Half - 1)
      BY EdgeStep, HalvesAre DEF AlarmInv, BasicInv, TypeOK
    <3>2. Count' \in Nat
      BY <3>1, HalfAssumption DEF Count, Number
    <3> QED BY <3>1, <3>2, HalfTypes, HalvesAre
  <2>3. ~Accept("hi") /\ vis["hi"] = reg["hi"]
    <3>1. ~Accept("hi") /\ due["hi"] = "none"
      BY <2>1, BeforeEdge, HalvesAre
    <3> QED BY <2>1, <3>1, HighShown
  <2>4. "lo" \in busy => vis["lo"] = 0
    BY BeforeEdge, HalvesAre
  <2>5. "lo" \notin busy => ~Accept("lo") /\ vis["lo"] <= reg["lo"]
    <3>1. "lo" \notin busy => ~Accept("lo") /\ due["lo"] = "none"
      BY BeforeEdge, HalvesAre
    <3> QED BY <2>1, <3>1, LowShown
  <2>6. Incr => /\ Count' = Count + 1
                /\ IF reg["lo"] = Half - 1 THEN reg'["lo"] = 0 /\ reg'["hi"] = reg["hi"] + 1
                                           ELSE reg'["lo"] = reg["lo"] + 1 /\ reg'["hi"] = reg["hi"]
    BY <2>1, QuietTick
  <2>7. ~Incr => /\ reg'["hi"] = reg["hi"]
                 /\ "lo" \notin busy => reg'["lo"] = reg["lo"] /\ Count' = Count
    <3>1. ~Incr => reg'["hi"] = reg["hi"]
      BY <2>3, EdgeHalf, HalvesAre DEF AlarmInv, BasicInv
    <3>2. ~Incr /\ "lo" \notin busy => reg'["lo"] = reg["lo"]
      BY <2>5, EdgeHalf, HalvesAre DEF AlarmInv, BasicInv
    <3> QED BY <3>1, <3>2 DEF Count, Number
  <2>8. from <= Count' /\ ("lo" \notin busy => Count <= Count')
    BY <2>1, <2>2, <2>6, <2>7
  <2>9. call.hi = reg'["hi"] => call.hi = reg["hi"] /\ vis["lo"] <= reg'["lo"]
    <3> SUFFICES ASSUME call.hi = reg'["hi"]  PROVE call.hi = reg["hi"] /\ vis["lo"] <= reg'["lo"]
      OBVIOUS
    <3>1. reg'["hi"] = reg["hi"] /\ ~(Incr /\ reg["lo"] = Half - 1)
      BY <2>1, <2>2, <2>3, <2>6, <2>7
    <3>2. CASE "lo" \in busy
      BY <2>2, <2>4, <3>1, <3>2
    <3>3. CASE "lo" \notin busy
      BY <2>2, <2>5, <2>6, <2>7, <3>1, <3>3
    <3> QED BY <3>1, <3>2, <3>3
  <2>10. ASSUME call.read = "check"
         PROVE  /\ "lo" \notin busy /\ call.lo \in 0..(Half - 1)
                /\ Number(call.hi, call.lo) <= Count'
                /\ reg'["hi"] = call.hi \/ vis["hi"] = call.hi => Number(call.hi, call.lo) >= from - 1
    <3>1. /\ "lo" \notin busy /\ call.lo \in 0..(Half - 1) /\ Number(call.hi, call.lo) <= Count
          /\ reg["hi"] = call.hi => Number(call.hi, call.lo) >= from - 1
      BY <2>10 DEF ReadInv
    <3>2. Number(call.hi, call.lo) \in Nat
      BY <2>1, <3>1, HalfAssumption DEF Number
    <3> QED BY <2>2, <2>3, <2>8, <2>9, <3>1, <3>2
  <2>11. Quiet'
    BY <1>1, <2>1 DEF Quiet
  <2> QED BY <1>1, <1>3, <2>1, <2>8, <2>9, <2>10, <2>11 DEF ReadInv
<1> QED BY <1>2, <1>3

LEMMA RecentInit ==
  ASSUME Init
  PROVE  RecentInv
<1> USE DEF Init
<1>1. AlarmInv
  BY AlarmInit
<1>2. /\ busy = {} /\ skew = "none" /\ \A r \in Regs : due[r] = "none"
      /\ call.todo = <<>> /\ call.read = "no" /\ from = 0
  BY DEF NoCall
<1>3. \A r \in Halves : /\ r \in Regs /\ reg[r] = 0 /\ transit[r] = 0 /\ vis[r] = 0 /\ Over(r) = 0
                        /\ ~Mine(r) /\ ~Pend(r)
  BY <1>2 DEF Over, Halves, Regs, Mine, Pend
<1>4. SeenInv /\ ClearInv
  BY <1>2, <1>3 DEF SeenInv, CopyInv, SkewInv, ClearInv
<1>5. LowInv /\ HighInv /\ DueInv
  BY <1>2, <1>3, HalvesAre DEF LowInv, HighInv, DueInv
<1>6. ReadInv
  BY <1>2 DEF ReadInv
<1> QED BY <1>1, <1>4, <1>5, <1>6 DEF RecentInv, ShownInv

LEMMA RecentStep ==
  ASSUME Slow, Half >= 3, RecentInv, [Next]_vars
  PROVE  RecentInv'
<1>1. AlarmInv' /\ SeenInv'
  BY AlarmStep, SeenStep DEF RecentInv
<1>2. CASE Edge
  BY <1>1, <1>2, EdgeClear, EdgeLow, EdgeHigh, EdgeDue, EdgeRead DEF RecentInv, ShownInv
<1>3. CASE \E S \in SUBSET Regs : Deliver(S)
  BY <1>1, <1>3, DeliverRecent DEF RecentInv
<1>4. CASE Start \/ Stop \/ Restart \/ NextWrite
  BY <1>1, <1>4, CallRecent, NextWriteRecent DEF RecentInv
<1>5. CASE GetCount \/ ReadLow \/ ReadCheck \/ Return
  BY <1>1, <1>5, GetCountRecent, ReadLowRecent, ReadCheckRecent, ReturnRecent DEF RecentInv
<1>6. CASE UNCHANGED vars
  <2>1. /\ UNCHANGED <<timerVars, vis, busy, flight, transit, wait, held, due, skew, call, from>>
        /\ UNCHANGED <<reg, prescaleCount>>
    BY <1>6 DEF vars, crossingVars, history, timerVars
  <2>2. ShownInv'
    BY <2>1, AccessShown DEF RecentInv, ShownInv, SeenInv, SkewInv
  <2>3. ReadInv'
    BY <2>1 DEF RecentInv, ReadInv, Quiet, Count, Number
  <2> QED BY <1>1, <2>2, <2>3 DEF RecentInv
<1> QED BY <1>2, <1>3, <1>4, <1>5, <1>6 DEF Next

-----------------------------------------------------------------------------
(* Any prescalers: each copy is of a count up to four ticks old.           *)

(* v is half r of a count not more than d ticks older than the count c. *)
Behind(r, v, d, c) == \E n \in Nat : n <= c /\ n + d >= c /\ v = Part(r, n)

LagInv ==
  Quiet =>
    /\ \A r \in Halves :
         /\ Pend(r) => \A q \in Halves : Pend(q) \/ (reg[q] = 0 /\ transit[q] = 0)
         /\ ~Pend(r) => Behind(r, transit[r], 3 - wait[r], Count)
         /\ r \notin busy => Behind(r, vis[r], 4, Count)
    /\ "hi" \notin busy => vis["hi"] <= transit["hi"]

(* The upper half in hand is of a count that was not too old when the call *)
(* began.  A lower half read before its check is of such a count, too, and *)
(* of one with an upper half between the one in hand and the one shown     *)
(* unless the lower one had just wrapped.                                  *)
TakenInv ==
  /\ call.read \in {"no", "lo", "check", "again"}
  /\ call.read # "no" =>
       /\ Quiet /\ "hi" \notin busy /\ call.hi \in 0..(Half - 1) /\ call.hi <= vis["hi"]
       /\ from \in Nat /\ from <= Count /\ ("lo" \in busy => from = 0)
       /\ Back(from) \div Half <= call.hi
  /\ call.read = "again" => Back(from) <= call.hi * Half
  /\ call.read = "check" =>
       /\ "lo" \notin busy
       /\ settled => \E n \in Nat : /\ Back(from) <= n /\ n <= Count /\ call.lo = n % Half
                                    /\ call.hi <= n \div Half /\ n \div Half <= vis["hi"]

DelayInv == AlarmInv /\ SeenInv /\ LagInv /\ TakenInv

LEMMA DivMono ==
  ASSUME NEW m \in Nat, NEW n \in Nat, m <= n
  PROVE  m \div Half <= n \div Half
<1> DEFINE h == m \div Half
           l == m % Half
           k == n \div Half
           j == n % Half
<1>1. h \in Nat /\ l \in 0..(Half - 1) /\ h * Half + l = m
  BY DivMod DEF Number
<1>2. k \in Nat /\ j \in 0..(Half - 1) /\ k * Half + j = n
  BY DivMod DEF Number
<1> HIDE DEF h, l, k, j
<1>3. ~(k < h)
  <2> SUFFICES ASSUME k < h  PROVE FALSE
    OBVIOUS
  <2>1. /\ (k + 1) * Half <= h * Half /\ (k + 1) * Half = k * Half + Half
        /\ h * Half \in Nat /\ k * Half \in Nat
    BY <1>1, <1>2, Order
  <2> QED BY <1>1, <1>2, <2>1, HalfAssumption
<1>4. h <= k
  BY <1>1, <1>2, <1>3
<1> QED BY <1>4 DEF h, k

(* The lower half wraps no sooner than after Half ticks. *)
LEMMA ModApart ==
  ASSUME NEW m \in Nat, NEW n \in Nat, m < n, n < m + Half
  PROVE  m % Half # n % Half
<1> SUFFICES ASSUME m % Half = n % Half  PROVE FALSE
  OBVIOUS
<1> DEFINE h == m \div Half
           l == m % Half
           k == n \div Half
<1>1. h \in Nat /\ l \in 0..(Half - 1) /\ h * Half + l = m
  BY DivMod DEF Number
<1>2. k \in Nat /\ k * Half + l = n
  BY DivMod DEF Number
<1> HIDE DEF h, l, k
<1>3. h * Half \in Nat /\ k * Half \in Nat /\ h * Half < k * Half /\ k * Half < h * Half + Half
  BY <1>1, <1>2, HalfAssumption
<1>4. CASE h < k
  <2>1. (h + 1) * Half <= k * Half /\ (h + 1) * Half = h * Half + Half
    BY <1>1, <1>2, <1>4, Order
  <2> QED BY <1>3, <2>1, HalfAssumption
<1>5. CASE k <= h
  <2>1. k * Half <= h * Half
    BY <1>1, <1>2, <1>5, Order
  <2> QED BY <1>3, <2>1
<1> QED BY <1>1, <1>2, <1>4, <1>5

LEMMA BackIs ==
  ASSUME ~Slow, NEW n \in Nat
  PROVE  Back(n) \in Nat /\ Back(n) <= n /\ \A m \in Nat : m + 4 >= n => Back(n) <= m
BY DEF Back, Lag

LEMMA BackMono ==
  ASSUME ~Slow, NEW m \in Nat, NEW n \in Nat, m <= n
  PROVE  Back(m) <= Back(n)
BY DEF Back, Lag

LEMMA AccessLag ==
  ASSUME LagInv, UNCHANGED <<timerVars, vis, busy, flight, transit, wait, held, due>>,
         call'.todo = call.todo
  PROVE  LagInv'
<1>1. /\ Quiet' <=> Quiet
      /\ \A r : Pend(r)' <=> Pend(r)
  BY DEF Quiet, Pend
<1>2. UNCHANGED reg /\ Count' = Count
  BY DEF timerVars, Count, Number
<1> QED BY <1>1, <1>2 DEF LagInv

LEMMA GetCountLag ==
  ASSUME ~Slow, DelayInv, GetCount
  PROVE  LagInv' /\ TakenInv'
<1> USE DEF DelayInv
<1>1. /\ call = NoCall /\ Read("hi") /\ call' = [call EXCEPT !.read = "lo", !.hi = vis["hi"]]
      /\ from' = IF "lo" \in busy THEN 0 ELSE Count
  BY DEF GetCount
<1>2. /\ call'.todo = call.todo /\ call'.read = "lo" /\ call'.hi = vis["hi"] /\ call.todo = <<>>
  BY <1>1 DEF NoCall
<1>3. /\ UNCHANGED <<timerVars, vis, busy, flight, transit, wait, held, due>>
      /\ "hi" \notin busy
  BY <1>1, ReadAccess
<1>4. UNCHANGED <<reg, vis, busy>> /\ Count' = Count
  BY <1>3 DEF timerVars, Count, Number
<1>5. Quiet /\ Quiet'
  BY <1>2 DEF Quiet
<1>6. LagInv'
  BY <1>2, <1>3, AccessLag
<1>7. Count \in Nat /\ vis["hi"] \in 0..(Half - 1)
  BY HalfTypes, HalvesAre
<1>8. PICK n \in Nat : n <= Count /\ n + 4 >= Count /\ vis["hi"] = n \div Half
  BY <1>3, <1>5, HalvesAre DEF LagInv, Behind, Part
<1>9. from' \in Nat /\ from' <= Count /\ ("lo" \in busy => from' = 0)
  BY <1>1, <1>7
<1>10. Back(from') \in Nat /\ Back(from') <= n
  <2>1. Back(from') \in Nat /\ Back(Count) \in Nat /\ Back(from') <= Back(Count) /\ Back(Count) <= n
    BY <1>7, <1>8, <1>9, BackIs, BackMono
  <2> QED BY <2>1
<1>11. Back(from') \div Half <= vis["hi"]
  BY <1>8, <1>10, DivMono
<1>12. Back(from)' = Back(from')
  BY DEF Back, Lag, Slow
<1>13. vis["hi"] <= vis'["hi"]
  BY <1>4, <1>7
<1> QED BY <1>2, <1>3, <1>4, <1>5, <1>6, <1>7, <1>9, <1>11, <1>12, <1>13 DEF TakenInv

LEMMA ReadLowLag ==
  ASSUME ~Slow, DelayInv, ReadLow
  PROVE  /\ LagInv' /\ TakenInv'
         /\ call.read = "again" /\ settled' => Result <= Count /\ Result >= Back(from)
<1> USE DEF DelayInv
<1>1. /\ call.read \in {"lo", "again"} /\ Read("lo") /\ from' = from
      /\ call' = [call EXCEPT !.read = IF @ = "lo" THEN "check" ELSE "no", !.lo = vis["lo"]]
      /\ settled' = (Back(Count) \div Half = Count \div Half)
  BY DEF ReadLow
<1>2. DOMAIN call = {"todo", "read", "hi", "lo"}
  BY DEF AlarmInv, BasicInv, TypeOK, NoCall
<1>3. /\ call'.todo = call.todo /\ call'.hi = call.hi /\ call'.lo = vis["lo"]
      /\ call'.read = IF call.read = "lo" THEN "check" ELSE "no"
  BY <1>1, <1>2
<1>4. /\ UNCHANGED <<timerVars, vis, busy, flight, transit, wait, held, due>>
      /\ "lo" \notin busy
  BY <1>1, ReadAccess
<1>5. UNCHANGED <<reg, vis, busy>> /\ Count' = Count
  BY <1>4 DEF timerVars, Count, Number
<1>6. LagInv'
  BY <1>3, <1>4, AccessLag
<1>7. Count \in Nat /\ vis["hi"] \in 0..(Half - 1) /\ vis["lo"] \in 0..(Half - 1)
  BY HalfTypes, HalvesAre
<1>8. /\ Quiet /\ "hi" \notin busy /\ call.hi \in 0..(Half - 1) /\ call.hi <= vis["hi"]
      /\ from \in Nat /\ from <= Count /\ ("lo" \in busy => from = 0)
      /\ Back(from) \div Half <= call.hi
      /\ call.read = "again" => Back(from) <= call.hi * Half
  BY <1>1 DEF TakenInv
<1>9. Quiet'
  BY <1>3, <1>8 DEF Quiet
<1>10. Back(from)' = Back(from)
  BY <1>1 DEF Back, Lag, Slow
<1>11. PICK n \in Nat : n <= Count /\ n + 4 >= Count /\ vis["lo"] = n % Half
  BY <1>4, <1>8, HalvesAre DEF LagInv, Behind, Part
<1>12. PICK m \in Nat : m <= Count /\ m + 4 >= Count /\ vis["hi"] = m \div Half
  BY <1>8, HalvesAre DEF LagInv, Behind, Part
<1>13. /\ Back(Count) \in Nat /\ Back(Count) <= n /\ Back(Count) <= m
       /\ Back(from) \in Nat /\ Back(from) <= Back(Count)
  BY <1>7, <1>8, <1>11, <1>12, BackIs, BackMono
<1>14. ASSUME settled'
       PROVE  n \div Half = vis["hi"]
  <2>1. /\ Back(Count) \div Half <= n \div Half /\ n \div Half <= Count \div Half
        /\ Back(Count) \div Half <= m \div Half /\ m \div Half <= Count \div Half
    BY <1>7, <1>11, <1>12, <1>13, DivMono
  <2>2. Back(Count) \div Half = Count \div Half
    BY <1>1, <1>14
  <2>3. n \div Half \in Nat /\ m \div Half \in Nat /\ Count \div Half \in Nat
    BY <1>7, DivMod
  <2> QED BY <1>12, <2>1, <2>2, <2>3
<1>15. TakenInv'
  <2>1. CASE call.read = "again"
    BY <1>3, <2>1 DEF TakenInv
  <2>2. CASE call.read = "lo"
    <3>1. call'.read = "check" /\ vis["hi"] <= vis'["hi"] /\ Back(from) <= n
      BY <1>3, <1>5, <1>7, <1>11, <1>13, <2>2
    <3>2. settled' => call.hi <= n \div Half /\ n \div Half <= vis["hi"]
      BY <1>7, <1>8, <1>14
    <3> QED BY <1>1, <1>3, <1>4, <1>5, <1>8, <1>9, <1>10, <1>11, <3>1, <3>2 DEF TakenInv
  <2> QED BY <1>1, <2>1, <2>2
<1>16. ASSUME call.read = "again", settled'
       PROVE  Result <= Count /\ Result >= Back(from)
  <2> DEFINE k == n \div Half
  <2>1. k \in Nat /\ k * Half + vis["lo"] = n /\ call.hi <= k
    BY <1>8, <1>11, <1>14, <1>16, DivMod DEF Number
  <2> HIDE DEF k
  <2>2. Result = call.hi * Half + vis["lo"]
    BY <1>3 DEF Result, Number
  <2>3. call.hi * Half <= k * Half /\ call.hi * Half \in Nat /\ k * Half \in Nat
    <3>1. call.hi \in Nat /\ 0 \in 0..(Half - 1)
      BY <1>8, HalfAssumption
    <3> QED BY <2>1, <3>1, Order
  <2> QED BY <1>7, <1>8, <1>11, <1>13, <1>16, <2>1, <2>2, <2>3
<1> QED BY <1>6, <1>15, <1>16

LEMMA ReadCheckLag ==
  ASSUME ~Slow, DelayInv, ReadCheck
  PROVE  /\ LagInv' /\ TakenInv'
         /\ call'.read = "no" /\ settled' => Result <= Count /\ Result >= Back(from)
<1> USE DEF DelayInv
<1>1. /\ call.read = "check" /\ Read("hi") /\ from' = from /\ settled' = settled
      /\ call' = [call EXCEPT !.read = IF vis["hi"] = call.hi THEN "no" ELSE "again", !.hi = vis["hi"]]
  BY DEF ReadCheck, history
<1>2. DOMAIN call = {"todo", "read", "hi", "lo"}
  BY DEF AlarmInv, BasicInv, TypeOK, NoCall
<1>3. /\ call'.todo = call.todo /\ call'.hi = vis["hi"] /\ call'.lo = call.lo
      /\ call'.read = IF vis["hi"] = call.hi THEN "no" ELSE "again"
  BY <1>1, <1>2
<1>4. /\ UNCHANGED <<timerVars, vis, busy, flight, transit, wait, held, due>>
      /\ "hi" \notin busy
  BY <1>1, ReadAccess
<1>5. UNCHANGED <<reg, vis, busy>> /\ Count' = Count
  BY <1>4 DEF timerVars, Count, Number
<1>6. LagInv'
  BY <1>3, <1>4, AccessLag
<1>7. vis["hi"] \in 0..(Half - 1)
  BY HalfTypes, HalvesAre
<1>8. /\ Quiet /\ call.hi \in 0..(Half - 1) /\ call.hi <= vis["hi"]
      /\ from \in Nat /\ from <= Count /\ "lo" \notin busy
      /\ Back(from) \div Half <= call.hi
  BY <1>1 DEF TakenInv
<1>9. Quiet'
  BY <1>3, <1>8 DEF Quiet
<1>10. Back(from)' = Back(from)
  BY <1>1 DEF Back, Lag, Slow
<1>11. ASSUME vis["hi"] = call.hi, settled
       PROVE  Result <= Count /\ Result >= Back(from)
  <2>1. PICK n \in Nat : /\ Back(from) <= n /\ n <= Count /\ call.lo = n % Half
                         /\ call.hi <= n \div Half /\ n \div Half <= vis["hi"]
    BY <1>1, <1>11 DEF TakenInv
  <2>2. n \div Half = call.hi
    <3>1. n \div Half \in Nat
      BY DivMod
    <3> QED BY <1>8, <1>11, <2>1, <3>1
  <2>3. Result = n
    BY <1>3, <1>11, <2>1, <2>2, DivMod DEF Result
  <2> QED BY <2>1, <2>3
<1>12. ASSUME vis["hi"] # call.hi
       PROVE  Back(from) <= vis["hi"] * Half
  <2> DEFINE b == Back(from)
             k == b \div Half
             l == b % Half
  <2>1. b \in Nat
    BY <1>8, BackIs
  <2> HIDE DEF b
  <2>2. k \in Nat /\ l \in 0..(Half - 1) /\ k * Half + l = b
    BY <2>1, DivMod DEF Number
  <2> HIDE DEF k, l
  <2>3. k < vis["hi"] /\ vis["hi"] \in Nat
    <3>1. k <= call.hi
      BY <1>8 DEF b, k
    <3> QED BY <1>7, <1>8, <1>12, <2>2, <3>1, HalfAssumption
  <2>4. /\ (k + 1) * Half <= vis["hi"] * Half /\ (k + 1) * Half = k * Half + Half
        /\ k * Half \in Nat /\ vis["hi"] * Half \in Nat
    BY <2>2, <2>3, Order
  <2>5. b <= vis["hi"] * Half
    BY <2>2, <2>4, HalfAssumption
  <2> QED BY <2>5 DEF b
<1>13. TakenInv'
  <2>1. CASE vis["hi"] = call.hi
    BY <1>3, <2>1 DEF TakenInv
  <2>2. CASE vis["hi"] # call.hi
    <3>1. call'.read = "again" /\ vis["hi"] <= vis'["hi"]
      BY <1>3, <1>5, <1>7, <2>2
    <3>2. Back(from) \div Half <= vis["hi"]
      <4> DEFINE q == Back(from) \div Half
      <4>1. q \in Nat
        BY <1>8, BackIs, DivMod
      <4> HIDE DEF q
      <4>2. q <= call.hi
        BY <1>8 DEF q
      <4>3. q <= vis["hi"]
        BY <1>7, <1>8, <4>1, <4>2
      <4> QED BY <4>3 DEF q
    <3> QED BY <1>1, <1>3, <1>4, <1>5, <1>7, <1>8, <1>9, <1>10, <1>12, <2>2, <3>1, <3>2 DEF TakenInv
  <2> QED BY <2>1, <2>2
<1> QED BY <1>1, <1>3, <1>6, <1>11, <1>13

LEMMA ReturnLag ==
  ASSUME DelayInv, Return
  PROVE  LagInv' /\ TakenInv'
<1>1. /\ call.todo = <<>> /\ call' = NoCall
      /\ UNCHANGED <<timerVars, vis, busy, flight, transit, wait, held, due>>
  BY DEF Return, crossingVars
<1>2. call'.todo = call.todo /\ call'.read = "no"
  BY <1>1 DEF NoCall
<1>3. LagInv'
  BY <1>1, <1>2, AccessLag DEF DelayInv
<1> QED BY <1>2, <1>3 DEF TakenInv

LEMMA DeliverLag ==
  ASSUME DelayInv, NEW S, Deliver(S)
  PROVE  LagInv' /\ TakenInv'
<1> USE DEF DelayInv
<1>1. /\ busy' = busy \ {r \in S : due[r] = "ack"}
      /\ UNCHANGED <<reg, flight, transit, wait, held, call, from, settled>>
  BY DEF Deliver, timerVars, history
<1>2. ASSUME NEW r \in Halves
      PROVE  /\ vis'[r] = IF r \in S /\ (due[r] = "ack" \/ r \notin busy) THEN transit[r] ELSE vis[r]
             /\ r \in busy' <=> r \in busy /\ ~(r \in S /\ due[r] = "ack")
  BY <1>1 DEF Deliver, Regs
<1>3. /\ (Quiet' <=> Quiet) /\ Count' = Count /\ Back(from)' = Back(from)
      /\ \A r : Pend(r)' <=> Pend(r)
  BY <1>1 DEF Quiet, Pend, Count, Number, Back, Lag, Slow
<1>4. \A r \in Halves : vis[r] \in 0..(Half - 1) /\ transit[r] \in 0..(Half - 1) /\ wait[r] \in 0..3
  BY HalfTypes
<1>5. ASSUME Quiet, NEW r \in Halves, r \notin busy'
      PROVE  Behind(r, vis'[r], 4, Count)
  <2>1. CASE vis'[r] = vis[r] /\ r \notin busy
    BY <1>5, <2>1 DEF LagInv
  <2>2. CASE vis'[r] = transit[r] /\ ~Pend(r)
    <3>1. PICK n \in Nat : n <= Count /\ n + (3 - wait[r]) >= Count /\ transit[r] = Part(r, n)
      BY <1>5, <2>2 DEF LagInv, Behind
    <3>2. Count \in Nat /\ wait[r] \in 0..3
      BY <1>4, HalfTypes
    <3>3. n + 4 >= Count
      BY <3>1, <3>2
    <3> QED BY <2>2, <3>1, <3>3 DEF Behind
  <2>3. Pend(r) => r \in busy /\ due[r] # "ack"
    BY DEF AlarmInv, BasicInv, BusyInv, Regs
  <2> QED BY <1>2, <1>5, <2>1, <2>2, <2>3
<1>6. Quiet /\ "hi" \notin busy => vis["hi"] <= vis'["hi"] /\ vis'["hi"] <= transit["hi"]
  BY <1>2, <1>4, HalvesAre DEF LagInv
<1>7. Quiet /\ "hi" \notin busy' => vis'["hi"] <= transit["hi"]
  BY <1>2, <1>4, <1>6, HalvesAre
<1>8. LagInv'
  BY <1>1, <1>3, <1>5, <1>7 DEF LagInv
<1>9. TakenInv'
  <2>1. CASE call.read = "no"
    BY <1>1, <2>1 DEF TakenInv
  <2>2. CASE call.read # "no"
    <3>1. /\ Quiet /\ "hi" \notin busy /\ call.hi \in 0..(Half - 1) /\ call.hi <= vis["hi"]
          /\ "lo" \in busy => from = 0
      BY <2>2 DEF TakenInv
    <3>2. /\ vis["hi"] \in 0..(Half - 1) /\ transit["hi"] \in 0..(Half - 1)
          /\ vis'["hi"] \in {vis["hi"], transit["hi"]}
      BY <1>2, <1>4, HalvesAre
    <3>3. /\ call.hi <= vis'["hi"] /\ "hi" \notin busy' /\ ("lo" \in busy' => "lo" \in busy)
          /\ vis["hi"] <= vis'["hi"]
      BY <1>1, <1>6, <3>1, <3>2
    <3>4. ASSUME call.read = "check", settled
          PROVE  \E n \in Nat : /\ Back(from) <= n /\ n <= Count /\ call.lo = n % Half
                                /\ call.hi <= n \div Half /\ n \div Half <= vis'["hi"]
      <4>1. PICK n \in Nat : /\ Back(from) <= n /\ n <= Count /\ call.lo = n % Half
                             /\ call.hi <= n \div Half /\ n \div Half <= vis["hi"]
        BY <3>4 DEF TakenInv
      <4> DEFINE q == n \div Half
      <4>2. q \in Nat /\ q <= vis["hi"]
        BY <4>1, DivMod
      <4> HIDE DEF q
      <4>3. q <= vis'["hi"]
        BY <3>2, <3>3, <4>2
      <4> QED BY <4>1, <4>3 DEF q
    <3> QED BY <1>1, <1>3, <2>2, <3>1, <3>3, <3>4 DEF TakenInv
  <2> QED BY <2>1, <2>2
<1> QED BY <1>8, <1>9

(* A call begins: it leaves the crossings alone, or is about to clear both *)
(* halves.                                                                 *)
LEMMA CallLag ==
  ASSUME AlarmInv, SeenInv, prompt => LagInv, Start \/ Stop \/ Restart, prompt'
  PROVE  LagInv' /\ TakenInv'
<1>1. PICK writes : /\ Stopping(writes)
                    /\ \/ writes = <<>> /\ prompt' = prompt
                       \/ writes # <<>> /\ Halves \subseteq Targets(writes)
  BY CallSeen
<1>2. /\ Quiet /\ call'.todo = writes /\ call'.read = "no"
      /\ UNCHANGED <<reg, transit, wait>>
      /\ \A r \in Halves : vis'[r] = vis[r] /\ (Pend(r)' <=> Pend(r)) /\ (r \in busy' <=> r \in busy)
  BY <1>1, StoppingSeen
<1>3. LagInv'
  <2>1. CASE writes = <<>> /\ prompt' = prompt
    BY <1>2, <2>1, HalvesAre DEF LagInv, Count, Number
  <2>2. CASE writes # <<>>
    BY <1>2, <2>2 DEF LagInv, Quiet
  <2> QED BY <1>1, <2>1, <2>2
<1>4. TakenInv'
  BY <1>2 DEF TakenInv
<1> QED BY <1>3, <1>4

(* With the last write, which enables the timer, a read may begin: what is *)
(* not cleared yet is about to be.                                         *)
LEMMA NextWriteLag ==
  ASSUME DelayInv, NextWrite
  PROVE  LagInv' /\ TakenInv'
<1> USE DEF DelayInv
<1>1. /\ ~Quiet /\ call'.read = call.read
      /\ UNCHANGED <<reg, transit, wait, due>>
  BY NextWriteSeen
<1>2. TakenInv'
  BY <1>1 DEF TakenInv
<1>3. ASSUME Quiet', NEW x \in Halves
      PROVE  /\ Pend(x)' <=> Pend(x)
             /\ x \in busy' <=> x \in busy
             /\ vis'[x] = vis[x]
             /\ ~Pend(x) => reg[x] = 0 /\ transit[x] = reg[x]
             /\ x \in busy \/ (~Pend(x) /\ vis[x] = transit[x])
  <2>1. x \in busy \/ due[x] = "none"
    BY <1>3, NextWriteSeen
  <2>2. x \notin busy => ~Pend(x)
    BY DEF AlarmInv, BasicInv, BusyInv, Regs
  <2> QED BY <1>3, <2>1, <2>2, NextWriteSeen DEF SeenInv, CopyInv
<1>4. ASSUME NEW r \in Halves, reg[r] = 0, NEW d \in Nat
      PROVE  Behind(r, 0, d, Count)
  <2>1. Count \in Nat /\ 0 = Part(r, Count)
    BY <1>4, HalfTypes, CountParts
  <2> QED BY <2>1 DEF Behind
<1>5. LagInv'
  <2> SUFFICES ASSUME Quiet'
               PROVE  /\ \A r \in Halves :
                           /\ Pend(r) => \A q \in Halves : Pend(q) \/ (reg[q] = 0 /\ transit[q] = 0)
                           /\ ~Pend(r) => Behind(r, transit[r], 3 - wait[r], Count)
                           /\ r \notin busy => Behind(r, vis[r], 4, Count)
                      /\ "hi" \notin busy => vis["hi"] <= transit["hi"]
    BY <1>1, <1>3, HalvesAre DEF LagInv, Count, Number
  <2>1. ASSUME NEW r \in Halves, ~Pend(r)  PROVE Behind(r, transit[r], 3 - wait[r], Count)
    <3>1. reg[r] = 0 /\ transit[r] = 0 /\ 3 - wait[r] \in Nat
      BY <1>3, <2>1, HalfTypes
    <3> QED BY <1>4, <3>1
  <2>2. ASSUME NEW r \in Halves, r \notin busy  PROVE Behind(r, vis[r], 4, Count)
    BY <1>3, <1>4, <2>2
  <2>3. "hi" \notin busy => vis["hi"] <= transit["hi"]
    BY <1>3, HalfTypes, HalvesAre
  <2> QED BY <1>3, <2>1, <2>2, <2>3
<1> QED BY <1>2, <1>5

-----------------------------------------------------------------------------
(* Any prescalers: a slow cycle *)

(* What it does to a half that takes no write when the timer has seen the  *)
(* clears: its copy gets no older than three ticks and a crossing's end.   *)
LEMMA EdgeBehind ==
  ASSUME Half >= 5, AlarmInv, prompt, Quiet, Edge, NEW r \in Halves, \A q \in Halves : ~Pend(q),
         Behind(r, transit[r], 3 - wait[r], Count)
  PROVE  /\ Behind(r, transit'[r], 3 - wait'[r], Count')
         /\ Behind(r, transit[r], 4, Count')
         /\ r = "hi" => transit[r] <= transit'[r]
         /\ Count' >= Count
<1> USE DEF AlarmInv, BasicInv
<1>1. PICK n \in Nat : n <= Count /\ n + (3 - wait[r]) >= Count /\ transit[r] = Part(r, n)
  BY DEF Behind
<1>2. Count \in Nat /\ wait[r] \in 0..3 /\ transit[r] \in 0..(Half - 1) /\ reg[r] = Part(r, Count)
  BY HalfTypes, CountParts
<1>3. /\ ~Accept(r) /\ reg'[r] = Part(r, Count')
      /\ Count' = IF Incr THEN Count + 1 ELSE Count
      /\ ~Incr => reg'[r] = reg[r]
  <2>1. CASE Incr
    BY <2>1, QuietPart
  <2>2. CASE ~Incr
    <3>1. \A q \in Halves : ~Accept(q) /\ reg'[q] = reg[q]
      BY <2>2, EdgeHalf
    <3>2. Count' = Count
      BY <3>1, HalvesAre DEF Count, Number
    <3> QED BY <1>2, <2>2, <3>1, <3>2
  <2> QED BY <2>1, <2>2
<1>4. Count' \in Nat /\ Count' >= Count /\ Count' <= Count + 1
  BY <1>2, <1>3
<1>5. /\ wait[r] # 0 => transit'[r] = transit[r] /\ wait'[r] = wait[r] - 1
      /\ wait[r] = 0 /\ transit[r] = reg'[r] /\ (Incr => transit[r] = reg[r]) =>
           transit'[r] = transit[r] /\ wait'[r] = 0
      /\ wait[r] = 0 /\ transit[r] # reg'[r] => transit'[r] = reg'[r] /\ wait'[r] = 3
  BY <1>3, EdgeCopy
\* A half that has crossed is not what the timer makes it only now.
<1>6. ASSUME Incr, wait[r] = 0, transit[r] = reg'[r]
      PROVE  transit[r] = reg[r]
  <2>1. n < Count' /\ n < n + Half /\ Count' < n + Half /\ Part(r, n) = Part(r, Count')
    BY <1>1, <1>2, <1>3, <1>6, HalfAssumption
  <2>2. CASE r = "lo"
    <3>1. n % Half # Count' % Half
      BY <1>4, <2>1, HalfAssumption, ModApart
    <3> QED BY <2>1, <2>2, <3>1 DEF Part
  <2>3. CASE r = "hi"
    <3>1. n \div Half <= Count \div Half /\ Count \div Half <= Count' \div Half
      BY <1>1, <1>2, <1>4, DivMono
    <3>2. n \div Half \in Nat /\ Count \div Half \in Nat /\ Count' \div Half \in Nat
      BY <1>2, <1>4, DivMod
    <3>3. n \div Half = Count' \div Half
      BY <2>1, <2>3 DEF Part
    <3>4. n \div Half = Count \div Half
      BY <3>1, <3>2, <3>3
    <3> QED BY <1>1, <1>2, <2>3, <3>4 DEF Part
  <2> QED BY <2>2, <2>3, HalvesAre
<1>7. \/ transit'[r] = Part(r, Count') /\ 3 - wait'[r] \in Nat
      \/ wait[r] # 0 /\ transit'[r] = transit[r] /\ wait'[r] = wait[r] - 1
  BY <1>2, <1>3, <1>5, <1>6
<1>8. \E m \in Nat : m <= Count' /\ m + (3 - wait'[r]) >= Count' /\ transit'[r] = Part(r, m)
  <2>1. CASE transit'[r] = Part(r, Count') /\ 3 - wait'[r] \in Nat
    BY <1>4, <2>1
  <2>2. CASE wait[r] # 0 /\ transit'[r] = transit[r] /\ wait'[r] = wait[r] - 1
    <3>1. n <= Count' /\ n + (3 - wait'[r]) >= Count'
      BY <1>1, <1>2, <1>4, <2>2
    <3> QED BY <1>1, <2>2, <3>1
  <2> QED BY <1>7, <2>1, <2>2
<1>9. n <= Count' /\ n + 4 >= Count'
  BY <1>1, <1>2, <1>4
<1>10. ASSUME r = "hi"  PROVE transit[r] <= transit'[r]
  <2>1. CASE transit'[r] = transit[r]
    BY <1>2, <2>1
  <2>2. CASE transit'[r] = Part(r, Count')
    <3>1. n \div Half <= Count' \div Half
      BY <1>1, <1>2, <1>4, DivMono
    <3> QED BY <1>1, <1>10, <2>2, <3>1 DEF Part
  <2> QED BY <1>7, <2>1, <2>2
<1>11. Behind(r, transit'[r], 3 - wait'[r], Count') /\ Behind(r, transit[r], 4, Count')
  BY <1>1, <1>8, <1>9 DEF Behind
<1> QED BY <1>4, <1>10, <1>11

(* A half that is cleared, or about to be, while another is about to be. *)
LEMMA EdgeClears ==
  ASSUME AlarmInv, SeenInv, prompt, Quiet, LagInv, Edge, NEW p \in Halves, Pend(p), NEW r \in Halves
  PROVE  /\ Pend(r)' \/ (reg'[r] = 0 /\ transit'[r] = 0)
         /\ ~Pend(r) => ~Pend(r)' /\ reg'[r] = 0 /\ transit[r] = 0
<1> USE DEF AlarmInv, BasicInv
<1>1. ~Incr
  BY QuietPart
<1>2. Pend(r)' <=> Pend(r) /\ ~Accept(r)
  BY EdgeHalf
<1>3. CASE Accept(r)
  <2>1. Pend(r) /\ vis[r] = 0
    BY <1>3, BeforeEdge, EdgeHalf
  <2> QED BY <1>3, <2>1, EdgeAccept
<1>4. CASE ~Accept(r)
  <2> SUFFICES ASSUME ~Pend(r)  PROVE reg'[r] = 0 /\ transit'[r] = 0 /\ transit[r] = 0 /\ ~Pend(r)'
    BY <1>2, <1>4
  <2>1. reg[r] = 0 /\ transit[r] = 0
    BY DEF LagInv
  <2>2. reg'[r] = 0
    BY <1>1, <1>4, <2>1, EdgeHalf
  <2>3. transit'[r] = 0
    BY <1>1, <1>4, <2>1, <2>2, EdgeCopy, HalfTypes
  <2> QED BY <1>2, <2>1, <2>2, <2>3
<1> QED BY <1>3, <1>4

LEMMA EdgeLag ==
  ASSUME Half >= 5, DelayInv, prompt, Quiet, Edge
  PROVE  LagInv' /\ ("lo" \notin busy /\ "hi" \notin busy => Count' >= Count)
<1> USE DEF DelayInv
<1>1. /\ UNCHANGED <<vis, busy, call>>
      /\ \A r \in Halves : /\ r \in busy <=> Pend(r)
                           /\ r \notin busy => vis[r] = transit[r]
  BY BeforeEdge
<1>2. AlarmInv'
  BY EdgeStep
<1>3. CASE \A r \in Halves : ~Pend(r)
  <2>1. ASSUME NEW r \in Halves
        PROVE  /\ Behind(r, transit'[r], 3 - wait'[r], Count')
               /\ Behind(r, transit[r], 4, Count')
               /\ r = "hi" => transit[r] <= transit'[r]
               /\ Count' >= Count
    <3>1. Behind(r, transit[r], 3 - wait[r], Count)
      BY <1>3 DEF LagInv
    <3> QED BY <1>3, <3>1, EdgeBehind
  <2>2. \A r \in Halves : ~Pend(r)'
    BY <1>3, EdgeHalf DEF AlarmInv, BasicInv
  <2> QED BY <1>1, <1>3, <2>1, <2>2, HalvesAre DEF LagInv
<1>4. CASE \E p \in Halves : Pend(p)
  <2>1. ASSUME NEW r \in Halves
        PROVE  /\ Pend(r)' \/ (reg'[r] = 0 /\ transit'[r] = 0)
               /\ ~Pend(r) => ~Pend(r)' /\ reg'[r] = 0 /\ transit[r] = 0
    BY <1>4, EdgeClears
  <2>2. ASSUME NEW r \in Halves, reg'[r] = 0, NEW d \in Nat
        PROVE  Behind(r, 0, d, Count')
    <3>1. reg'["hi"] \in 0..(Half - 1) /\ reg'["lo"] \in 0..(Half - 1)
      BY <1>2, HalvesAre DEF AlarmInv, BasicInv, TypeOK
    <3>2. Count' \in Nat /\ Part(r, Count') = reg'[r]
      BY <3>1, NumberParts, HalvesAre DEF Count
    <3> QED BY <2>2, <3>2 DEF Behind
  <2>3. ASSUME NEW r \in Halves, ~Pend(r)'  PROVE Behind(r, transit'[r], 3 - wait'[r], Count')
    <3>1. wait'[r] \in 0..3
      BY <1>2 DEF AlarmInv, BasicInv, TypeOK
    <3>2. reg'[r] = 0 /\ transit'[r] = 0 /\ 3 - wait'[r] \in Nat
      BY <2>1, <2>3, <3>1
    <3> QED BY <2>2, <3>2
  <2>4. ASSUME NEW r \in Halves, r \notin busy
        PROVE  Behind(r, vis[r], 4, Count') /\ vis[r] = 0 /\ ~Pend(r)'
    <3>1. vis[r] = 0 /\ reg'[r] = 0 /\ ~Pend(r)'
      BY <1>1, <2>1, <2>4
    <3> QED BY <2>2, <3>1
  <2>5. "hi" \notin busy => vis["hi"] = 0 /\ transit'["hi"] = 0
    BY <2>1, <2>4, HalvesAre
  <2>6. ~("lo" \notin busy /\ "hi" \notin busy)
    BY <1>1, <1>4, HalvesAre
  <2> QED BY <1>1, <2>1, <2>3, <2>4, <2>5, <2>6 DEF LagInv
<1> QED BY <1>3, <1>4

LEMMA EdgeTaken ==
  ASSUME Half >= 5, DelayInv, prompt, Edge
  PROVE  TakenInv'
<1> USE DEF DelayInv
<1>1. UNCHANGED <<vis, busy, call, from, settled>>
  BY DEF Edge
<1>2. CASE call.read = "no"
  BY <1>1, <1>2 DEF TakenInv
<1>3. CASE call.read # "no"
  <2>1. /\ Quiet /\ "hi" \notin busy /\ from \in Nat /\ from <= Count /\ ("lo" \in busy => from = 0)
        /\ Quiet' /\ Back(from)' = Back(from)
    BY <1>1, <1>3 DEF TakenInv, Quiet, Back, Lag, Slow
  <2>2. "lo" \notin busy => Count' >= Count
    BY <2>1, EdgeLag
  <2>3. Count \in Nat /\ Count' \in Nat
    <3>1. reg'["hi"] \in 0..(Half - 1) /\ reg'["lo"] \in 0..(Half - 1)
      BY EdgeStep, HalvesAre DEF AlarmInv, BasicInv, TypeOK
    <3> QED BY <3>1, HalfTypes, HalfAssumption DEF Count, Number
  <2>4. from <= Count'
    BY <2>1, <2>2, <2>3
  <2>5. ASSUME call.read = "check", settled
        PROVE  "lo" \notin busy /\
               \E n \in Nat : /\ Back(from) <= n /\ n <= Count' /\ call.lo = n % Half
                              /\ call.hi <= n \div Half /\ n \div Half <= vis["hi"]
    <3>1. PICK n \in Nat : /\ Back(from) <= n /\ n <= Count /\ call.lo = n % Half
                           /\ call.hi <= n \div Half /\ n \div Half <= vis["hi"]
      BY <2>5 DEF TakenInv
    <3>2. "lo" \notin busy
      BY <2>5 DEF TakenInv
    <3>3. n <= Count'
      BY <2>2, <2>3, <3>1, <3>2
    <3> QED BY <3>1, <3>2, <3>3
  <2> QED BY <1>1, <1>3, <2>1, <2>4, <2>5 DEF TakenInv
<1> QED BY <1>2, <1>3

-----------------------------------------------------------------------------
(* The theorem *)

ReadsInv ==
  /\ AlarmInv /\ SeenInv
  /\ Slow => ShownInv /\ ReadInv
  /\ prompt /\ ~Slow => LagInv /\ TakenInv

LEMMA ReadsInit ==
  ASSUME Init
  PROVE  ReadsInv
<1> USE DEF Init
<1>1. AlarmInv /\ SeenInv /\ ShownInv /\ ReadInv
  BY RecentInit DEF RecentInv
<1>2. /\ busy = {} /\ call.read = "no"
      /\ \A r \in Halves : /\ r \in Regs /\ reg[r] = 0 /\ transit[r] = 0 /\ vis[r] = 0
                           /\ wait[r] = 0 /\ ~Pend(r)
  BY DEF NoCall, Halves, Regs, Pend
<1>3. ASSUME NEW r \in Halves, NEW d \in Nat  PROVE Behind(r, 0, d, Count)
  <2>1. Count \in Nat /\ 0 = Part(r, Count)
    BY <1>1, <1>2, HalfTypes, CountParts
  <2> QED BY <2>1 DEF Behind
<1>4. LagInv
  BY <1>2, <1>3, HalvesAre DEF LagInv
<1>5. TakenInv
  BY <1>2 DEF TakenInv
<1> QED BY <1>1, <1>4, <1>5 DEF ReadsInv

LEMMA DelayStep ==
  ASSUME Half >= 5, ~Slow, ReadsInv, [Next]_vars, prompt'
  PROVE  LagInv' /\ TakenInv'
<1>1. AlarmInv /\ SeenInv /\ (prompt => DelayInv)
  BY DEF ReadsInv, DelayInv
<1>2. CASE Edge
  <2>1. prompt
    BY <1>2 DEF Edge
  <2>2. CASE Quiet
    BY <1>1, <1>2, <2>1, <2>2, EdgeLag, EdgeTaken
  <2>3. CASE ~Quiet
    <3>1. ~Quiet'
      BY <1>2, <2>3 DEF Quiet, Edge
    <3> QED BY <1>1, <1>2, <2>1, <3>1, EdgeTaken DEF LagInv
  <2> QED BY <2>2, <2>3
<1>3. CASE \E S \in SUBSET Regs : Deliver(S)
  <2>1. prompt
    BY <1>3 DEF Deliver, history
  <2> QED BY <1>1, <1>3, <2>1, DeliverLag
<1>4. CASE Start \/ Stop \/ Restart
  <2>1. prompt => LagInv
    BY <1>1 DEF DelayInv
  <2> QED BY <1>1, <1>4, <2>1, CallLag
<1>5. CASE NextWrite
  BY <1>1, <1>5, NextWriteSeen, NextWriteLag
<1>6. CASE GetCount \/ ReadLow \/ ReadCheck \/ Return
  <2>1. prompt
    BY <1>1, <1>6, ReadsSeen
  <2> QED BY <1>1, <1>6, <2>1, GetCountLag, ReadLowLag, ReadCheckLag, ReturnLag
<1>7. CASE UNCHANGED vars
  <2>1. /\ prompt' = prompt /\ UNCHANGED <<reg, vis, busy, call, from, settled>>
        /\ UNCHANGED <<timerVars, vis, busy, flight, transit, wait, held, due>>
    BY <1>7 DEF vars, crossingVars, history, timerVars
  <2>2. LagInv'
    BY <1>1, <2>1, AccessLag DEF DelayInv
  <2>3. TakenInv'
    BY <1>1, <2>1 DEF DelayInv, TakenInv, Quiet, Count, Number, Back, Lag, Slow
  <2> QED BY <2>2, <2>3
<1> QED BY <1>2, <1>3, <1>4, <1>5, <1>6, <1>7 DEF Next

LEMMA ReadsStep ==
  ASSUME Half >= 5, ReadsInv, [Next]_vars
  PROVE  ReadsInv'
<1>1. AlarmInv' /\ SeenInv'
  BY AlarmStep, SeenStep DEF ReadsInv
<1>2. Slow' <=> Slow
  BY DEF Slow
<1>3. Slow => ShownInv' /\ ReadInv'
  BY RecentStep, HalfAssumption DEF ReadsInv, RecentInv
<1>4. ~Slow /\ prompt' => LagInv' /\ TakenInv'
  BY DelayStep
<1> QED BY <1>1, <1>2, <1>3, <1>4 DEF ReadsInv

(* What a read returns. *)
LEMMA ReadsReturn ==
  ASSUME ReadsInv, [Next]_vars, ReadDone, Slow \/ (prompt /\ settled')
  PROVE  Result <= Count /\ Result >= Back(from)
<1>1. \/ ReadLow /\ call.read = "again"
      \/ ReadCheck /\ call'.read = "no"
  <2>1. CASE Edge \/ \E S \in SUBSET Regs : Deliver(S)
    BY <2>1 DEF Edge, Deliver, ReadDone
  <2>2. CASE Start \/ Stop \/ Restart
    <3>1. call = NoCall
      BY <2>2 DEF Start, Stop, Restart, Stopping
    <3> QED BY <3>1 DEF NoCall, ReadDone
  <2>3. CASE NextWrite
    BY <2>3, NextWriteSeen DEF ReadsInv, ReadDone
  <2>4. CASE GetCount
    BY <2>4 DEF GetCount, NoCall, ReadDone
  <2>5. CASE ReadLow
    <3>1. DOMAIN call = {"todo", "read", "hi", "lo"}
      BY DEF ReadsInv, AlarmInv, BasicInv, TypeOK, NoCall
    <3> QED BY <2>5, <3>1 DEF ReadLow, ReadDone
  <2>6. CASE ReadCheck
    BY <2>6 DEF ReadDone
  <2>7. CASE Return \/ UNCHANGED vars
    BY <2>7 DEF Return, ReadDone, vars
  <2> QED BY <2>1, <2>2, <2>3, <2>4, <2>5, <2>6, <2>7 DEF Next
<1>2. CASE Slow
  <2>1. Result <= Count /\ Result >= from - 1 /\ from \in Nat
    BY <1>1, <1>2, ReadLowRecent, ReadCheckRecent DEF ReadsInv, RecentInv, ReadInv
  <2>2. Result >= 0
    <3>1. DOMAIN call = {"todo", "read", "hi", "lo"}
      BY DEF ReadsInv, AlarmInv, BasicInv, TypeOK, NoCall
    <3>2. vis["lo"] \in 0..(Half - 1) /\ vis["hi"] \in 0..(Half - 1)
      BY HalfTypes, HalvesAre DEF ReadsInv
    <3>3. CASE ReadLow
      <4>1. call'.hi = call.hi /\ call'.lo = vis["lo"] /\ call.read # "no"
        BY <3>1, <3>3 DEF ReadLow
      <4>2. call.hi \in 0..(Half - 1)
        BY <1>2, <4>1 DEF ReadsInv, ReadInv
      <4> QED BY <3>2, <4>1, <4>2, HalfAssumption DEF Result, Number
    <3>4. CASE ReadCheck
      <4>1. call'.hi = vis["hi"] /\ call'.lo = call.lo /\ call.read = "check"
        BY <3>1, <3>4 DEF ReadCheck
      <4>2. call.lo \in 0..(Half - 1)
        BY <1>2, <4>1 DEF ReadsInv, ReadInv
      <4> QED BY <3>2, <4>1, <4>2, HalfAssumption DEF Result, Number
    <3> QED BY <1>1, <3>3, <3>4
  <2> QED BY <1>2, <2>1, <2>2 DEF Back, Lag
<1>3. CASE ~Slow
  <2>1. prompt /\ settled' /\ DelayInv
    BY <1>3 DEF ReadsInv, DelayInv
  <2> QED BY <1>1, <1>3, <2>1, ReadLowLag, ReadCheckLag
<1> QED BY <1>2, <1>3

(* A read returns a count that the timer had during the call or a few      *)
(* ticks before, at any width of the counter and any prescaler: where one  *)
(* is below 5, if the driver was prompt and the lower half had not just    *)
(* wrapped.                                                                *)
THEOREM ReadsAreRecent == ASSUME Half >= 5  PROVE Spec => ReadIsRecent
<1>1. Init => ReadsInv
  BY ReadsInit
<1>2. ReadsInv /\ [Next]_vars => ReadsInv'
  BY ReadsStep
<1>3. ReadsInv /\ [Next]_vars =>
        (ReadDone /\ (Slow \/ (prompt /\ settled')) => Result <= Count /\ Result >= Back(from))
  BY ReadsReturn
<1> QED BY <1>1, <1>2, <1>3, PTL DEF Spec, ReadIsRecent
=============================================================================
