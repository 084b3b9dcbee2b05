------------------------------ MODULE AonTimer ------------------------------
(***************************************************************************)
(* The wake-up timer of the always-on timer (aon_timer_core.sv), its       *)
(* registers across two clocks (prim_reg_cdc.sv, prim_reg_cdc_arb.sv), and *)
(* its driver, dif_aon_timer.c.                                            *)
(*                                                                         *)
(* The timer runs on a slow clock: a step Edge ends one of its cycles.     *)
(* Software runs hundreds of cycles of its own in between, so any number   *)
(* of accesses fit into one slow cycle, and any number of slow cycles      *)
(* between two accesses.  Each register has a copy on software's side,     *)
(* which is what software reads, and each crosses on its own.              *)
(***************************************************************************)
EXTENDS Integers, Sequences

CONSTANTS Half,           \* number of values of half the counter (2^32)
          PrescalerMask,  \* largest value of the prescaler's counter (2^12 - 1)
          Prescalers,     \* the prescalers software starts the timer with
          Thresholds,     \* the thresholds software starts the timer with
          MaxCount        \* bound: the run ends where the count would pass it

ASSUME HalfAssumption      == Half \in Nat /\ Half >= 2
ASSUME PrescalerAssumption == PrescalerMask \in Nat /\ Prescalers \subseteq 0..PrescalerMask
ASSUME CountAssumption     == MaxCount \in Nat /\ MaxCount < Half * Half
ASSUME ThresholdAssumption == Thresholds \subseteq 1..(Half * Half)

Halves == {"lo", "hi"}                                \* WKUP_COUNT_LO, _HI
Regs   == Halves \cup {"ctrl", "tholdLo", "tholdHi"}  \* WKUP_CTRL, WKUP_THOLD_LO, _HI

VARIABLES
  reg,            \* the timer's registers
  prescaleCount,  \* the prescaler's counter
  vis,            \* software's side: the value written last, or brought over last
  busy,           \* software's side: registers with an unacknowledged write
  flight,         \* slow cycles a write still takes; the timer sees it at 1
  transit,        \* per half: the value crossing, or last crossed, to software
  wait,           \* per half: slow cycles until that crossing is over
  held,           \* per half: a write that arrived during a crossing
  due,            \* what software's side is about to see: an ack, an update
  skew,           \* some, not all of it was seen: "none", "open", "used"
  call,           \* the driver call in progress: writes to do, or halves read
  threshold, ticks, prompt, from, settled  \* history: see "Properties"

timerVars    == <<reg, prescaleCount>>
crossingVars == <<vis, busy, flight, transit, wait, held, due, skew>>
history      == <<threshold, ticks, prompt, from, settled>>
vars         == <<timerVars, crossingVars, call, history>>

-----------------------------------------------------------------------------
(* The timer *)

Number(hi, lo) == hi * Half + lo

Count == Number(reg["hi"], reg["lo"])

Incr == reg["ctrl"].on /\ prescaleCount = reg["ctrl"].prescaler

NextHalf(r) == IF r = "lo" THEN (Count + 1) % Half ELSE ((Count + 1) \div Half) % Half

\* wkup_intr_o
Alarm == Incr /\ Count >= Number(reg["tholdHi"], reg["tholdLo"])

Slow == \A p \in Prescalers : p >= 5

\* the oldest count that software's side may still show of the count n
Lag     == IF Slow THEN 1 ELSE 4
Back(n) == IF n > Lag THEN n - Lag ELSE 0

\* The counter keeps its value while the timer is disabled.
Prescaler ==
  prescaleCount' = IF ~reg["ctrl"].on THEN prescaleCount
                   ELSE IF Incr THEN 0 ELSE (prescaleCount + 1) % (PrescalerMask + 1)

-----------------------------------------------------------------------------
(* The crossing *)

Pulse(r) == flight[r] = 1

\* A write that arrives at a half whose crossing is under way is held.
Accept(r) == IF r \in Halves THEN wait[r] = 0 /\ (Pulse(r) \/ held[r]) ELSE Pulse(r)

\* what the register holds from the next slow cycle on; software's write wins
Ds(r) == IF Accept(r) THEN vis[r] ELSE IF r \in Halves /\ Incr THEN NextHalf(r) ELSE reg[r]

\* A crossing begins with software's write, a change by the timer, or a change
\* missed while another was under way.
LatchD(r) == wait[r] = 0 /\ (Accept(r) \/ (Incr /\ transit[r] # Ds(r)))
LatchQ(r) == wait[r] = 0 /\ ~LatchD(r) /\ transit[r] # reg[r]

Event(r) ==
  IF Accept(r) THEN "ack" ELSE IF r \in Halves /\ (LatchD(r) \/ LatchQ(r)) THEN "update" ELSE "none"

Edge ==
  /\ \A r \in Regs : due[r] = "none"
  /\ Incr => Count < MaxCount
  /\ reg' = [r \in Regs |-> Ds(r)]
  /\ Prescaler
  /\ flight' = [r \in Regs |-> IF flight[r] = 0 THEN 0 ELSE flight[r] - 1]
  /\ transit' = [r \in Halves |-> IF LatchD(r) THEN Ds(r) ELSE IF LatchQ(r) THEN reg[r] ELSE transit[r]]
  /\ wait' = [r \in Halves |-> IF LatchD(r) \/ LatchQ(r) THEN 3
                               ELSE IF wait[r] = 0 THEN 0 ELSE wait[r] - 1]
  /\ held' = [r \in Halves |-> wait[r] # 0 /\ (held[r] \/ Pulse(r))]
  /\ due' = [r \in Regs |-> Event(r)]
  /\ ticks' = IF Incr /\ vis["ctrl"].on THEN ticks + 1 ELSE ticks
  /\ prompt' = (prompt /\ \A i \in DOMAIN call.todo : call.todo[i][1] \notin Halves)
  /\ UNCHANGED <<vis, busy, skew, call, threshold, from, settled>>

\* Acks and updates of the registers in S reach software's side.  Those of one
\* edge may take a cycle of software's clock more or less than one another.
Deliver(S) ==
  LET all == {r \in Regs : due[r] # "none"}
  IN  /\ S # {} /\ S \subseteq all
      /\ skew # "none" => S = all
      /\ vis' = [r \in Regs |-> IF r \in S \cap Halves /\ (due[r] = "ack" \/ r \notin busy)
                                THEN transit[r] ELSE vis[r]]
      /\ busy' = busy \ {r \in S : due[r] = "ack"}
      /\ due' = [r \in Regs |-> IF r \in S THEN "none" ELSE due[r]]
      /\ skew' = IF S = all THEN "none" ELSE "open"
      /\ UNCHANGED <<timerVars, flight, transit, wait, held, call, history>>

-----------------------------------------------------------------------------
(* Software: register accesses.  A register with a write on its way keeps  *)
(* the next access to it waiting (tlul_adapter_reg).                       *)

Access(r) ==
  /\ r \notin busy
  /\ skew # "used"
  /\ skew' = IF skew = "none" THEN "none" ELSE "used"

Write(r, val) ==
  /\ Access(r)
  /\ vis' = [vis EXCEPT ![r] = val]
  /\ busy' = busy \cup {r}
  /\ flight' = [flight EXCEPT ![r] = 3]
  /\ UNCHANGED <<timerVars, transit, wait, held, due>>

Read(r) ==
  /\ Access(r)
  /\ UNCHANGED <<timerVars, vis, busy, flight, transit, wait, held, due>>

-----------------------------------------------------------------------------
(* The driver *)

NoCall == [todo |-> <<>>, read |-> "no", hi |-> 0, lo |-> 0]

\* aon_timer_wakeup_toggle: what is written back to WKUP_CTRL
Toggled(enable) == [vis["ctrl"] EXCEPT !.on = enable]

ClearCounter == << <<"lo", 0>>, <<"hi", 0>> >>

\* dif_aon_timer_wakeup_start, after the timer is stopped
StartWrites(thold, prescaler) ==
  ClearCounter \o << <<"tholdLo", (thold - 1) % Half>>, <<"tholdHi", (thold - 1) \div Half>>,
                     <<"ctrl", [on |-> TRUE, prescaler |-> prescaler]>> >>

\* Mutant: only the lower half is cleared
RestartWritesLow == << <<"lo", 0>>, <<"ctrl", Toggled(TRUE)>> >>

\* dif_aon_timer_wakeup_restart, after the timer is stopped
RestartWrites == ClearCounter \o << <<"ctrl", Toggled(TRUE)>> >>

\* Each call that changes the timer stops it first.
Stopping(writes) ==
  /\ call = NoCall
  /\ Write("ctrl", Toggled(FALSE))
  /\ call' = [NoCall EXCEPT !.todo = writes]
  /\ UNCHANGED <<ticks, from, settled>>

Start ==
  /\ \E thold \in Thresholds, prescaler \in Prescalers :
       Stopping(StartWrites(thold, prescaler)) /\ threshold' = thold
  /\ prompt' = TRUE

Stop == Stopping(<<>>) /\ UNCHANGED <<threshold, prompt>>

\* software restarts only a timer that it started
Restart ==
  /\ vis["ctrl"].prescaler \in Prescalers
  /\ Stopping(RestartWrites) /\ UNCHANGED threshold
  /\ prompt' = TRUE

NextWrite ==
  /\ call.todo # <<>>
  /\ Write(Head(call.todo)[1], Head(call.todo)[2])
  /\ call' = [call EXCEPT !.todo = Tail(@)]
  /\ ticks' = IF Head(call.todo)[1] = "ctrl" THEN 0 ELSE ticks
  /\ UNCHANGED <<threshold, prompt, from, settled>>

\* dif_aon_timer_wakeup_get_count
GetCount ==
  /\ call = NoCall
  /\ Read("hi")
  /\ call' = [call EXCEPT !.read = "lo", !.hi = vis["hi"]]
  /\ from' = IF "lo" \in busy THEN 0 ELSE Count
  /\ UNCHANGED <<threshold, ticks, prompt, settled>>

ReadLow ==
  /\ call.read \in {"lo", "again"}
  /\ Read("lo")
  /\ call' = [call EXCEPT !.read = IF @ = "lo" THEN "check" ELSE "no", !.lo = vis["lo"]]
  /\ settled' = (Back(Count) \div Half = Count \div Half)
  /\ UNCHANGED <<threshold, ticks, prompt, from>>

\* Mutant: the lower half is kept although the upper one has moved
ReadCheckKeepsLow ==
  /\ call.read = "check"
  /\ Read("hi")
  /\ call' = [call EXCEPT !.read = "no", !.hi = vis["hi"]]
  /\ UNCHANGED history

ReadCheck ==
  /\ call.read = "check"
  /\ Read("hi")
  /\ call' = [call EXCEPT !.read = IF vis["hi"] = call.hi THEN "no" ELSE "again", !.hi = vis["hi"]]
  /\ UNCHANGED history

\* the caller takes the count
Return ==
  /\ call # NoCall /\ call.todo = <<>> /\ call.read = "no"
  /\ call' = NoCall
  /\ from' = 0 /\ settled' = TRUE
  /\ UNCHANGED <<timerVars, crossingVars, threshold, ticks, prompt>>

-----------------------------------------------------------------------------

Init ==
  /\ reg = [r \in Regs |-> IF r = "ctrl" THEN [on |-> FALSE, prescaler |-> 0] ELSE 0]
  /\ vis = reg
  /\ prescaleCount = 0
  /\ busy = {} /\ skew = "none"
  /\ flight = [r \in Regs |-> 0]
  /\ transit = [r \in Halves |-> 0]
  /\ wait = [r \in Halves |-> 0]
  /\ held = [r \in Halves |-> FALSE]
  /\ due = [r \in Regs |-> "none"]
  /\ call = NoCall
  /\ threshold = 1 /\ ticks = 0 /\ prompt = TRUE /\ from = 0 /\ settled = TRUE

Next ==
  \/ Edge
  \/ \E S \in SUBSET Regs : Deliver(S)
  \/ Start \/ Stop \/ Restart \/ NextWrite
  \/ GetCount \/ ReadLow \/ ReadCheck \/ Return

Spec == Init /\ [][Next]_vars

-----------------------------------------------------------------------------
(* Properties.  threshold is what the timer was started with last; ticks   *)
(* counts its increments since it was enabled last; prompt says that the   *)
(* last start or restart wrote both halves of the cleared counter in the   *)
(* slow cycle in which it stopped the timer; from is the count when the    *)
(* read in progress began (0 while a clear is on its way); settled says    *)
(* that it read the lower half at a time when that had not just wrapped.   *)

\* The timer raises its alarm with the tick that makes it the threshold's
\* number of ticks since it was started or restarted, and with each tick
\* after it, never before: the enable overtakes neither a clear of the
\* counter nor a half of the threshold, which cross on their own.  Where
\* ticks come sooner than every sixth slow cycle, this takes a prompt driver:
\* a clear held by a crossing that the timer began may follow the first tick.
AlarmOnTime ==
  (prompt \/ Slow) /\ Incr /\ vis["ctrl"].on => (Alarm <=> ticks + 1 >= threshold)

ReadDone == call.read # "no" /\ call'.read = "no"

Result == Number(call'.hi, call'.lo)

\* The 64-bit count put together from two registers that cross on their own
\* is one the timer had during the call, or a few ticks before it.  Where
\* ticks come sooner than every sixth slow cycle, this takes a prompt driver,
\* and a lower half that has not just wrapped: see ReadNotAhead.
ReadIsRecent ==
  [][ReadDone /\ (Slow \/ (prompt /\ settled')) => Result <= Count /\ Result >= Back(from)]_vars

\* What dif_aon_timer_wakeup_get_count reads the upper half twice for, as its
\* comment says: the count is not ahead of the timer.  It may be: the halves
\* cross one at a time, and the upper one is the new one both times where a
\* crossing of the lower one has yet to end.
ReadNotAhead == [][ReadDone /\ prompt => Result <= Count]_vars
=============================================================================
