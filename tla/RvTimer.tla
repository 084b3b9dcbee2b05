------------------------------ MODULE RvTimer ------------------------------
(***************************************************************************)
(* The real-time timer (rv_timer.sv, timer_core.sv) and its driver,        *)
(* dif_rv_timer.c.  A step is one clock cycle of the timer; in a cycle     *)
(* software makes at most one register access, and between two accesses of *)
(* a driver call any number of cycles may pass.                            *)
(*                                                                         *)
(* Counter and comparator have two halves of Half values each (2^32 in the *)
(* chip), which only separate accesses can reach.  There is one hart and   *)
(* one comparator, as in the chip.                                         *)
(***************************************************************************)
EXTENDS Integers

CONSTANTS Half,         \* number of values of half a counter
          MaxPrescale,  \* largest prescaler (2^12 - 1 in the chip)
          MaxStep       \* largest increment per tick (2^8 - 1 in the chip)

ASSUME HalfAssumption        == Half \in Nat /\ Half >= 2
ASSUME MaxPrescaleAssumption == MaxPrescale \in Nat
ASSUME MaxStepAssumption     == MaxStep \in 1..(Half - 1)

Word  == 0..(Half - 1)
Top   == Half - 1
Times == Word \X Word

AtOrAfter(t, u) == t[1] > u[1] \/ (t[1] = u[1] /\ t[2] >= u[2])

VARIABLES
  active, prescale, step,      \* CTRL, CFG0
  tickCount,                   \* the prescaler's counter
  upper, lower,                \* TIMER_V_UPPER0, TIMER_V_LOWER0
  cmpUpper, cmpLower,          \* COMPARE_UPPER0_0, COMPARE_LOWER0_0
  cmpWritten,                  \* mtimecmp_update: a half was written one cycle ago
  intrState,                   \* INTR_STATE0
  call,                        \* the driver call in progress, with its locals
  seen,                        \* history: the counter's values since the read began
  carries                      \* history: carries into the upper half since it was read

config   == <<active, prescale, step>>
counter  == <<upper, lower>>
deadline == <<cmpUpper, cmpLower>>
history  == <<seen, carries>>
vars     == <<config, tickCount, counter, deadline, cmpWritten, intrState, call, history>>

-----------------------------------------------------------------------------
(* The hardware: one clock cycle.                                          *)

Tick == active /\ tickCount >= prescale

Carry == Tick /\ lower + step >= Half

Plus(a, b) == IF a + b >= Half THEN a + b - Half ELSE a + b

\* Mutant: the halves count separately
NextUpperNoCarry == upper

NextUpper == IF Carry THEN Plus(upper, 1) ELSE upper
NextLower == IF Tick THEN Plus(lower, step) ELSE lower

Expired == active /\ AtOrAfter(counter, deadline)

\* a write of one to the bit wins; one cycle after a write of the comparator
\* the bit is cleared, whatever the comparator says
IntrState(clear) ==
  intrState' = IF clear \/ cmpWritten THEN FALSE ELSE intrState \/ Expired

\* The prescaler's counter; it wraps at its width
Prescaler ==
  tickCount' = IF ~active \/ tickCount = prescale THEN 0 ELSE (tickCount + 1) % (MaxPrescale + 1)

\* One cycle in which software writes val to reg, or nothing ("none").  A write
\* of a counter half wins over the tick of the same cycle.
Cycle(reg, val) ==
  /\ active' = IF reg = "ctrl" THEN val ELSE active
  /\ prescale' = IF reg = "cfg" THEN val[1] ELSE prescale
  /\ step' = IF reg = "cfg" THEN val[2] ELSE step
  /\ upper' = IF reg = "upper" THEN val ELSE NextUpper
  /\ lower' = IF reg = "lower" THEN val ELSE NextLower
  /\ cmpUpper' = IF reg = "cmpUpper" THEN val ELSE cmpUpper
  /\ cmpLower' = IF reg = "cmpLower" THEN val ELSE cmpLower
  /\ cmpWritten' = (reg \in {"cmpUpper", "cmpLower"})
  /\ IntrState(reg = "intrState")
  /\ Prescaler

-----------------------------------------------------------------------------
(* The driver.  call.at is the next access of the call in progress; hi and *)
(* lo are the halves it was given or has read, on the enable bit it keeps. *)

Reading == {"readLower", "readCheck", "readUpper"}

Idle == call.at = "idle"

Goto(label) == call' = [call EXCEPT !.at = label]

\* the values seen by a read in progress, and the carries since its last read
\* of the upper half; Half of them take the counter all the way round
Recorded ==
  /\ seen' = seen \cup {<<NextUpper, NextLower>>}
  /\ carries' = IF Carry /\ carries < Half THEN carries + 1 ELSE carries

NoHistory == seen' = {} /\ carries' = 0

\* a cycle without an access: software computes, or nobody does anything
Elapse ==
  /\ Cycle("none", 0)
  /\ UNCHANGED call
  /\ IF call.at \in Reading THEN Recorded ELSE UNCHANGED history

-----------------------------------------------------------------------------
(* dif_rv_timer_counter_read *)

ReadUpper ==
  /\ call.at \in {"idle", "readUpper"}
  /\ Cycle("none", 0)
  /\ call' = [call EXCEPT !.at = "readLower", !.hi = upper]
  /\ seen' = seen \cup {counter, <<NextUpper, NextLower>>}
  /\ carries' = IF Carry THEN 1 ELSE 0

ReadLower ==
  /\ call.at = "readLower"
  /\ Cycle("none", 0)
  /\ call' = [call EXCEPT !.at = "readCheck", !.lo = lower]
  /\ Recorded

\* Mutant: the lower half is taken as it comes
ReadCheckSkipped ==
  /\ call.at = "readCheck"
  /\ Cycle("none", 0)
  /\ Goto("idle")
  /\ NoHistory

\* upper = overflow_check, or take the measurement again
ReadCheck ==
  /\ call.at = "readCheck"
  /\ Cycle("none", 0)
  /\ IF upper = call.hi THEN Goto("idle") /\ NoHistory ELSE Goto("readUpper") /\ Recorded

ReadReturns == call.at = "readCheck" /\ call'.at = "idle"

-----------------------------------------------------------------------------
(* dif_rv_timer_counter_write: the counter is stopped meanwhile *)

WriteReadCtrl ==
  /\ Idle
  /\ \E t \in Times :
       call' = [at |-> "writeStop", hi |-> t[1], lo |-> t[2], on |-> active]
  /\ Cycle("none", 0) /\ UNCHANGED history

WriteStop    == call.at = "writeStop" /\ Cycle("ctrl", FALSE) /\ Goto("writeLower") /\ UNCHANGED history
WriteLower   == call.at = "writeLower" /\ Cycle("lower", call.lo) /\ Goto("writeUpper") /\ UNCHANGED history
WriteUpper   == call.at = "writeUpper" /\ Cycle("upper", call.hi) /\ Goto("writeRestore") /\ UNCHANGED history
WriteRestore == call.at = "writeRestore" /\ Cycle("ctrl", call.on) /\ Goto("idle") /\ UNCHANGED history

-----------------------------------------------------------------------------
(* dif_rv_timer_arm *)

\* Mutant: the new lower half is written while the old upper half is in force
ArmTopSkipped ==
  /\ Idle
  /\ \E t \in Times : call' = [call EXCEPT !.at = "armLower", !.hi = t[1], !.lo = t[2]]
  /\ Cycle("cmpUpper", cmpUpper) /\ UNCHANGED history

\* the upper half out of reach first
ArmTop ==
  /\ Idle
  /\ \E t \in Times : call' = [call EXCEPT !.at = "armLower", !.hi = t[1], !.lo = t[2]]
  /\ Cycle("cmpUpper", Top) /\ UNCHANGED history

ArmLower == call.at = "armLower" /\ Cycle("cmpLower", call.lo) /\ Goto("armUpper") /\ UNCHANGED history
ArmUpper == call.at = "armUpper" /\ Cycle("cmpUpper", call.hi) /\ Goto("idle") /\ UNCHANGED history

Arming == call.at \in {"armLower", "armUpper", "resetArmLower", "resetArmUpper"}

-----------------------------------------------------------------------------
(* dif_rv_timer_reset; that it disables the interrupt too is left out with *)
(* the interrupt's enable bit                                              *)

ResetStop     == Idle /\ Cycle("ctrl", FALSE) /\ Goto("resetIntr") /\ UNCHANGED history
ResetIntr     == call.at = "resetIntr" /\ Cycle("intrState", TRUE) /\ Goto("resetArmTop") /\ UNCHANGED history
ResetArmTop   == call.at = "resetArmTop" /\ Cycle("cmpUpper", Top) /\ Goto("resetArmLower") /\ UNCHANGED history
ResetArmLower == call.at = "resetArmLower" /\ Cycle("cmpLower", Top) /\ Goto("resetArmUpper") /\ UNCHANGED history
ResetArmUpper == call.at = "resetArmUpper" /\ Cycle("cmpUpper", Top) /\ Goto("resetLower") /\ UNCHANGED history
ResetLower    == call.at = "resetLower" /\ Cycle("lower", 0) /\ Goto("resetUpper") /\ UNCHANGED history
ResetUpper    == call.at = "resetUpper" /\ Cycle("upper", 0) /\ Goto("idle") /\ UNCHANGED history

-----------------------------------------------------------------------------
(* The calls of one or two accesses *)

\* dif_rv_timer_counter_set_enabled reads CTRL and writes it; with one hart
\* what it read does not matter
SetEnabled ==
  Idle /\ (\E on \in BOOLEAN : Cycle("ctrl", on)) /\ UNCHANGED <<call, history>>

\* Mutant: called while the counter is enabled
SetTickParamsRunning ==
  /\ Idle
  /\ \E p \in 0..MaxPrescale, s \in 0..MaxStep : Cycle("cfg", <<p, s>>)
  /\ UNCHANGED <<call, history>>

\* dif_rv_timer_set_tick_params, not to be called while the counter is enabled
SetTickParams ==
  /\ Idle /\ ~active
  /\ \E p \in 0..MaxPrescale, s \in 0..MaxStep : Cycle("cfg", <<p, s>>)
  /\ UNCHANGED <<call, history>>

\* dif_rv_timer_irq_acknowledge
Acknowledge == Idle /\ Cycle("intrState", TRUE) /\ UNCHANGED <<call, history>>

-----------------------------------------------------------------------------

Init ==
  /\ active = FALSE /\ prescale = 0 /\ step = 1
  /\ tickCount = 0
  /\ upper = 0 /\ lower = 0 /\ cmpUpper = Top /\ cmpLower = Top
  /\ cmpWritten = FALSE /\ intrState = FALSE
  /\ call = [at |-> "idle", hi |-> 0, lo |-> 0, on |-> FALSE]
  /\ seen = {} /\ carries = 0

Next ==
  \/ Elapse
  \/ ReadUpper \/ ReadLower \/ ReadCheck
  \/ WriteReadCtrl \/ WriteStop \/ WriteLower \/ WriteUpper \/ WriteRestore
  \/ ArmTop \/ ArmLower \/ ArmUpper
  \/ ResetStop \/ ResetIntr \/ ResetArmTop \/ ResetArmLower \/ ResetArmUpper
  \/ ResetLower \/ ResetUpper
  \/ SetEnabled \/ SetTickParams \/ Acknowledge

\* the clock does not stop
TimerSpec == Init /\ [][Next]_vars /\ WF_vars(Elapse)

-----------------------------------------------------------------------------
(* Registers and locals have their types, and the prescaler's counter      *)
(* never runs past the prescaler: the timer would tick in every cycle      *)
(* until it wraps.                                                         *)
Labels == {"idle", "readLower", "readCheck", "readUpper", "writeStop", "writeLower",
           "writeUpper", "writeRestore", "armLower", "armUpper", "resetIntr",
           "resetArmTop", "resetArmLower", "resetArmUpper", "resetLower", "resetUpper"}

TimerTypeOK ==
  /\ active \in BOOLEAN /\ prescale \in 0..MaxPrescale /\ step \in 0..MaxStep
  /\ tickCount \in 0..prescale
  /\ upper \in Word /\ lower \in Word /\ cmpUpper \in Word /\ cmpLower \in Word
  /\ cmpWritten \in BOOLEAN /\ intrState \in BOOLEAN
  /\ call \in [at : Labels, hi : Word, lo : Word, on : BOOLEAN]
  /\ seen \in SUBSET Times /\ carries \in 0..Half

(* The two halves move as one.  A read of the running counter returns a    *)
(* value the counter had during the call, unless the counter went all the  *)
(* way round (2^64 ticks) since the upper half was read; and when a write  *)
(* lets the counter run again, the counter is the value written.           *)
HalvesMoveAsOne ==
  [][/\ ReadReturns /\ carries < Half => <<call.hi, call.lo>> \in seen
     /\ call.at = "writeRestore" => counter = <<call.hi, call.lo>>]_vars

(* For the program the comparator changes as a whole and takes an alarm    *)
(* back, and no alarm comes early, although the comparator is written in   *)
(* three accesses while the counter runs.  The comment in dif_rv_timer.c   *)
(* lines 202-207 says that no alarm at all comes while it is written; that *)
(* is so unless the counter's upper half is all ones, which is what the    *)
(* deadline <<Top, 0>> says here.                                          *)
Alarm == INSTANCE AlarmClock WITH
  now      <- counter,
  deadline <- IF Arming THEN <<Top, 0>> ELSE deadline,
  alarm    <- intrState /\ ~cmpWritten

ImplementsAlarm == Alarm!Spec

(* If software leaves a running timer alone, its alarm goes off, unless    *)
(* the counter may step over the deadline at the end of its range.         *)
Reachable == cmpUpper < Top \/ cmpLower + step <= Half

AlarmComes ==
  <>[][Elapse]_vars /\ <>[](active /\ step > 0 /\ Reachable) => <>[]intrState

=============================================================================
