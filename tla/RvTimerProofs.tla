--------------------------- MODULE RvTimerProofs ---------------------------
(***************************************************************************)
(* The real-time timer's safety properties for counters and prescalers of  *)
(* any width: the counter is read and written as a whole, and the          *)
(* comparator is replaced as a whole.                                      *)
(***************************************************************************)
EXTENDS RvTimer, TLAPS

LEMMA ModuloOfSmall ==
  ASSUME NEW m \in Nat, NEW n \in 0..m
  PROVE  n % (m + 1) = n
  OBVIOUS

LEMMA PlusInWord ==
  ASSUME NEW a \in Word, NEW b \in 0..(Half - 1)
  PROVE  Plus(a, b) \in Word
  BY HalfAssumption DEF Plus, Word

LEMMA PlusAssociative ==
  ASSUME NEW a \in Word, NEW b \in 0..(Half - 2)
  PROVE  Plus(Plus(a, b), 1) = Plus(a, b + 1)
  BY HalfAssumption DEF Plus, Word

LEMMA PlusMovesAway ==
  ASSUME NEW a \in Word, NEW b \in 1..(Half - 1)
  PROVE  Plus(a, b) # a
  BY HalfAssumption DEF Plus, Word

-----------------------------------------------------------------------------
(* The registers, whatever is written to them, keep their types, and the   *)
(* prescaler's counter stays below a prescaler that does not change while  *)
(* the timer runs.                                                         *)

Registers ==
  /\ active \in BOOLEAN /\ prescale \in 0..MaxPrescale /\ step \in 0..MaxStep
  /\ tickCount \in 0..prescale
  /\ upper \in Word /\ lower \in Word /\ cmpUpper \in Word /\ cmpLower \in Word
  /\ cmpWritten \in BOOLEAN /\ intrState \in BOOLEAN

Locals ==
  /\ call \in [at : Labels, hi : Word, lo : Word, on : BOOLEAN]
  /\ seen \in SUBSET Times /\ carries \in 0..Half

LEMMA TypesSplit == TimerTypeOK <=> Registers /\ Locals
  BY DEF TimerTypeOK, Registers, Locals

(* What the driver writes, and when. *)
Allowed(reg, val) ==
  \/ reg \in {"none", "intrState"}
  \/ reg = "ctrl" /\ val \in BOOLEAN
  \/ reg = "cfg" /\ ~active /\ val[1] \in 0..MaxPrescale /\ val[2] \in 0..MaxStep
  \/ reg \in {"upper", "lower", "cmpUpper", "cmpLower"} /\ val \in Word

LEMMA NextCounter ==
  ASSUME Registers
  PROVE  NextUpper \in Word /\ NextLower \in Word
<1>1. step \in 0..(Half - 1) /\ 1 \in 0..(Half - 1)
  BY HalfAssumption, MaxStepAssumption DEF Registers
<1>2. Plus(upper, 1) \in Word /\ Plus(lower, step) \in Word
  BY <1>1, PlusInWord DEF Registers
<1> QED  BY <1>2 DEF Registers, NextUpper, NextLower

LEMMA CycleKeepsTypes ==
  ASSUME Registers, NEW reg, NEW val, Allowed(reg, val), Cycle(reg, val)
  PROVE  Registers'
<1>1. active' \in BOOLEAN /\ prescale' \in 0..MaxPrescale /\ step' \in 0..MaxStep
  BY DEF Cycle, Allowed, Registers
<1>2. upper' \in Word /\ lower' \in Word
  BY NextCounter DEF Cycle, Allowed, Registers
<1>3. cmpUpper' \in Word /\ cmpLower' \in Word
  BY DEF Cycle, Allowed, Registers
<1>4. cmpWritten' \in BOOLEAN
  BY DEF Cycle
<1>5. intrState' \in BOOLEAN
  BY Zenon DEF Cycle, IntrState, Registers, Expired, AtOrAfter
<1>6. tickCount' \in 0..prescale'
  <2>1. CASE ~active
    BY <1>1, <2>1, MaxPrescaleAssumption DEF Cycle, Prescaler
  <2>2. CASE active
    <3>1. prescale' = prescale
      BY <2>2 DEF Cycle, Allowed
    <3>2. CASE tickCount = prescale
      BY <1>1, <2>2, <3>1, <3>2 DEF Cycle, Prescaler
    <3>3. CASE tickCount # prescale
      <4>1. tickCount + 1 \in 0..MaxPrescale /\ tickCount + 1 \in 0..prescale
        BY <3>3, MaxPrescaleAssumption DEF Registers
      <4>2. (tickCount + 1) % (MaxPrescale + 1) = tickCount + 1
        BY <4>1, MaxPrescaleAssumption, ModuloOfSmall
      <4> QED  BY <2>2, <3>1, <3>3, <4>1, <4>2 DEF Cycle, Prescaler
    <3> QED  BY <3>2, <3>3
  <2> QED  BY <2>1, <2>2 DEF Registers
<1> QED  BY <1>1, <1>2, <1>3, <1>4, <1>5, <1>6 DEF Registers

LEMMA RecordedTypes ==
  ASSUME Registers, Locals, Recorded
  PROVE  seen' \in SUBSET Times /\ carries' \in 0..Half
<1>1. <<NextUpper, NextLower>> \in Times
  BY NextCounter DEF Times
<1>2. seen' \in SUBSET Times
  BY <1>1 DEF Recorded, Locals
<1>3. carries' \in 0..Half
  BY HalfAssumption DEF Recorded, Locals
<1> QED  BY <1>2, <1>3

LEMMA GotoTypes ==
  ASSUME Locals, NEW label \in Labels, Goto(label)
  PROVE  call' \in [at : Labels, hi : Word, lo : Word, on : BOOLEAN]
  BY DEF Locals, Goto

LEMMA WordsKnown == 0 \in Word /\ Top \in Word
  BY HalfAssumption DEF Word, Top

(* An access of a call in progress that goes on at another label. *)
LEMMA AccessTypes ==
  ASSUME TimerTypeOK, NEW reg, NEW val, Allowed(reg, val),
         Cycle(reg, val), NEW label \in Labels, Goto(label),
         history' = history \/ NoHistory \/ Recorded
  PROVE  TimerTypeOK'
<1>1. Registers /\ Locals
  BY TypesSplit
<1>2. Registers'
  BY <1>1, CycleKeepsTypes
<1>3. call' \in [at : Labels, hi : Word, lo : Word, on : BOOLEAN]
  BY <1>1, GotoTypes
<1>4. seen' \in SUBSET Times /\ carries' \in 0..Half
  <2>1. CASE history' = history
    BY <1>1, <2>1 DEF history, Locals
  <2>2. CASE NoHistory
    BY <2>2, HalfAssumption DEF NoHistory
  <2>3. CASE Recorded
    BY <1>1, <2>3, RecordedTypes
  <2> QED  BY <2>1, <2>2, <2>3
<1> QED  BY <1>2, <1>3, <1>4 DEF TimerTypeOK, Registers

(* An access that leaves the call and its history alone. *)
LEMMA SingleAccessTypes ==
  ASSUME TimerTypeOK, NEW reg, NEW val, Allowed(reg, val), Cycle(reg, val),
         UNCHANGED <<call, history>>
  PROVE  TimerTypeOK'
<1>1. Registers'
  BY TypesSplit, CycleKeepsTypes
<1> QED  BY <1>1 DEF TimerTypeOK, Registers, history

LEMMA TypesAreKept ==
  ASSUME TimerTypeOK, [Next]_vars
  PROVE  TimerTypeOK'
<1> USE DEF Allowed
<1>1. Registers /\ Locals
  BY TypesSplit
<1>2. call.hi \in Word /\ call.lo \in Word /\ call.on \in BOOLEAN
  BY <1>1 DEF Locals
<1>3. CASE Elapse
  <2>1. Registers'
    BY <1>1, <1>3, CycleKeepsTypes DEF Elapse
  <2>2. seen' \in SUBSET Times /\ carries' \in 0..Half
    BY <1>1, <1>3, RecordedTypes DEF Elapse, Locals, history
  <2> QED  BY <1>3, <2>1, <2>2 DEF Elapse, TimerTypeOK, Registers
<1>4. CASE ReadUpper
  <2>1. Registers'
    BY <1>1, <1>4, CycleKeepsTypes DEF ReadUpper
  <2>2. seen' \in SUBSET Times
    <3>1. counter \in Times /\ <<NextUpper, NextLower>> \in Times
      BY <1>1, NextCounter DEF Registers, counter, Times
    <3> QED  BY <1>1, <1>4, <3>1 DEF ReadUpper, Locals
  <2>3. carries' \in 0..Half
    BY <1>4, HalfAssumption DEF ReadUpper
  <2>4. call' \in [at : Labels, hi : Word, lo : Word, on : BOOLEAN]
    BY <1>1, <1>4 DEF ReadUpper, Locals, Registers, Labels
  <2> QED  BY <2>1, <2>2, <2>3, <2>4 DEF TimerTypeOK, Registers
<1>5. CASE ReadLower
  <2>1. Registers'
    BY <1>1, <1>5, CycleKeepsTypes DEF ReadLower
  <2>2. seen' \in SUBSET Times /\ carries' \in 0..Half
    BY <1>1, <1>5, RecordedTypes DEF ReadLower
  <2>3. call' \in [at : Labels, hi : Word, lo : Word, on : BOOLEAN]
    BY <1>1, <1>5 DEF ReadLower, Locals, Registers, Labels
  <2> QED  BY <2>1, <2>2, <2>3 DEF TimerTypeOK, Registers
<1>6. CASE ReadCheck
  <2>1. "idle" \in Labels /\ "readUpper" \in Labels
    BY DEF Labels
  <2>2. Cycle("none", 0)
    BY <1>6 DEF ReadCheck
  <2>3. CASE upper = call.hi
    BY <1>6, <2>1, <2>2, <2>3, AccessTypes DEF ReadCheck
  <2>4. CASE upper # call.hi
    BY <1>6, <2>1, <2>2, <2>4, AccessTypes DEF ReadCheck
  <2> QED  BY <2>3, <2>4
<1>7. CASE WriteReadCtrl
  <2>1. Registers'
    BY <1>1, <1>7, WordsKnown, CycleKeepsTypes DEF WriteReadCtrl
  <2>2. call' \in [at : Labels, hi : Word, lo : Word, on : BOOLEAN]
    BY <1>1, <1>7 DEF WriteReadCtrl, Locals, Registers, Labels, Times
  <2> QED  BY <1>1, <1>7, <2>1, <2>2 DEF WriteReadCtrl, TimerTypeOK, Registers, Locals, history
<1>8. CASE ArmTop
  <2>1. Registers'
    BY <1>1, <1>8, WordsKnown, CycleKeepsTypes DEF ArmTop
  <2>2. call' \in [at : Labels, hi : Word, lo : Word, on : BOOLEAN]
    BY <1>1, <1>8 DEF ArmTop, Locals, Registers, Labels, Times
  <2> QED  BY <1>1, <1>8, <2>1, <2>2 DEF ArmTop, TimerTypeOK, Registers, Locals, history
<1>9. CASE WriteStop
  BY <1>2, <1>9, WordsKnown, AccessTypes DEF WriteStop, Labels
<1>10. CASE WriteLower
  BY <1>2, <1>10, WordsKnown, AccessTypes DEF WriteLower, Labels
<1>11. CASE WriteUpper
  BY <1>2, <1>11, WordsKnown, AccessTypes DEF WriteUpper, Labels
<1>12. CASE WriteRestore
  BY <1>2, <1>12, WordsKnown, AccessTypes DEF WriteRestore, Labels
<1>13. CASE ArmLower
  BY <1>2, <1>13, WordsKnown, AccessTypes DEF ArmLower, Labels
<1>14. CASE ArmUpper
  BY <1>2, <1>14, WordsKnown, AccessTypes DEF ArmUpper, Labels
<1>15. CASE ResetStop
  BY <1>2, <1>15, WordsKnown, AccessTypes DEF ResetStop, Labels
<1>16. CASE ResetIntr
  BY <1>2, <1>16, WordsKnown, AccessTypes DEF ResetIntr, Labels
<1>17. CASE ResetArmTop
  BY <1>2, <1>17, WordsKnown, AccessTypes DEF ResetArmTop, Labels
<1>18. CASE ResetArmLower
  BY <1>2, <1>18, WordsKnown, AccessTypes DEF ResetArmLower, Labels
<1>19. CASE ResetArmUpper
  BY <1>2, <1>19, WordsKnown, AccessTypes DEF ResetArmUpper, Labels
<1>20. CASE ResetLower
  BY <1>2, <1>20, WordsKnown, AccessTypes DEF ResetLower, Labels
<1>21. CASE ResetUpper
  BY <1>2, <1>21, WordsKnown, AccessTypes DEF ResetUpper, Labels
<1>22. CASE SetEnabled
  BY <1>22, SingleAccessTypes DEF SetEnabled
<1>23. CASE SetTickParams
  BY <1>23, SingleAccessTypes DEF SetTickParams
<1>24. CASE Acknowledge
  BY <1>24, SingleAccessTypes DEF Acknowledge
<1>25. CASE UNCHANGED vars
  BY <1>25 DEF vars, config, counter, deadline, history, TimerTypeOK
<1> QED
  BY <1>3, <1>4, <1>5, <1>6, <1>7, <1>8, <1>9, <1>10, <1>11, <1>12, <1>13, <1>14, <1>15, <1>16, <1>17, <1>18, <1>19, <1>20, <1>21, <1>22, <1>23, <1>24, <1>25 DEF Next

LEMMA InitTypes == Init => TimerTypeOK
<1>1. ASSUME Init PROVE TimerTypeOK
  <2>1. 1 \in 0..MaxStep /\ 0 \in 0..MaxPrescale /\ 0 \in 0..0 /\ 0 \in 0..Half
    BY HalfAssumption, MaxPrescaleAssumption, MaxStepAssumption
  <2>2. call \in [at : Labels, hi : Word, lo : Word, on : BOOLEAN]
    BY <1>1, WordsKnown DEF Init, Labels
  <2> QED  BY <1>1, <2>1, <2>2, WordsKnown DEF Init, TimerTypeOK
<1> QED  BY <1>1

(* Registers and locals keep their types, and the prescaler's counter      *)
(* never runs past the prescaler.                                          *)
THEOREM TypeCorrect == TimerSpec => []TimerTypeOK
  BY InitTypes, TypesAreKept, PTL DEF TimerSpec

-----------------------------------------------------------------------------
(* A counter write stops the counter: the halves written so far stay.      *)

Writing ==
  /\ call.at \in {"writeLower", "writeUpper", "writeRestore"} => ~active
  /\ call.at \in {"writeUpper", "writeRestore"} => lower = call.lo
  /\ call.at = "writeRestore" => upper = call.hi

(* While the comparator is written its upper half is all ones. *)
Comparing == Arming => cmpUpper = Top

(* A read remembers the counter's value at each access, and what has been  *)
(* carried since tells how the upper half has moved on.                    *)
ReadSeen ==
  /\ call.at \in {"readLower", "readCheck"} =>
       /\ counter \in seen
       /\ carries < Half => upper = Plus(call.hi, carries)
  /\ call.at = "readCheck" /\ carries = 0 => <<call.hi, call.lo>> \in seen

IInv == TimerTypeOK /\ Writing /\ Comparing /\ ReadSeen

LEMMA CallIsRecord ==
  ASSUME TimerTypeOK
  PROVE  /\ call.at \in Labels /\ call.hi \in Word /\ call.lo \in Word
         /\ \A label : Goto(label) =>
              /\ call'.at = label
              /\ call'.hi = call.hi /\ call'.lo = call.lo
  BY DEF TimerTypeOK, Goto

LEMMA StoppedCounterStands ==
  ASSUME ~active, NEW reg, NEW val, Cycle(reg, val)
  PROVE  /\ reg # "ctrl" => ~active'
         /\ reg # "lower" => lower' = lower
         /\ reg # "upper" => upper' = upper
         /\ reg = "lower" => lower' = val
         /\ reg = "upper" => upper' = val
  BY DEF Cycle, NextUpper, NextLower, Carry, Tick

LEMMA WritingIsKept ==
  ASSUME TimerTypeOK, Writing, [Next]_vars
  PROVE  Writing'
<1> USE CallIsRecord DEF Writing
<1>1. CASE Elapse
  BY <1>1, StoppedCounterStands DEF Elapse
<1>2. CASE ReadUpper
  BY <1>2 DEF ReadUpper, TimerTypeOK
<1>3. CASE ReadLower
  BY <1>3 DEF ReadLower, TimerTypeOK
<1>4. CASE ReadCheck
  BY <1>4 DEF ReadCheck
<1>5. CASE WriteReadCtrl
  BY <1>5 DEF WriteReadCtrl, TimerTypeOK
<1>6. CASE WriteStop
  BY <1>6 DEF WriteStop, Cycle
<1>7. CASE WriteLower
  BY <1>7, StoppedCounterStands DEF WriteLower
<1>8. CASE WriteUpper
  BY <1>8, StoppedCounterStands DEF WriteUpper
<1>9. CASE WriteRestore
  BY <1>9 DEF WriteRestore
<1>10. CASE ArmTop
  BY <1>10 DEF ArmTop, TimerTypeOK
<1>11. CASE ArmLower
  BY <1>11 DEF ArmLower
<1>12. CASE ArmUpper
  BY <1>12 DEF ArmUpper
<1>13. CASE ResetStop
  BY <1>13 DEF ResetStop
<1>14. CASE ResetIntr
  BY <1>14 DEF ResetIntr
<1>15. CASE ResetArmTop
  BY <1>15 DEF ResetArmTop
<1>16. CASE ResetArmLower
  BY <1>16 DEF ResetArmLower
<1>17. CASE ResetArmUpper
  BY <1>17 DEF ResetArmUpper
<1>18. CASE ResetLower
  BY <1>18 DEF ResetLower
<1>19. CASE ResetUpper
  BY <1>19 DEF ResetUpper
<1>20. CASE SetEnabled
  BY <1>20 DEF SetEnabled, Idle
<1>21. CASE SetTickParams
  BY <1>21 DEF SetTickParams, Idle
<1>22. CASE Acknowledge
  BY <1>22 DEF Acknowledge, Idle
<1>23. CASE UNCHANGED vars
  BY <1>23 DEF vars, config, counter
<1> QED
  BY <1>1, <1>2, <1>3, <1>4, <1>5, <1>6, <1>7, <1>8, <1>9, <1>10, <1>11, <1>12, <1>13, <1>14, <1>15, <1>16, <1>17, <1>18, <1>19, <1>20, <1>21, <1>22, <1>23 DEF Next

LEMMA ComparingIsKept ==
  ASSUME TimerTypeOK, Comparing, [Next]_vars
  PROVE  Comparing'
<1> USE CallIsRecord DEF Comparing, Arming
<1>1. CASE Elapse
  BY <1>1 DEF Elapse, Cycle
<1>2. CASE ReadUpper
  BY <1>2 DEF ReadUpper, Cycle, TimerTypeOK
<1>3. CASE ReadLower
  BY <1>3 DEF ReadLower, Cycle, TimerTypeOK
<1>4. CASE ReadCheck
  BY <1>4 DEF ReadCheck
<1>5. CASE WriteReadCtrl
  BY <1>5 DEF WriteReadCtrl, Cycle, TimerTypeOK
<1>6. CASE WriteStop
  BY <1>6 DEF WriteStop
<1>7. CASE WriteLower
  BY <1>7 DEF WriteLower
<1>8. CASE WriteUpper
  BY <1>8 DEF WriteUpper
<1>9. CASE WriteRestore
  BY <1>9 DEF WriteRestore
<1>10. CASE ArmTop
  BY <1>10 DEF ArmTop, Cycle, TimerTypeOK
<1>11. CASE ArmLower
  BY <1>11 DEF ArmLower, Cycle
<1>12. CASE ArmUpper
  BY <1>12 DEF ArmUpper, Cycle
<1>13. CASE ResetStop
  BY <1>13 DEF ResetStop
<1>14. CASE ResetIntr
  BY <1>14 DEF ResetIntr
<1>15. CASE ResetArmTop
  BY <1>15 DEF ResetArmTop, Cycle
<1>16. CASE ResetArmLower
  BY <1>16 DEF ResetArmLower, Cycle
<1>17. CASE ResetArmUpper
  BY <1>17 DEF ResetArmUpper, Cycle
<1>18. CASE ResetLower
  BY <1>18 DEF ResetLower
<1>19. CASE ResetUpper
  BY <1>19 DEF ResetUpper
<1>20. CASE SetEnabled
  BY <1>20 DEF SetEnabled, Idle
<1>21. CASE SetTickParams
  BY <1>21 DEF SetTickParams, Idle
<1>22. CASE Acknowledge
  BY <1>22 DEF Acknowledge, Idle
<1>23. CASE UNCHANGED vars
  BY <1>23 DEF vars, deadline
<1> QED
  BY <1>1, <1>2, <1>3, <1>4, <1>5, <1>6, <1>7, <1>8, <1>9, <1>10, <1>11, <1>12, <1>13, <1>14, <1>15, <1>16, <1>17, <1>18, <1>19, <1>20, <1>21, <1>22, <1>23 DEF Next

(* A recorded cycle of a read in progress. *)
LEMMA RecordedFollows ==
  ASSUME TimerTypeOK, Cycle("none", 0), Recorded,
         counter \in seen,
         carries < Half => upper = Plus(call.hi, carries)
  PROVE  /\ counter' \in seen'
         /\ carries' < Half => upper' = Plus(call.hi, carries')
<1>1. upper' = NextUpper /\ lower' = NextLower
  BY DEF Cycle
<1>2. counter' \in seen'
  BY <1>1 DEF counter, Recorded
<1>3. ASSUME carries' < Half PROVE upper' = Plus(call.hi, carries')
  <2>1. carries < Half /\ carries \in 0..Half
    BY <1>3 DEF Recorded, TimerTypeOK
  <2>2. CASE Carry
    <3>1. carries' = carries + 1 /\ carries \in 0..(Half - 2)
      BY <1>3, <2>1, <2>2, HalfAssumption DEF Recorded
    <3>2. upper' = Plus(Plus(call.hi, carries), 1)
      BY <1>1, <2>1, <2>2 DEF NextUpper
    <3> QED  BY <3>1, <3>2, CallIsRecord, PlusAssociative
  <2>3. CASE ~Carry
    BY <1>1, <2>1, <2>3 DEF NextUpper, Recorded
  <2> QED  BY <2>2, <2>3
<1> QED  BY <1>2, <1>3

(* Fewer than Half carries do not bring the upper half back to what it was *)
(* when it was read.                                                       *)
LEMMA SameUpperMeansNoCarry ==
  ASSUME TimerTypeOK, upper = Plus(call.hi, carries), carries < Half
  PROVE  upper = call.hi <=> carries = 0
<1>1. carries \in 0..(Half - 1)
  BY HalfAssumption DEF TimerTypeOK
<1>2. carries = 0 => Plus(call.hi, carries) = call.hi
  BY CallIsRecord, HalfAssumption DEF Plus, Word
<1>3. carries # 0 => Plus(call.hi, carries) # call.hi
  BY <1>1, CallIsRecord, HalfAssumption, PlusMovesAway
<1> QED  BY <1>2, <1>3

LEMMA ReadSeenIsKept ==
  ASSUME TimerTypeOK, ReadSeen, [Next]_vars
  PROVE  ReadSeen'
<1> USE CallIsRecord
<1>1. CASE Elapse
  <2>1. Cycle("none", 0) /\ call' = call
    BY <1>1 DEF Elapse
  <2>2. CASE call.at \in {"readLower", "readCheck"}
    <3>1. Recorded
      BY <1>1, <2>2 DEF Elapse, Reading
    <3>2. counter' \in seen' /\ (carries' < Half => upper' = Plus(call.hi, carries'))
      BY <2>1, <2>2, <3>1, RecordedFollows DEF ReadSeen
    <3>3. carries' = 0 => carries = 0
      BY <3>1 DEF Recorded, TimerTypeOK
    <3>4. seen \subseteq seen'
      BY <3>1 DEF Recorded
    <3> QED  BY <2>1, <3>2, <3>3, <3>4 DEF ReadSeen
  <2>3. CASE call.at \notin {"readLower", "readCheck"}
    BY <2>1, <2>3 DEF ReadSeen
  <2> QED  BY <2>2, <2>3
<1>2. CASE ReadUpper
  <2>1. /\ call'.at = "readLower" /\ call'.hi = upper
        /\ upper' = NextUpper /\ lower' = NextLower
    BY <1>2 DEF ReadUpper, Cycle, TimerTypeOK
  <2>2. counter' \in seen'
    BY <1>2, <2>1 DEF ReadUpper, counter
  <2>3. upper \in Word
    BY DEF TimerTypeOK
  <2>4. carries' < Half => upper' = Plus(upper, carries')
    <3>1. Plus(upper, 0) = upper
      BY <2>3, HalfAssumption DEF Plus, Word
    <3> QED  BY <1>2, <2>1, <3>1 DEF ReadUpper, NextUpper
  <2> QED  BY <2>1, <2>2, <2>4 DEF ReadSeen
<1>3. CASE ReadLower
  <2>1. /\ call'.at = "readCheck" /\ call'.hi = call.hi /\ call'.lo = lower
        /\ Recorded /\ Cycle("none", 0) /\ call.at = "readLower"
    BY <1>3 DEF ReadLower, TimerTypeOK
  <2>2. counter' \in seen' /\ (carries' < Half => upper' = Plus(call.hi, carries'))
    BY <2>1, RecordedFollows DEF ReadSeen
  <2>3. ASSUME carries' = 0 PROVE <<call.hi, lower>> \in seen'
    <3>1. carries = 0
      BY <2>1, <2>3 DEF Recorded, TimerTypeOK
    <3>2. upper = Plus(call.hi, carries) /\ carries < Half
      BY <2>1, <3>1, HalfAssumption DEF ReadSeen
    <3>3. upper = call.hi
      BY <3>1, <3>2, SameUpperMeansNoCarry
    <3> QED  BY <2>1, <3>3 DEF ReadSeen, counter, Recorded
  <2> QED  BY <2>1, <2>2, <2>3 DEF ReadSeen
<1>4. CASE ReadCheck
  BY <1>4 DEF ReadCheck, ReadSeen
<1>5. CASE WriteReadCtrl
  BY <1>5 DEF WriteReadCtrl, TimerTypeOK, ReadSeen
<1>6. CASE WriteStop
  BY <1>6 DEF WriteStop, ReadSeen
<1>7. CASE WriteLower
  BY <1>7 DEF WriteLower, ReadSeen
<1>8. CASE WriteUpper
  BY <1>8 DEF WriteUpper, ReadSeen
<1>9. CASE WriteRestore
  BY <1>9 DEF WriteRestore, ReadSeen
<1>10. CASE ArmTop
  BY <1>10 DEF ArmTop, TimerTypeOK, ReadSeen
<1>11. CASE ArmLower
  BY <1>11 DEF ArmLower, ReadSeen
<1>12. CASE ArmUpper
  BY <1>12 DEF ArmUpper, ReadSeen
<1>13. CASE ResetStop
  BY <1>13 DEF ResetStop, ReadSeen
<1>14. CASE ResetIntr
  BY <1>14 DEF ResetIntr, ReadSeen
<1>15. CASE ResetArmTop
  BY <1>15 DEF ResetArmTop, ReadSeen
<1>16. CASE ResetArmLower
  BY <1>16 DEF ResetArmLower, ReadSeen
<1>17. CASE ResetArmUpper
  BY <1>17 DEF ResetArmUpper, ReadSeen
<1>18. CASE ResetLower
  BY <1>18 DEF ResetLower, ReadSeen
<1>19. CASE ResetUpper
  BY <1>19 DEF ResetUpper, ReadSeen
<1>20. CASE SetEnabled
  BY <1>20 DEF SetEnabled, Idle, ReadSeen
<1>21. CASE SetTickParams
  BY <1>21 DEF SetTickParams, Idle, ReadSeen
<1>22. CASE Acknowledge
  BY <1>22 DEF Acknowledge, Idle, ReadSeen
<1>23. CASE UNCHANGED vars
  BY <1>23 DEF vars, counter, history, ReadSeen
<1> QED
  BY <1>1, <1>2, <1>3, <1>4, <1>5, <1>6, <1>7, <1>8, <1>9, <1>10, <1>11, <1>12, <1>13, <1>14, <1>15, <1>16, <1>17, <1>18, <1>19, <1>20, <1>21, <1>22, <1>23 DEF Next

(* The invariant on which the two properties below rest: what a call has   *)
(* written or read so far, against the registers.                          *)
THEOREM Invariant == TimerSpec => []IInv
<1>1. Init => IInv
  <2>1. Init => Writing /\ Comparing /\ ReadSeen
    BY DEF Init, Writing, Comparing, Arming, ReadSeen
  <2>2. Init /\ TimerTypeOK => IInv
    BY <2>1 DEF IInv
  <2> QED  BY <2>2, InitTypes
<1>2. IInv /\ [Next]_vars => IInv'
  BY TypesAreKept, WritingIsKept, ComparingIsKept, ReadSeenIsKept DEF IInv
<1> QED  BY <1>1, <1>2, PTL DEF TimerSpec

(* A read returns when it finds the upper half it has read. *)
LEMMA ReturnsWhenSame ==
  ASSUME TimerTypeOK, [Next]_vars, call.at = "readCheck", call'.at = "idle"
  PROVE  upper = call.hi
<1> USE CallIsRecord
<1>1. CASE Elapse \/ UNCHANGED vars
  BY <1>1 DEF Elapse, vars
<1>2. CASE ReadCheck
  BY <1>2 DEF ReadCheck
<1> QED
  BY <1>1, <1>2 DEF Next, Idle, ReadUpper, ReadLower, WriteReadCtrl, WriteStop, WriteLower, WriteUpper, WriteRestore, ArmTop, ArmLower, ArmUpper, ResetStop, ResetIntr, ResetArmTop, ResetArmLower, ResetArmUpper, ResetLower, ResetUpper, SetEnabled, SetTickParams, Acknowledge

(* A read of the running counter and a write of it are as one access.      *)
THEOREM HalvesMove == TimerSpec => HalvesMoveAsOne
<1>1. ASSUME IInv, [Next]_vars
      PROVE  /\ ReadReturns /\ carries < Half => <<call.hi, call.lo>> \in seen
             /\ call.at = "writeRestore" => counter = <<call.hi, call.lo>>
  <2>1. ASSUME ReadReturns, carries < Half PROVE <<call.hi, call.lo>> \in seen
    <3>1. call.at = "readCheck" /\ call'.at = "idle"
      BY <2>1 DEF ReadReturns
    <3>2. upper = call.hi
      BY <1>1, <3>1, ReturnsWhenSame DEF IInv
    <3>3. upper = Plus(call.hi, carries)
      BY <1>1, <2>1, <3>1 DEF IInv, ReadSeen
    <3>4. carries = 0
      BY <1>1, <2>1, <3>2, <3>3, SameUpperMeansNoCarry DEF IInv
    <3> QED  BY <1>1, <3>1, <3>4 DEF IInv, ReadSeen
  <2>2. call.at = "writeRestore" => counter = <<call.hi, call.lo>>
    BY <1>1 DEF IInv, Writing, counter
  <2> QED  BY <2>1, <2>2
<1>2. [][IInv /\ [Next]_vars]_vars =>
      [][/\ ReadReturns /\ carries < Half => <<call.hi, call.lo>> \in seen
         /\ call.at = "writeRestore" => counter = <<call.hi, call.lo>>]_vars
  BY <1>1, PTL
<1> QED  BY <1>2, Invariant, PTL DEF TimerSpec, HalvesMoveAsOne

-----------------------------------------------------------------------------
(* The comparator, written in three accesses, implements an alarm clock    *)
(* whose deadline is replaced as a whole.                                  *)

Deadline == IF Arming THEN <<Top, 0>> ELSE deadline
Raised   == intrState /\ ~cmpWritten

LEMMA TimesAreOrdered ==
  ASSUME NEW t \in Times, NEW low \in Word, AtOrAfter(t, <<Top, low>>)
  PROVE  AtOrAfter(t, <<Top, 0>>)
  BY HalfAssumption DEF AtOrAfter, Times, Word, Top

(* A cycle that does not write the comparator. *)
LEMMA AlarmPasses ==
  ASSUME IInv, IInv', NEW reg, NEW val, Cycle(reg, val),
         reg \notin {"cmpUpper", "cmpLower"}, Arming' = Arming
  PROVE  Alarm!Next
<1>1. counter \in Times /\ counter' \in Times
  BY DEF IInv, TimerTypeOK, counter, Times
<1>2. deadline' = deadline /\ ~cmpWritten'
  BY DEF Cycle, deadline
<1>3. Deadline' = Deadline
  BY <1>2 DEF Deadline
<1>4. CASE ~Raised'
  <2>1. Alarm!Dismiss
    BY <1>3, <1>4 DEF Alarm!Dismiss, Deadline, Raised
  <2> QED  BY <1>1, <2>1 DEF Alarm!Next, Alarm!Times, Times, Word
<1>5. CASE Raised' /\ Raised
  <2>1. Alarm!Pass
    BY <1>1, <1>3, <1>5 DEF Alarm!Pass, Alarm!Times, Times, Word, Deadline, Raised
  <2> QED  BY <2>1 DEF Alarm!Next
<1>6. CASE Raised' /\ ~Raised
  <2>1. AtOrAfter(counter, deadline)
    BY <1>6 DEF Raised, Cycle, IntrState, Expired
  <2>2. AtOrAfter(counter, Deadline)
    <3>1. CASE Arming
      <4>1. deadline = <<Top, cmpLower>> /\ cmpLower \in Word
        BY <3>1 DEF IInv, Comparing, deadline, TimerTypeOK
      <4> QED  BY <1>1, <2>1, <3>1, <4>1, TimesAreOrdered DEF Deadline
    <3>2. CASE ~Arming
      BY <2>1, <3>2 DEF Deadline
    <3> QED  BY <3>1, <3>2
  <2>3. Alarm!GoOff
    BY <1>3, <1>6, <2>2 DEF Alarm!GoOff, Alarm!AtOrAfter, AtOrAfter, Deadline, Raised
  <2> QED  BY <1>1, <2>3 DEF Alarm!Next, Alarm!Times, Times, Word
<1> QED  BY <1>4, <1>5, <1>6

(* A cycle that writes it takes an alarm back. *)
LEMMA AlarmTakenBack ==
  ASSUME IInv, IInv', NEW reg, NEW val, Cycle(reg, val),
         reg \in {"cmpUpper", "cmpLower"}
  PROVE  Alarm!Next
<1>1. counter' \in Times /\ deadline' \in Times /\ <<Top, 0>> \in Times
  BY WordsKnown DEF IInv, TimerTypeOK, counter, deadline, Times
<1>2. Deadline' \in Times
  BY <1>1, WordsKnown DEF Deadline, Top
<1>3. ~Raised'
  BY DEF Raised, Cycle
<1>4. Alarm!SetDeadline
  BY <1>2, <1>3 DEF Alarm!SetDeadline, Alarm!Times, Times, Word, Deadline, Raised
<1> QED  BY <1>1, <1>4 DEF Alarm!Next, Alarm!Times, Times, Word

LEMMA AlarmStep ==
  ASSUME IInv, IInv', [Next]_vars
  PROVE  [Alarm!Next]_<<counter, Deadline, Raised>>
<1> USE CallIsRecord DEF IInv
<1>1. CASE Elapse
  <2>1. Arming' = Arming
    BY <1>1 DEF Elapse, Arming
  <2> QED  BY <1>1, <2>1, AlarmPasses DEF Elapse
<1>2. CASE ReadUpper
  <2>1. Arming' = Arming
    BY <1>2 DEF ReadUpper, Arming, TimerTypeOK
  <2> QED  BY <1>2, <2>1, AlarmPasses DEF ReadUpper
<1>3. CASE ReadLower
  <2>1. Arming' = Arming
    BY <1>3 DEF ReadLower, Arming, TimerTypeOK
  <2> QED  BY <1>3, <2>1, AlarmPasses DEF ReadLower
<1>4. CASE ReadCheck
  <2>1. Arming' = Arming
    BY <1>4 DEF ReadCheck, Arming
  <2> QED  BY <1>4, <2>1, AlarmPasses DEF ReadCheck
<1>5. CASE WriteReadCtrl
  <2>1. Arming' = Arming
    BY <1>5 DEF WriteReadCtrl, Arming, TimerTypeOK, Idle
  <2> QED  BY <1>5, <2>1, AlarmPasses DEF WriteReadCtrl
<1>6. CASE WriteStop
  <2>1. Arming' = Arming
    BY <1>6 DEF WriteStop, Arming
  <2> QED  BY <1>6, <2>1, AlarmPasses DEF WriteStop
<1>7. CASE WriteLower
  <2>1. Arming' = Arming
    BY <1>7 DEF WriteLower, Arming
  <2> QED  BY <1>7, <2>1, AlarmPasses DEF WriteLower
<1>8. CASE WriteUpper
  <2>1. Arming' = Arming
    BY <1>8 DEF WriteUpper, Arming
  <2> QED  BY <1>8, <2>1, AlarmPasses DEF WriteUpper
<1>9. CASE WriteRestore
  <2>1. Arming' = Arming
    BY <1>9 DEF WriteRestore, Arming
  <2> QED  BY <1>9, <2>1, AlarmPasses DEF WriteRestore
<1>10. CASE ResetStop
  <2>1. Arming' = Arming
    BY <1>10 DEF ResetStop, Arming, Idle
  <2> QED  BY <1>10, <2>1, AlarmPasses DEF ResetStop
<1>11. CASE ResetIntr
  <2>1. Arming' = Arming
    BY <1>11 DEF ResetIntr, Arming
  <2> QED  BY <1>11, <2>1, AlarmPasses DEF ResetIntr
<1>12. CASE ResetLower
  <2>1. Arming' = Arming
    BY <1>12 DEF ResetLower, Arming
  <2> QED  BY <1>12, <2>1, AlarmPasses DEF ResetLower
<1>13. CASE ResetUpper
  <2>1. Arming' = Arming
    BY <1>13 DEF ResetUpper, Arming
  <2> QED  BY <1>13, <2>1, AlarmPasses DEF ResetUpper
<1>14. CASE SetEnabled
  <2>1. Arming' = Arming
    BY <1>14 DEF SetEnabled, Arming
  <2> QED  BY <1>14, <2>1, AlarmPasses DEF SetEnabled
<1>15. CASE SetTickParams
  <2>1. Arming' = Arming
    BY <1>15 DEF SetTickParams, Arming
  <2> QED  BY <1>15, <2>1, AlarmPasses DEF SetTickParams
<1>16. CASE Acknowledge
  <2>1. Arming' = Arming
    BY <1>16 DEF Acknowledge, Arming
  <2> QED  BY <1>16, <2>1, AlarmPasses DEF Acknowledge
<1>17. CASE ArmTop
  BY <1>17, AlarmTakenBack DEF ArmTop
<1>18. CASE ArmLower
  BY <1>18, AlarmTakenBack DEF ArmLower
<1>19. CASE ArmUpper
  BY <1>19, AlarmTakenBack DEF ArmUpper
<1>20. CASE ResetArmTop
  BY <1>20, AlarmTakenBack DEF ResetArmTop
<1>21. CASE ResetArmLower
  BY <1>21, AlarmTakenBack DEF ResetArmLower
<1>22. CASE ResetArmUpper
  BY <1>22, AlarmTakenBack DEF ResetArmUpper
<1>23. CASE UNCHANGED vars
  BY <1>23 DEF vars, counter, deadline, Deadline, Raised, Arming
<1> QED
  BY <1>1, <1>2, <1>3, <1>4, <1>5, <1>6, <1>7, <1>8, <1>9, <1>10, <1>11, <1>12, <1>13, <1>14, <1>15, <1>16, <1>17, <1>18, <1>19, <1>20, <1>21, <1>22, <1>23 DEF Next

(* For the program the comparator changes as a whole, and no alarm comes   *)
(* early.                                                                  *)
THEOREM AlarmImplementation == TimerSpec => ImplementsAlarm
<1>1. IInv /\ Init => Alarm!Init
  <2>1. ASSUME IInv, Init PROVE Alarm!Init
    <3>1. ~Arming
      BY <2>1 DEF Init, Arming
    <3>2. counter \in Times /\ deadline \in Times
      BY <2>1 DEF IInv, TimerTypeOK, counter, deadline, Times
    <3> QED  BY <2>1, <3>1, <3>2 DEF Init, Alarm!Init, Alarm!Times, Times, Word
  <2> QED  BY <2>1
<1>2. IInv /\ IInv' /\ [Next]_vars => [Alarm!Next]_<<counter, Deadline, Raised>>
  BY AlarmStep
<1> QED
  BY <1>1, <1>2, Invariant, PTL DEF TimerSpec, ImplementsAlarm, Alarm!Spec, Deadline, Raised

=============================================================================
