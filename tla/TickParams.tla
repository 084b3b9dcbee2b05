----------------------------- MODULE TickParams -----------------------------
(***************************************************************************)
(* The arithmetic of dif_rv_timer_approximate_tick_params (dif_rv_timer.c):*)
(* the prescaler and the step for which a timer on a clock of one          *)
(* frequency counts with another, by the greatest common divisor, by the   *)
(* long division of math.c.                                                *)
(***************************************************************************)
EXTENDS Integers

CONSTANTS FreqBits,      \* bits of a frequency (64 in the code)
          PrescaleMask,  \* largest prescaler the register holds
          StepMask       \* largest step the register holds

ASSUME FreqBitsAssumption == FreqBits \in Nat \ {0}
ASSUME MaskAssumption ==   \* the prescaler has 12 of 64 bits
  PrescaleMask \in Nat /\ StepMask \in Nat /\ PrescaleMask < 2^FreqBits - 2

Freqs == 0..(2^FreqBits - 1)

Bit(a, i) == (a \div 2^i) % 2

\* Mutant: the remainder is compared with > instead of >=
Udiv64SlowStrict(a, b) ==
  LET long[i \in 0..FreqBits] ==
        IF i = 0 THEN [quot |-> 0, rem |-> 0]
        ELSE LET rem  == 2 * long[i - 1].rem + Bit(a, FreqBits - i)
                 quot == 2 * long[i - 1].quot
             IN  IF rem > b THEN [quot |-> quot + 1, rem |-> rem - b]
                 ELSE [quot |-> quot, rem |-> rem]
  IN  long[FreqBits]

\* Division in base 2, one bit of the dividend at a time.  Division by zero
\* gives all ones.  Nothing overflows: rem is at most the bits brought down.
Udiv64Slow(a, b) ==
  LET long[i \in 0..FreqBits] ==
        IF i = 0 THEN [quot |-> 0, rem |-> 0]
        ELSE LET rem  == 2 * long[i - 1].rem + Bit(a, FreqBits - i)
                 quot == 2 * long[i - 1].quot
             IN  IF rem >= b THEN [quot |-> quot + 1, rem |-> rem - b]
                 ELSE [quot |-> quot, rem |-> rem]
  IN  long[FreqBits]

\* by repeated remainder
EuclideanGcd(clockFreq, counterFreq) ==
  LET gcd[p \in Freqs \X Freqs] ==
        IF p[2] = 0 THEN p[1] ELSE gcd[<<p[2], Udiv64Slow(p[1], p[2]).rem>>]
  IN  gcd[<<clockFreq, counterFreq>>]

\* kDifBadArg, or the parameters; prescale wraps below zero as an unsigned number
Approximate(clockFreq, counterFreq) ==
  LET gcd      == EuclideanGcd(clockFreq, counterFreq)
      prescale == (Udiv64Slow(clockFreq, gcd).quot - 1) % 2^FreqBits
      stepSize == Udiv64Slow(counterFreq, gcd).quot
  IN  IF prescale > PrescaleMask \/ stepSize > StepMask
      THEN [ok |-> FALSE, prescale |-> 0, step |-> 0]
      ELSE [ok |-> TRUE, prescale |-> prescale, step |-> stepSize]

\* counter_freq = clock_freq * step / (prescale + 1)
Exact(clockFreq, counterFreq, prescale, stepSize) ==
  counterFreq * (prescale + 1) = clockFreq * stepSize

(* For a pair of frequencies: the answer is exact and has the smallest     *)
(* prescaler of all exact ones; an error is returned only if no register   *)
(* setting is exact.                                                       *)
IsExact(clockFreq, counterFreq) ==
  LET out == Approximate(clockFreq, counterFreq) IN
  IF out.ok
  THEN /\ Exact(clockFreq, counterFreq, out.prescale, out.step)
       /\ \A p \in 0..(out.prescale - 1), s \in 0..StepMask :
            ~Exact(clockFreq, counterFreq, p, s)
  ELSE clockFreq = 0 \/ \A p \in 0..PrescaleMask, s \in 0..StepMask :
         ~Exact(clockFreq, counterFreq, p, s)

=============================================================================
