----------------------------- MODULE AlarmClock -----------------------------
(***************************************************************************)
(* What a timer promises to the program that sets an alarm on it: there is *)
(* one deadline, replaced as a whole; replacing it takes back an alarm     *)
(* that has gone off; and an alarm goes off only at or after the deadline. *)
(* Times are pairs <<upper half, lower half>>.                             *)
(***************************************************************************)
EXTENDS Integers

CONSTANT Half     \* number of values of half a time

Times == (0..(Half - 1)) \X (0..(Half - 1))

AtOrAfter(t, u) == t[1] > u[1] \/ (t[1] = u[1] /\ t[2] >= u[2])

VARIABLES now, deadline, alarm

SetDeadline == deadline' \in Times /\ alarm' = FALSE

GoOff == AtOrAfter(now, deadline) /\ alarm' = TRUE /\ UNCHANGED deadline

Dismiss == alarm' = FALSE /\ UNCHANGED deadline

\* time passes, or is set, at any moment
Pass == now' \in Times /\ UNCHANGED <<deadline, alarm>>

Init == now \in Times /\ deadline \in Times /\ alarm = FALSE

Next == Pass \/ (now' \in Times /\ (SetDeadline \/ GoOff \/ Dismiss))

Spec == Init /\ [][Next]_<<now, deadline, alarm>>

=============================================================================
