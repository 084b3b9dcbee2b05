--------------------------- MODULE PrioritySelect ---------------------------
(***************************************************************************)
(* What rv_plic_target.sv asks of prim_max_tree.sv: of the valid sources,  *)
(* the one of the highest priority and, among equals, of the lowest index. *)
(***************************************************************************)
EXTENDS Integers

\* s is preferred to t, or is t, under the priorities p
Beats(p, s, t) == p[s] > p[t] \/ (p[s] = p[t] /\ s <= t)

Winner(p, V) == IF V = {} THEN 0 ELSE CHOOSE s \in V : \A t \in V : Beats(p, s, t)

=============================================================================
