----------------------------- MODULE IrqProtocol -----------------------------
(***************************************************************************)
(* What the interrupt controller promises the software that drives it,     *)
(* with no notion of clock, bus or priority: every source is idle, pending *)
(* or claimed, and goes round that cycle one step at a time.  Requests may *)
(* arrive for any number of idle sources at once; software claims or       *)
(* completes at most one source at a time (dif_rv_plic.h:161-196).         *)
(***************************************************************************)
CONSTANT Ids

VARIABLE state

States == {"idle", "pending", "claimed"}

In(st) == {s \in Ids : state[s] = st}

Init == state = [s \in Ids |-> "idle"]

\* The sources of Requests become pending, those of Claims (at most one) are
\* handed to software, those of Dones (at most one) are released.
Advance(Requests, Claims, Dones) ==
  state' = [s \in Ids |->
              CASE s \in Requests -> "pending"
                [] s \in Claims   -> "claimed"
                [] s \in Dones    -> "idle"
                [] OTHER          -> state[s]]

AtMostOne(S) == \A s, t \in S : s = t

Next ==
  \E Requests \in SUBSET In("idle"), Claims \in SUBSET In("pending"),
     Dones \in SUBSET In("claimed") :
    /\ AtMostOne(Claims \cup Dones)
    /\ Advance(Requests, Claims, Dones)

Spec == Init /\ [][Next]_state

=============================================================================
