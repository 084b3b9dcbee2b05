---------------------------- MODULE UsbDelivery ----------------------------
(***************************************************************************)
(* What one direction of a USB pipe promises: the packets of a session,    *)
(* numbered from 1, reach the receiver in order, each of them once, and    *)
(* the sender learns of each before it offers the next.  A session ends    *)
(* with a SETUP packet or a link reset, and nothing of it is left.         *)
(***************************************************************************)
EXTENDS Naturals, Sequences

VARIABLES session,  \* the sessions there have been
          log,      \* what the receiver has taken
          acked     \* what the sender knows to have been taken

vars == <<session, log, acked>>

Init == session = 0 /\ log = <<>> /\ acked = 0

Deliver ==
  /\ Len(log) = acked
  /\ log' = Append(log, acked + 1)
  /\ UNCHANGED <<session, acked>>

Learn ==
  /\ Len(log) = acked + 1
  /\ acked' = acked + 1
  /\ UNCHANGED <<session, log>>

Restart ==
  /\ session' = session + 1
  /\ log' = <<>> /\ acked' = 0

Next == Deliver \/ Learn \/ Restart

Spec == Init /\ [][Next]_vars

=============================================================================
