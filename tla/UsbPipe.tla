------------------------------ MODULE UsbPipe ------------------------------
(***************************************************************************)
(* One endpoint of the USB device controller over a bus that loses         *)
(* packets: the OUT and IN packet engines with their data toggles          *)
(* (usb_fs_nb_out_pe.sv, usb_fs_nb_in_pe.sv), and a host that repeats      *)
(* what was not acknowledged.                                              *)
(*                                                                         *)
(* A damaged packet is a lost one.  Packets are numbered within their      *)
(* session.  A session is what follows a SETUP packet on a control         *)
(* endpoint, or a link reset on any.  Both engines hear every packet the   *)
(* host sends.  STALL handshakes, isochronous endpoints and software       *)
(* writes of the toggles are left out.                                     *)
(***************************************************************************)
EXTENDS Naturals, Sequences

CONSTANTS MaxPackets,  \* packets each way in a session
          MaxSessions  \* bound on the sessions begun after the first

ASSUME MaxPacketsAssumption  == MaxPackets \in Nat
ASSUME MaxSessionsAssumption == MaxSessions \in Nat

VARIABLES
  wire,              \* the packet on the bus
  outXact, inXact,   \* states of the two engines
  hasData,           \* has_data_q of the IN engine
  outToggle, inToggle,   \* data_toggle_q of the two engines
  outLog,            \* OUT packets stored in this session
  inRdy, inAcked,    \* CONFIGIN.rdy; IN packets acknowledged in this session
  session,           \* sessions begun
  phase,             \* host: it is sending a SETUP packet, or the data
  hostState,         \* host: where it is in its transaction
  hostOut, hostIn,   \* host: its own two data toggles
  outAcked, inLog    \* host: OUT packets acknowledged, IN packets taken

device   == <<outXact, inXact, hasData, outToggle, inToggle, outLog, inRdy, inAcked>>
hostVars == <<phase, hostState, hostOut, hostIn, outAcked, inLog>>
pipeVars == <<wire, device, session, hostVars>>

None == [pid |-> "none"]
Token(pid) == [pid |-> pid]                \* "SETUP", "OUT" or "IN"
Data(to, t, n) == [pid |-> "DATA", to |-> to, toggle |-> t, n |-> n]
Handshake(to, pid) == [pid |-> pid, to |-> to]

Toggles == {0, 1}
Tokens  == {"SETUP", "OUT", "IN"}

-----------------------------------------------------------------------------
(* The host.  It speaks when nobody else does, and begins a transaction    *)
(* when the OUT engine has given up the last one: the engine waits for 18  *)
(* bit times, which is less than the host's own wait and a token.          *)

Quiet == wire = None /\ inXact # "answer"

HostToken(pid) ==
  /\ Quiet /\ hostState = "idle" /\ outXact = "idle"
  /\ IF phase = "setup" THEN pid = "SETUP"
     ELSE pid = "IN" \/ (pid = "OUT" /\ outAcked < MaxPackets)
  /\ wire' = Token(pid)
  /\ hostState' = IF pid = "IN" THEN "awaitData" ELSE "data"
  /\ UNCHANGED <<device, session, phase, hostOut, hostIn, outAcked, inLog>>

HostData ==
  /\ Quiet /\ hostState = "data"
  /\ wire' = IF phase = "setup" THEN Data("device", 0, 0)
                                ELSE Data("device", hostOut, outAcked + 1)
  /\ hostState' = "awaitHandshake"
  /\ UNCHANGED <<device, session, phase, hostOut, hostIn, outAcked, inLog>>

HostAcked ==
  /\ hostState = "awaitHandshake" /\ wire = Handshake("host", "ACK")
  /\ wire' = None /\ hostState' = "idle"
  /\ IF phase = "setup"
     THEN /\ phase' = "data" /\ hostOut' = 1 /\ hostIn' = 1
          /\ UNCHANGED outAcked
     ELSE /\ hostOut' = 1 - hostOut /\ outAcked' = outAcked + 1
          /\ UNCHANGED <<phase, hostIn>>
  /\ UNCHANGED <<device, session, inLog>>

HostRefused ==
  /\ wire = Handshake("host", "NAK")
  /\ wire' = None /\ hostState' = "idle"
  /\ UNCHANGED <<device, session, phase, hostOut, hostIn, outAcked, inLog>>

(* Data with the wrong toggle is a repetition; it is acknowledged too. *)
HostTakes ==
  /\ hostState = "awaitData" /\ wire.pid = "DATA"
  /\ wire' = Handshake("device", "ACK") /\ hostState' = "idle"
  /\ IF wire.toggle = hostIn
     THEN hostIn' = 1 - hostIn /\ inLog' = Append(inLog, wire.n)
     ELSE UNCHANGED <<hostIn, inLog>>
  /\ UNCHANGED <<device, session, phase, hostOut, outAcked>>

HostTimeout ==
  /\ Quiet /\ hostState \in {"awaitData", "awaitHandshake"}
  /\ hostState' = "idle"
  /\ UNCHANGED <<wire, device, session, phase, hostOut, hostIn, outAcked, inLog>>

(* The host begins a control transfer, whatever became of the last one. *)
HostBegins ==
  /\ session < MaxSessions
  /\ Quiet /\ hostState = "idle"
  /\ session' = session + 1
  /\ phase' = "setup" /\ outAcked' = 0 /\ inLog' = <<>>
  /\ UNCHANGED <<wire, device, hostState, hostOut, hostIn>>

-----------------------------------------------------------------------------
(* The OUT engine. *)

\* The IN engine takes any packet but an ACK for the loss of one
NoAck == inXact' = IF inXact = "waitAck" THEN "idle" ELSE inXact

\* Mutant: a SETUP token leaves the toggle of the IN direction alone
SetupTogglesOutOnly == outToggle' = 0 /\ UNCHANGED inToggle

SetupToggles == outToggle' = 0 /\ inToggle' = 1

TokenReceived(pid) ==
  /\ wire = Token(pid) /\ pid \in {"SETUP", "OUT"}
  /\ outXact' = pid
  /\ IF pid = "SETUP" THEN SetupToggles ELSE UNCHANGED <<outToggle, inToggle>>
  /\ NoAck
  /\ wire' = None
  /\ UNCHANGED <<hasData, outLog, inRdy, inAcked, session, hostVars>>

OutDataReceived ==
  /\ wire.pid = "DATA" /\ wire.to = "device"
  /\ outXact' = "idle" /\ NoAck
  /\ UNCHANGED <<hasData, session, hostVars>>

OutDataIgnored ==
  /\ outXact = "idle" /\ OutDataReceived
  /\ wire' = None
  /\ UNCHANGED <<outToggle, inToggle, outLog, inRdy, inAcked>>

\* Mutant: a repetition is not acknowledged
OutRepeatedNak ==
  /\ outXact # "idle" /\ OutDataReceived
  /\ wire.toggle # outToggle
  /\ wire' = Handshake("host", "NAK")
  /\ UNCHANGED <<outToggle, inToggle, outLog, inRdy, inAcked>>

(* The host has missed the last acknowledgement. *)
OutRepeated ==
  /\ outXact # "idle" /\ OutDataReceived
  /\ wire.toggle # outToggle
  /\ wire' = Handshake("host", "ACK")
  /\ UNCHANGED <<outToggle, inToggle, outLog, inRdy, inAcked>>

\* Mutant: the toggle is not looked at
OutExpectedAny == outXact # "idle" /\ OutDataReceived

OutExpected ==
  /\ outXact # "idle" /\ OutDataReceived
  /\ wire.toggle = outToggle

(* No buffer, no room, or reception disabled: NAK, and no answer to SETUP. *)
OutRefused ==
  /\ OutExpected
  /\ wire' = IF outXact = "SETUP" THEN None ELSE Handshake("host", "NAK")
  /\ UNCHANGED <<outToggle, inToggle, outLog, inRdy, inAcked>>

(* A SETUP packet cancels what was to be sent and begins the session. *)
OutAccepted ==
  /\ OutExpected
  /\ wire' = Handshake("host", "ACK")
  /\ outToggle' = 1 - outToggle
  /\ IF outXact = "SETUP"
     THEN outLog' = <<>> /\ inRdy' = FALSE /\ inAcked' = 0
     ELSE outLog' = Append(outLog, wire.n) /\ UNCHANGED <<inRdy, inAcked>>
  /\ UNCHANGED inToggle

OutTimeout ==
  /\ outXact # "idle"
  /\ outXact' = "idle"
  /\ UNCHANGED <<wire, inXact, hasData, outToggle, inToggle, outLog, inRdy, inAcked,
                 session, hostVars>>

-----------------------------------------------------------------------------
(* The IN engine. *)

InTokenReceived ==
  /\ wire = Token("IN")
  /\ wire' = None
  /\ inXact' = "answer" /\ hasData' = inRdy
  /\ UNCHANGED <<outXact, outToggle, inToggle, outLog, inRdy, inAcked, session, hostVars>>

InResponse ==
  /\ inXact = "answer"
  /\ IF hasData THEN /\ wire' = Data("host", inToggle, inAcked + 1)
                     /\ inXact' = "waitAck"
                ELSE wire' = Handshake("host", "NAK") /\ inXact' = "idle"
  /\ UNCHANGED <<outXact, hasData, outToggle, inToggle, outLog, inRdy, inAcked,
                 session, hostVars>>

(* The wait begins when the packet has been sent. *)
InTimeout ==
  /\ inXact = "waitAck" /\ wire.pid # "DATA"
  /\ inXact' = "idle"
  /\ UNCHANGED <<wire, outXact, hasData, outToggle, inToggle, outLog, inRdy, inAcked,
                 session, hostVars>>

AckReceived ==
  /\ wire = Handshake("device", "ACK")
  /\ wire' = None
  /\ inXact' = "idle"
  /\ IF inXact = "waitAck"
     THEN inToggle' = 1 - inToggle /\ inRdy' = FALSE /\ inAcked' = inAcked + 1
     ELSE UNCHANGED <<inToggle, inRdy, inAcked>>
  /\ UNCHANGED <<outXact, hasData, outToggle, outLog, session, hostVars>>

(* Software sends the next packet when the last is done, or sends again    *)
(* the one that was cancelled.                                             *)
QueuePacket ==
  /\ ~inRdy /\ inAcked < MaxPackets
  /\ inRdy' = TRUE
  /\ UNCHANGED <<wire, outXact, inXact, hasData, outToggle, inToggle, outLog, inAcked,
                 session, hostVars>>

-----------------------------------------------------------------------------
PipeReset ==
  /\ session < MaxSessions
  /\ session' = session + 1
  /\ wire' = None
  /\ outXact' = "idle" /\ inXact' = "idle"
  /\ outToggle' = 0 /\ inToggle' = 0
  /\ inRdy' = FALSE /\ outLog' = <<>> /\ inAcked' = 0
  /\ phase' = "data" /\ hostState' = "idle"
  /\ hostOut' = 0 /\ hostIn' = 0 /\ outAcked' = 0 /\ inLog' = <<>>
  /\ UNCHANGED hasData

Lose ==
  /\ wire # None
  /\ wire' = None
  /\ UNCHANGED <<device, session, hostVars>>

PipeInit ==
  /\ wire = None
  /\ outXact = "idle" /\ inXact = "idle" /\ hasData = FALSE
  /\ outToggle = 0 /\ inToggle = 0
  /\ outLog = <<>> /\ inRdy = FALSE /\ inAcked = 0
  /\ session = 0
  /\ phase = "data" /\ hostState = "idle"
  /\ hostOut = 0 /\ hostIn = 0 /\ outAcked = 0 /\ inLog = <<>>

TokenHeard == \E pid \in Tokens : TokenReceived(pid)

PipeNext ==
  \/ \E pid \in Tokens : HostToken(pid)
  \/ HostData \/ HostAcked \/ HostRefused \/ HostTakes \/ HostTimeout \/ HostBegins
  \/ TokenHeard \/ OutDataIgnored \/ OutRepeated \/ OutRefused \/ OutAccepted \/ OutTimeout
  \/ InTokenReceived \/ InResponse \/ InTimeout \/ AckReceived \/ QueuePacket
  \/ PipeReset \/ Lose

(* The host polls for ever; software supplies buffers and packets; the bus *)
(* does not lose every packet of a kind, nor is the answer always late.    *)
Fairness ==
  /\ \A pid \in Tokens : SF_pipeVars(HostToken(pid))
  /\ WF_pipeVars(HostTimeout)
  /\ WF_pipeVars(HostData) /\ SF_pipeVars(outXact # "idle" /\ HostData)
  /\ SF_pipeVars(HostAcked) /\ WF_pipeVars(HostRefused) /\ SF_pipeVars(HostTakes)
  /\ SF_pipeVars(TokenHeard) /\ WF_pipeVars(OutDataIgnored)
  /\ SF_pipeVars(OutRepeated) /\ SF_pipeVars(OutAccepted) /\ WF_pipeVars(OutTimeout)
  /\ SF_pipeVars(InTokenReceived) /\ WF_pipeVars(InResponse)
  /\ SF_pipeVars(inXact = "waitAck" /\ AckReceived) /\ WF_pipeVars(AckReceived)
  /\ WF_pipeVars(QueuePacket)

PipeSpec == PipeInit /\ [][PipeNext]_pipeVars /\ Fairness

-----------------------------------------------------------------------------
BusPackets ==
  {None} \cup [pid : Tokens]
  \cup [pid : {"DATA"}, to : {"device", "host"}, toggle : Toggles, n : Nat]
  \cup [pid : {"ACK", "NAK"}, to : {"device", "host"}]

PipeTypeOK ==
  /\ wire \in BusPackets
  /\ outXact \in {"idle", "SETUP", "OUT"} /\ inXact \in {"idle", "answer", "waitAck"}
  /\ hasData \in BOOLEAN /\ inRdy \in BOOLEAN
  /\ outToggle \in Toggles /\ inToggle \in Toggles
  /\ hostOut \in Toggles /\ hostIn \in Toggles
  /\ outLog \in Seq(Nat) /\ inLog \in Seq(Nat)
  /\ inAcked \in 0..MaxPackets /\ outAcked \in 0..MaxPackets
  /\ session \in 0..MaxSessions
  /\ phase \in {"setup", "data"}
  /\ hostState \in {"idle", "data", "awaitHandshake", "awaitData"}

(* While the host is still sending the SETUP packet nothing of the new     *)
(* session has been delivered, whatever the device remembers.              *)
OutKnown == IF phase = "setup" THEN <<>> ELSE outLog
InKnown  == IF phase = "setup" THEN 0 ELSE inAcked

Out == INSTANCE UsbDelivery WITH log <- OutKnown, acked <- outAcked
In  == INSTANCE UsbDelivery WITH log <- inLog, acked <- InKnown

(* OUT packets are stored in order and once each, whatever is lost: a      *)
(* repetition after a lost ACK is acknowledged and not stored again, and a *)
(* repeated SETUP brings both sides back to the same toggles.              *)
OutExactlyOnce == Out!Spec

(* IN packets reach the host in order and once each, and IN_SENT is set    *)
(* only for a packet the host has: after a lost or late ACK the packet     *)
(* stays ready and is sent again with the same toggle.                     *)
InExactlyOnce == In!Spec

(* In the last session everything arrives and both senders learn it, also  *)
(* when the SETUP packet is repeated: neither side is left waiting for the *)
(* other with toggles that disagree.                                       *)
AllDelivered == <>[](outAcked = MaxPackets /\ inAcked = MaxPackets)

=============================================================================
