------------------------------- MODULE Usbdev -------------------------------
(***************************************************************************)
(* The USB device controller as its driver and the host see it: the three  *)
(* buffer FIFOs, the CONFIGIN and IN_SENT registers, the stall and receive *)
(* enables, and the packet engines, one step per phase of a transaction    *)
(* (usbdev.sv, usbdev_usbif.sv, usb_fs_nb_out_pe.sv, usb_fs_nb_in_pe.sv).  *)
(*                                                                         *)
(* A packet is a buffer; its bytes, length and data toggle are left out.   *)
(* The two available-buffer FIFOs are sets: free buffers are alike, so     *)
(* which one is used next is left open.  Endpoints are enabled and none is *)
(* isochronous.                                                            *)
(***************************************************************************)
EXTENDS Naturals, Sequences, FiniteSets

CONSTANTS Eps,           \* endpoints (12 in the chip)
          ControlEps,    \* those that take SETUP packets: RXENABLE_SETUP
          Buffers,       \* packet buffers (32 in the chip)
          Buffer0,       \* buffer number 0, the reset value of CONFIGIN
          AvSetupDepth, AvOutDepth, RxDepth   \* 4, 8 and 8 in the chip

ASSUME EpsAssumption     == ControlEps \subseteq Eps
ASSUME BuffersAssumption == Buffer0 \in Buffers /\ IsFiniteSet(Buffers)
ASSUME DepthAssumption   ==
  /\ AvSetupDepth \in Nat /\ AvSetupDepth >= 2
  /\ AvOutDepth \in Nat
  /\ RxDepth \in Nat /\ RxDepth >= 2

VARIABLES
  avSetup, avOut,      \* Available SETUP and OUT Buffer FIFOs
  rx,                  \* Received Buffer FIFO
  configin, inSent,    \* CONFIGIN and IN_SENT
  inStall, outStall,   \* IN_STALL and OUT_STALL
  rxenOut, setNak,     \* RXENABLE_OUT and SET_NAK_OUT
  xact                 \* the transaction on the bus

fifos == <<avSetup, avOut, rx>>
inRegs == <<configin, inSent>>
outRegs == <<inStall, outStall, rxenOut, setNak>>
hwVars == <<fifos, inRegs, outRegs, xact>>

NoXact  == [kind |-> "none"]
Packets == [ep : Eps, setup : BOOLEAN, buf : Buffers]
Xacts   == {NoXact}
           \cup [kind : {"setup", "out"}, ep : Eps, nak : BOOLEAN]
           \cup [kind : {"in"}, ep : Eps, buf : Buffers, hasData : BOOLEAN]
           \cup [kind : {"data"}, ep : Eps, buf : Buffers]

(* Nothing received and nothing to send. *)
QuietInit ==
  /\ rx = <<>>
  /\ configin = [e \in Eps |-> [buf |-> Buffer0, rdy |-> FALSE,
                                pend |-> FALSE, sending |-> FALSE]]
  /\ inSent = {}
  /\ inStall = {} /\ outStall = {}
  /\ rxenOut \in SUBSET Eps /\ setNak \in SUBSET Eps
  /\ xact = NoXact

HwInit == QuietInit /\ avSetup = {} /\ avOut = {}

-----------------------------------------------------------------------------
(* Cancelled by a SETUP packet or a link reset: a ready packet becomes a   *)
(* pending one.                                                            *)
Cancel(c) == [c EXCEPT !.rdy = FALSE, !.pend = c.rdy \/ c.pend, !.sending = FALSE]

Available(kind) == IF kind = "setup" THEN avSetup ELSE avOut

\* Mutant: an OUT packet may take the last entry of the Received Buffer FIFO
FullButOne(kind, e) ==
  \/ Len(rx) >= RxDepth
  \/ Available(kind) = {}
  \/ kind = "out" /\ e \notin rxenOut

(* The device cannot take a packet now.  Only a SETUP packet may take the  *)
(* last entry of the Received Buffer FIFO.                                 *)
Full(kind, e) ==
  \/ Len(rx) >= IF kind = "setup" THEN RxDepth ELSE RxDepth - 1
  \/ Available(kind) = {}
  \/ kind = "out" /\ e \notin rxenOut

OutToken(kind, e) ==
  /\ xact = NoXact
  /\ kind = "setup" => e \in ControlEps
  /\ xact' = [kind |-> kind, ep |-> e, nak |-> FALSE]
  /\ UNCHANGED <<fifos, inRegs, outRegs>>

Receiving == xact.kind \in {"setup", "out"}

(* Data that arrives while the device is full spoils the packet. *)
OutDataWhenFull ==
  /\ Receiving /\ Full(xact.kind, xact.ep)
  /\ xact' = [xact EXCEPT !.nak = TRUE]
  /\ UNCHANGED <<fifos, inRegs, outRegs>>

(* A packet that is refused (STALL, NAK), damaged, late or a repetition    *)
(* leaves nothing behind.                                                  *)
OutNotTaken ==
  /\ Receiving
  /\ xact' = NoXact
  /\ UNCHANGED <<fifos, inRegs, outRegs>>

OutTaken(b) ==
  LET e == xact.ep  setup == xact.kind = "setup"
  IN  /\ Receiving /\ ~xact.nak /\ ~Full(xact.kind, e)
      /\ setup \/ e \notin outStall
      /\ b \in Available(xact.kind)
      /\ IF setup THEN avSetup' = avSetup \ {b} /\ UNCHANGED avOut
                  ELSE avOut' = avOut \ {b} /\ UNCHANGED avSetup
      /\ rx' = Append(rx, [ep |-> e, setup |-> setup, buf |-> b])
      /\ rxenOut' = rxenOut \ (setNak \cap {e})
      /\ IF setup THEN /\ configin' = [configin EXCEPT ![e] = Cancel(@)]
                       /\ inStall' = inStall \ {e} /\ outStall' = outStall \ {e}
                  ELSE UNCHANGED <<configin, inStall, outStall>>
      /\ UNCHANGED <<inSent, setNak>>
      /\ xact' = NoXact

-----------------------------------------------------------------------------
(* IN transactions.  Buffer and readiness are captured with the token. *)

InToken(e) ==
  /\ xact = NoXact
  /\ xact' = [kind |-> "in", ep |-> e, buf |-> configin[e].buf,
              hasData |-> configin[e].rdy]
  /\ configin' = [configin EXCEPT ![e].sending = TRUE]
  /\ UNCHANGED <<fifos, inSent, outRegs>>

(* STALL, NAK, or the data *)
InAnswer ==
  /\ xact.kind = "in"
  /\ xact' = IF xact.ep \notin inStall /\ xact.hasData
             THEN [kind |-> "data", ep |-> xact.ep, buf |-> xact.buf]
             ELSE NoXact
  /\ UNCHANGED <<fifos, inRegs, outRegs>>

InAcked ==
  /\ xact.kind = "data"
  /\ configin' = [configin EXCEPT ![xact.ep].rdy = FALSE, ![xact.ep].sending = FALSE]
  /\ inSent' = inSent \cup {xact.ep}
  /\ xact' = NoXact
  /\ UNCHANGED <<fifos, outRegs>>

(* No handshake, or a damaged one: the packet stays ready. *)
InNotAcked ==
  /\ xact.kind = "data"
  /\ xact' = NoXact
  /\ UNCHANGED <<fifos, inRegs, outRegs>>

\* Mutant: the transaction in progress goes on
LinkResetNoAbort ==
  /\ configin' = [e \in Eps |-> Cancel(configin[e])]
  /\ UNCHANGED <<fifos, inSent, outRegs, xact>>

LinkReset ==
  /\ configin' = [e \in Eps |-> Cancel(configin[e])]
  /\ xact' = NoXact
  /\ UNCHANGED <<fifos, inSent, outRegs>>

BusOther ==
  \/ \E e \in Eps : OutToken("setup", e) \/ OutToken("out", e) \/ InToken(e)
  \/ OutDataWhenFull
  \/ OutNotTaken
  \/ InAnswer
  \/ InNotAcked
  \/ LinkReset

-----------------------------------------------------------------------------
(* Register accesses of the driver.  A buffer written to a full FIFO is    *)
(* dropped.                                                                *)

WriteAvSetup(b) ==
  /\ avSetup' = IF Cardinality(avSetup) < AvSetupDepth THEN avSetup \cup {b} ELSE avSetup
  /\ UNCHANGED <<avOut, rx, inRegs, outRegs, xact>>

WriteAvOut(b) ==
  /\ avOut' = IF Cardinality(avOut) < AvOutDepth THEN avOut \cup {b} ELSE avOut
  /\ UNCHANGED <<avSetup, rx, inRegs, outRegs, xact>>

PopRx ==
  /\ rx # <<>>
  /\ rx' = Tail(rx)
  /\ UNCHANGED <<avSetup, avOut, inRegs, outRegs, xact>>

WriteConfigin(e, b, rdy) ==
  /\ configin' = [configin EXCEPT ![e].buf = b, ![e].rdy = rdy]
  /\ UNCHANGED <<fifos, inSent, outRegs, xact>>

(* The write of the PEND bit alone: the other fields are written as zero. *)
ClearPend(e) ==
  /\ configin' = [configin EXCEPT ![e].buf = Buffer0, ![e].rdy = FALSE, ![e].pend = FALSE]
  /\ UNCHANGED <<fifos, inSent, outRegs, xact>>

ClearSent(e) ==
  /\ inSent' = inSent \ {e}
  /\ UNCHANGED <<fifos, configin, outRegs, xact>>

WriteRxenOut(enabled) ==
  /\ rxenOut' = enabled
  /\ UNCHANGED <<fifos, inRegs, inStall, outStall, setNak, xact>>

WriteInStall(stalled) ==
  /\ inStall' = stalled
  /\ UNCHANGED <<fifos, inRegs, outStall, rxenOut, setNak, xact>>

WriteOutStall(stalled) ==
  /\ outStall' = stalled
  /\ UNCHANGED <<fifos, inRegs, inStall, rxenOut, setNak, xact>>

HwTypeOK ==
  /\ avSetup \subseteq Buffers /\ avOut \subseteq Buffers
  /\ rx \in Seq(Packets)
  /\ configin \in [Eps -> [buf : Buffers, rdy : BOOLEAN, pend : BOOLEAN, sending : BOOLEAN]]
  /\ inSent \subseteq Eps
  /\ inStall \subseteq Eps /\ outStall \subseteq Eps
  /\ rxenOut \subseteq Eps /\ setNak \subseteq Eps
  /\ xact \in Xacts

=============================================================================
