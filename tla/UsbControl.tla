----------------------------- MODULE UsbControl -----------------------------
(***************************************************************************)
(* Control transfers: the polled USB stack (usb_testutils.c) and its       *)
(* control endpoint (usb_testutils_controlep.c) on the device controller,  *)
(* and a host that makes one request after another on endpoint 0.          *)
(*                                                                         *)
(* Software is one thread; a step of it is one register access and what it *)
(* computes up to the next one.  A request is one of a few kinds, and a    *)
(* packet is the request it belongs to and whether it is the last of the   *)
(* data stage.  Transactions are neither lost nor damaged, and the host    *)
(* gives up no transfer, but under ResetSpec it may reset the link.  What  *)
(* a free buffer contains, and variables of the code that are out of       *)
(* scope, are not remembered.                                              *)
(***************************************************************************)
EXTENDS Usbdev, FiniteSetsExt

CONSTANTS
  Requests,    \* the kinds of request the host makes
  LargeParts,  \* packets of a "large" answer (cfg_dscr_len >= 64 bytes)
  Overlap      \* transactions that may end while one poll runs, at most

(* "small", "large": data to the host.  "address", "config", "feature": no *)
(* data.  "unknown": a request setup_req does not know.                    *)
Kinds == {"small", "large", "unknown", "address", "config", "feature"}

ASSUME RequestsAssumption == Requests \subseteq Kinds
ASSUME LargePartsAssumption == LargeParts \in Nat /\ LargeParts >= 2
ASSUME OverlapAssumption == Overlap \in Nat
ASSUME EndpointAssumption == Eps = {0} /\ ControlEps = {0}
ASSUME BufferCountAssumption == Cardinality(Buffers) > 2 + AvOutDepth

VARIABLES
  pool, content,    \* free buffers; what is in each buffer
  addr,             \* USBCTRL.device_address
  resetIntr,        \* INTR_STATE.link_reset
  pc, istate,       \* where the poll is; the interrupts it handles
  buf,              \* the buffer it works on
  pkt,              \* the packet it took from the Received Buffer FIFO
  ctrl,             \* ctctx->ctrlstate
  xfer,             \* ctx->in[0].transfer
  stage, req,       \* host: the stage of its transfer, and the request
  hostAddr,         \* host: the address it uses for the device
  stalled,          \* host: the last transfer ended with a STALL
  ended             \* transactions that have ended during this poll

sw      == <<pool, pc, istate, buf, pkt, ctrl, xfer>>
host    == <<stage, req, hostAddr, stalled>>
ctlVars == <<hwVars, sw, content, addr, resetIntr, host, ended>>

NoBuf  == "no buffer"

ASSUME NoBufAssumption == NoBuf \notin Buffers

NoData == [req |-> "none", last |-> FALSE]
NoXfer == [active |-> FALSE, left |-> 0, next |-> NoBuf]
Data(r, last) == [req |-> r, last |-> last]

\* Mutant: the answer is sent without having been written
FirstUnwritten(r) == NoData

(* What setup_req sends, and the state it leaves the endpoint in. *)
First(r) == Data(r, r # "large")

\* Mutant: the status stage of a read is not waited for
AfterSetupNoStatus(r) ==
  CASE r \in {"small", "large"} -> "statIn"
    [] r = "address" -> "addrStatIn"
    [] r = "config"  -> "cfgStatIn"
    [] r = "feature" -> "statIn"

AfterSetup(r) ==
  CASE r \in {"small", "large"} -> "waitIn"
    [] r = "address" -> "addrStatIn"
    [] r = "config"  -> "cfgStatIn"
    [] r = "feature" -> "statIn"

(* dif_usbdev_buffer_return *)
Return(b) == pool \cup {b}

-----------------------------------------------------------------------------
(* usb_testutils_poll: the interrupts are read once.  "other" stands for   *)
(* the interrupts that need nothing but the end of the poll, such as the   *)
(* bus frame; without any interrupt the poll returns at once.              *)
Poll ==
  /\ pc = "poll"
  /\ \E other \in BOOLEAN :
       istate' = {i \in {"sent", "received", "reset", "empty", "other"} :
                    \/ i = "sent" /\ inSent # {}
                    \/ i = "received" /\ rx # <<>>
                    \/ i = "reset" /\ resetIntr
                    \/ i = "empty" /\ (avSetup = {} \/ avOut = {})
                    \/ i = "other" /\ other}
  /\ istate' # {}
  /\ pc' = IF "sent" \in istate' THEN "clear" ELSE "fill"
  /\ UNCHANGED <<hwVars, pool, content, addr, resetIntr, buf, pkt, ctrl, xfer, host, ended>>

(* dif_usbdev_clear_tx_status *)
ClearRead ==
  /\ pc = "clear"
  /\ buf' = configin[0].buf
  /\ pc' = "clearPend"
  /\ UNCHANGED <<hwVars, pool, content, addr, resetIntr, istate, pkt, ctrl, xfer, host, ended>>

ClearWritePend ==
  /\ pc = "clearPend"
  /\ ClearPend(0)
  /\ pc' = "clearSent"
  /\ UNCHANGED <<pool, content, addr, resetIntr, istate, buf, pkt, ctrl, xfer, host, ended>>

\* Mutant: the buffer is not returned
ClearWriteSentLoses ==
  /\ pc = "clearSent"
  /\ ClearSent(0)
  /\ buf' = NoBuf
  /\ pc' = "sent"
  /\ UNCHANGED <<pool, content, addr, resetIntr, istate, pkt, ctrl, xfer, host, ended>>

ClearWriteSent ==
  /\ pc = "clearSent"
  /\ ClearSent(0)
  /\ pool' = Return(buf) /\ content' = [content EXCEPT ![buf] = NoData]
  /\ buf' = NoBuf
  /\ pc' = "sent"
  /\ UNCHANGED <<addr, resetIntr, istate, pkt, ctrl, xfer, host, ended>>

(* What is left of the transfer: parts not prepared yet (!transfer->last), *)
(* and perhaps one that is (transfer->next_valid).                         *)
PartLeft == xfer.active /\ xfer.left > 0
MoreToSend == PartLeft \/ (xfer.active /\ xfer.next # NoBuf)

\* Mutant: the prepared packet stays prepared when it is sent
TakeNextKept == xfer

TakeNext == [xfer EXCEPT !.next = NoBuf]

(* usb_testutils_part_prepare *)
Part == Data("large", xfer.left = 1)

(* The transfer goes on: with the packet already prepared, or a new one. *)
SendNextPart ==
  /\ pc = "sent" /\ MoreToSend
  /\ \/ /\ xfer.next # NoBuf
        /\ buf' = xfer.next
        /\ xfer' = TakeNext
        /\ UNCHANGED <<pool, content>>
     \/ /\ xfer.next = NoBuf
        /\ \E b \in pool :
             /\ buf' = b /\ pool' = pool \ {b}
             /\ content' = [content EXCEPT ![b] = Part]
        /\ xfer' = [xfer EXCEPT !.left = @ - 1]
  /\ pc' = "sendPart"
  /\ UNCHANGED <<hwVars, addr, resetIntr, istate, pkt, ctrl, host, ended>>

\* Mutant: the transfer that is done stays in progress
EndXferNot == xfer

EndXfer == [xfer EXCEPT !.active = FALSE]

\* Mutant: the new address is forgotten
AddressForgotten == addr

\* Mutant: the address is set after any status stage
AddressAnyStatus == IF ctrl \in {"addrStatIn", "cfgStatIn"} THEN 1 ELSE addr

Address == IF ctrl = "addrStatIn" THEN 1 ELSE addr

(* The packet or the transfer is done: ctrl_tx_done. *)
TxDone ==
  /\ pc = "sent"
  /\ ~MoreToSend \/ (xfer.next = NoBuf /\ pool = {})
  /\ xfer' = EndXfer
  /\ ctrl' = CASE ctrl \in {"addrStatIn", "cfgStatIn", "statIn"} -> "idle"
               [] ctrl = "waitIn" -> "statOut"
               [] OTHER -> ctrl
  /\ addr' = Address
  /\ pc' = "fill"
  /\ UNCHANGED <<hwVars, pool, content, resetIntr, istate, buf, pkt, host, ended>>

-----------------------------------------------------------------------------
(* dif_usbdev_send, for a packet of its own ("send") or from               *)
(* usb_testutils_transfer_next_part ("sendPart"), which prepares the next  *)
(* part of the transfer at once: it is double buffered.                    *)

Readying == pc \in {"sendReady", "partReady"}

SendBuffer ==
  /\ pc \in {"send", "sendPart"}
  /\ WriteConfigin(0, buf, FALSE)
  /\ pc' = IF pc = "send" THEN "sendReady" ELSE "partReady"
  /\ UNCHANGED <<pool, content, addr, resetIntr, istate, buf, pkt, ctrl, xfer, host, ended>>

(* The packet with the ready bit is a part of the transfer, or the answer  *)
(* setup_req sends itself, whatever transfer is left over.                 *)
SendReady ==
  /\ Readying
  /\ WriteConfigin(0, buf, TRUE)
  /\ IF pc = "partReady" /\ PartLeft /\ pool # {}
     THEN \E b \in pool :
            /\ pool' = pool \ {b}
            /\ content' = [content EXCEPT ![b] = Part]
            /\ xfer' = [xfer EXCEPT !.left = @ - 1, !.next = b]
     ELSE UNCHANGED <<pool, content, xfer>>
  /\ pc' = IF pkt = NoBuf THEN "fill" ELSE "receive"
  /\ buf' = NoBuf /\ pkt' = NoBuf
  /\ UNCHANGED <<addr, resetIntr, istate, ctrl, host, ended>>

SetupLow == Cardinality(avSetup) < 2

(* dif_usbdev_fill_available_fifos *)
Fill ==
  /\ pc = "fill"
  /\ LET setup == SetupLow
     IN  IF pool = {} \/ (~setup /\ Cardinality(avOut) >= AvOutDepth)
         THEN pc' = "receive" /\ UNCHANGED <<hwVars, pool>>
         ELSE \E b \in pool :
                /\ pool' = pool \ {b}
                /\ IF setup THEN WriteAvSetup(b) ELSE WriteAvOut(b)
                /\ UNCHANGED pc
  /\ UNCHANGED <<content, addr, resetIntr, istate, buf, pkt, ctrl, xfer, host, ended>>

-----------------------------------------------------------------------------
(* The receive loop runs until the FIFO is empty, also for packets that    *)
(* came after the interrupts were read.                                    *)

Receive ==
  /\ pc = "receive" /\ "received" \in istate /\ rx # <<>>
  /\ PopRx
  /\ pkt' = Head(rx).buf
  /\ pc' = IF Head(rx).setup THEN "setup" ELSE "out"
  /\ UNCHANGED <<pool, content, addr, resetIntr, istate, buf, ctrl, xfer, host, ended>>

(* ctrl_rx of a SETUP packet in the idle state: the packet's buffer goes   *)
(* back to the pool and setup_req takes one, whatever the request.  A      *)
(* buffer it does not use is returned for a large answer only.             *)

SetupTaken ==
  /\ pc = "setup" /\ ctrl = "idle"
  /\ WriteRxenOut(rxenOut \cup {0})
  /\ \E b \in Return(pkt) :
       LET r == content[pkt].req
           begun == r = "large" /\ xfer.active
           sends == r # "unknown" /\ ~begun
       IN  /\ pool' = IF begun THEN Return(pkt) ELSE Return(pkt) \ {b}
           /\ buf' = IF sends THEN b ELSE NoBuf
           /\ content' = [content EXCEPT ![pkt] = NoData,
                                         ![b] = IF sends THEN First(r) ELSE NoData]
           /\ xfer' = IF r = "large" /\ sends
                      THEN [active |-> TRUE, left |-> LargeParts - 1, next |-> NoBuf]
                      ELSE xfer
           /\ ctrl' = IF sends THEN AfterSetup(r) ELSE "error"
           /\ pc' = IF ~sends THEN "stallIn" ELSE IF r = "large" THEN "sendPart" ELSE "send"
           /\ pkt' = IF sends THEN pkt ELSE NoBuf
  /\ UNCHANGED <<addr, resetIntr, istate, host, ended>>

StatusTaken ==
  /\ pc = "out" /\ ctrl = "statOut"
  /\ WriteRxenOut(rxenOut \cup {0})
  /\ pool' = Return(pkt) /\ pkt' = NoBuf
  /\ ctrl' = "idle"
  /\ pc' = "receive"
  /\ UNCHANGED <<content, addr, resetIntr, istate, buf, xfer, host, ended>>

(* Anything else is an error: both directions are stalled and the packet   *)
(* is forgotten.                                                           *)
Unexpected ==
  /\ pc \in {"setup", "out"}
  /\ ~(pc = "setup" /\ ctrl = "idle") /\ ~(pc = "out" /\ ctrl = "statOut")
  /\ WriteRxenOut(rxenOut \cup {0})
  /\ pc' = "stallIn"
  /\ UNCHANGED <<pool, content, addr, resetIntr, istate, buf, pkt, ctrl, xfer, host, ended>>

StallIn ==
  /\ pc = "stallIn"
  /\ WriteInStall(inStall \cup {0})
  /\ pc' = "stallOut"
  /\ UNCHANGED <<pool, content, addr, resetIntr, istate, buf, pkt, ctrl, xfer, host, ended>>

StallOut ==
  /\ pc = "stallOut"
  /\ WriteOutStall(outStall \cup {0})
  /\ pool' = (IF pkt = NoBuf THEN pool ELSE Return(pkt)) /\ pkt' = NoBuf
  /\ content' = [b \in Buffers |-> IF b = pkt THEN NoData ELSE content[b]]
  /\ ctrl' = "idle"
  /\ pc' = "receive"
  /\ UNCHANGED <<addr, resetIntr, istate, buf, xfer, host, ended>>

(* The reset callback, and the acknowledgement of what was read. *)
Acknowledge ==
  /\ pc = "receive" /\ ~("received" \in istate /\ rx # <<>>)
  /\ ctrl' = IF "reset" \in istate THEN "idle" ELSE ctrl
  /\ resetIntr' = (resetIntr /\ "reset" \notin istate)
  /\ istate' = {}
  /\ pc' = "poll" /\ ended' = 0
  /\ UNCHANGED <<hwVars, pool, content, addr, buf, pkt, xfer, host>>

Software ==
  \/ Poll \/ ClearRead \/ ClearWritePend \/ ClearWriteSent \/ SendNextPart \/ TxDone
  \/ SendBuffer \/ SendReady \/ Fill \/ Receive \/ SetupTaken \/ StatusTaken
  \/ Unexpected \/ StallIn \/ StallOut \/ Acknowledge

-----------------------------------------------------------------------------
(* The host.  It repeats what the device does not answer, and the device   *)
(* hears it under its own address only.                                    *)

Heard == hostAddr = addr

(* The bus moves freely between two polls, and Overlap times during one. *)
Ends ==
  /\ pc # "poll" => ended < Overlap
  /\ ended' = IF pc = "poll" THEN 0 ELSE ended + 1

HBegin(r) ==
  /\ stage = "idle" /\ xact = NoXact
  /\ stage' = "setup" /\ req' = r
  /\ stalled' = FALSE
  /\ UNCHANGED <<hwVars, sw, content, addr, resetIntr, hostAddr, ended>>

HToken ==
  /\ Heard
  /\ \/ stage = "setup" /\ OutToken("setup", 0)
     \/ stage = "statusOut" /\ OutToken("out", 0)
     \/ stage \in {"dataIn", "statusIn"} /\ InToken(0)
  /\ UNCHANGED <<sw, content, addr, resetIntr, host, ended>>

HSetupTaken(b) ==
  /\ Ends /\ stage = "setup" /\ OutTaken(b)
  /\ content' = [content EXCEPT ![b] = Data(req, TRUE)]
  /\ stage' = IF req \in {"small", "large", "unknown"} THEN "dataIn" ELSE "statusIn"
  /\ UNCHANGED <<sw, addr, resetIntr, req, hostAddr, stalled>>

HStatusTaken(b) ==
  /\ Ends /\ stage = "statusOut" /\ OutTaken(b)
  /\ stage' = "idle"
  /\ UNCHANGED <<sw, content, addr, resetIntr, req, hostAddr, stalled>>

(* An OUT endpoint that stalls fails the transfer; otherwise the packet is *)
(* sent again.                                                             *)
HRefused ==
  /\ OutNotTaken
  /\ \/ Full(xact.kind, 0)
     \/ stage = "statusOut" /\ 0 \in outStall
  /\ IF stage = "statusOut" /\ 0 \in outStall
     THEN stage' = "idle" /\ stalled' = TRUE
     ELSE UNCHANGED <<stage, stalled>>
  /\ UNCHANGED <<sw, content, addr, resetIntr, req, hostAddr, ended>>

HAnswered ==
  /\ InAnswer
  /\ IF 0 \in inStall
     THEN stage' = "idle" /\ stalled' = TRUE
     ELSE UNCHANGED <<stage, stalled>>
  /\ UNCHANGED <<sw, content, addr, resetIntr, req, hostAddr, ended>>

(* The host acknowledges the data.  The last packet ends the data stage.   *)
HAcks ==
  /\ Ends /\ InAcked
  /\ IF stage = "statusIn"
     THEN /\ stage' = "idle"
          /\ hostAddr' = IF req = "address" THEN 1 ELSE hostAddr
     ELSE /\ stage' = IF content[xact.buf].last THEN "statusOut" ELSE "dataIn"
          /\ UNCHANGED hostAddr
  /\ UNCHANGED <<sw, content, addr, resetIntr, req, stalled>>

(* A link reset clears the device address and raises the interrupt. *)
HReset ==
  /\ Ends
  /\ LinkReset
  /\ addr' = 0 /\ resetIntr' = TRUE
  /\ stage' = "idle" /\ hostAddr' = 0
  /\ UNCHANGED <<sw, content, req, stalled>>

Host ==
  \/ \E r \in Requests : HBegin(r)
  \/ HToken \/ HRefused \/ HAnswered \/ HAcks
  \/ \E b \in Buffers : HSetupTaken(b) \/ HStatusTaken(b)

-----------------------------------------------------------------------------
(* After usb_testutils_init, which fills the FIFOs, and                    *)
(* usb_testutils_controlep_init: endpoint 0 has kUsbdevOutMessage.         *)
CtlInit ==
  /\ QuietInit /\ setNak = {0} /\ rxenOut = {0}
  /\ avSetup \in kSubset(2, Buffers) /\ avOut \in kSubset(AvOutDepth, Buffers \ avSetup)
  /\ pool = Buffers \ (avSetup \cup avOut)
  /\ content = [b \in Buffers |-> NoData]
  /\ addr = 0 /\ resetIntr = FALSE
  /\ pc = "poll" /\ istate = {}
  /\ buf = NoBuf /\ pkt = NoBuf
  /\ ctrl = "idle" /\ xfer = NoXfer
  /\ stage = "idle" /\ req = "small" /\ hostAddr = 0 /\ stalled = FALSE
  /\ ended = 0

CtlNext == Software \/ Host

(* Software polls for ever, and a host that has begun a transfer goes on.  *)
CtlSpec ==
  /\ CtlInit /\ [][CtlNext]_ctlVars
  /\ WF_ctlVars(Software) /\ SF_ctlVars(Host)

(* The same with a host that also resets the link. *)
ResetSpec == CtlInit /\ [][CtlNext \/ HReset]_ctlVars

-----------------------------------------------------------------------------
(* Where the buffers are that are not free and not in a FIFO: queued on    *)
(* the endpoint, prepared, or in the hands of the code that is running.    *)
Queued   == IF configin[0].rdy \/ (0 \in inSent /\ pc \notin {"clearSent"})
            THEN {configin[0].buf} ELSE {}
Prepared == {xfer.next} \ {NoBuf}
InHand   == (IF pc \in {"clearSent", "send", "sendPart"} \/ Readying THEN {buf} ELSE {})
            \cup (IF pc \in {"setup", "out", "stallIn", "stallOut"} THEN {pkt} \ {NoBuf} ELSE {})
InFifos  == avSetup \cup avOut \cup {rx[i].buf : i \in DOMAIN rx}

(* No buffer is ever in two of those places while the host runs its        *)
(* transfers to their end: a packet is never overwritten before it was     *)
(* sent or read.                                                           *)
BuffersNotShared ==
  /\ pool \cap (Queued \cup Prepared \cup InHand \cup InFifos) = {}
  /\ InFifos \cap (Queued \cup Prepared \cup InHand) = {}
  /\ Prepared \cap (Queued \cup InHand) = {}
  /\ ~Readying => Queued \cap InHand = {}

NoBufferLost  == pool \cup Queued \cup Prepared \cup InHand \cup InFifos = Buffers
SetupSupplied == pc = "receive" /\ ended = 0 => avSetup # {}

(* Requests that are known and run to their end cost no buffer, and        *)
(* filling the FIFOs always leaves one for the next SETUP packet           *)
(* (usb_testutils.c:143: "Keep buffers available for packet reception").   *)
BuffersKept == NoBufferLost /\ SetupSupplied

(* What the host is given in the data or status stage belongs to the       *)
(* request it made last.                                                   *)
AnswersRequest == xact.kind = "data" => content[xact.buf].req = req

(* The device answers under its old address until the status stage of      *)
(* SET_ADDRESS is over (USB 2.0, 9.4.6).                                   *)
AddressAfterStatus == addr = 1 => hostAddr = 1

(* When a transfer is over and the device has nothing more to process, the *)
(* control endpoint waits for a SETUP packet and no transfer is left.      *)
AgreeWhenIdle ==
  pc = "poll" /\ stage = "idle" /\ inSent = {} /\ rx = <<>> =>
    ctrl = "idle" /\ ~xfer.active /\ Prepared = {} /\ ~configin[0].rdy

(* The control endpoint takes a packet of a known request for an error     *)
(* only when the poll handles the host's response before the completion of *)
(* the packet it responds to, which handling completions first does not    *)
(* prevent: both may come after the poll has looked for completions.       *)
OnlyOvertaken == pc = "stallIn" => 0 \in inSent

(* Known requests succeed. *)
NeverStalled == ~stalled

(* Every transfer comes to an end. *)
TransferEnds == stage # "idle" ~> stage = "idle"

(* When the reset callback runs, the device has no address any more        *)
(* (usb_testutils_controlep.c:410-411: "We have lost any device address    *)
(* that we were assigned").                                                *)
ResetLosesAddress == [][Acknowledge /\ "reset" \in istate => addr = 0]_ctlVars

=============================================================================
