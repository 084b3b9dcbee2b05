---------------------------- MODULE UsbdevDriver ----------------------------
(***************************************************************************)
(* The driver of the USB device controller (dif_usbdev.c) and the buffers  *)
(* it hands out, used by a client that keeps to its header: it sends on an *)
(* endpoint only when no packet is queued there, and clears an endpoint    *)
(* only when the driver has told it that the packet was sent or cancelled. *)
(*                                                                         *)
(* Software is one thread, in one driver call at a time; every step is one *)
(* register access, and the bus makes steps of its own in between.  The    *)
(* pool is a set for the same reason the FIFOs are.                        *)
(***************************************************************************)
EXTENDS Usbdev

CONSTANTS MaxTx,   \* buffers the client holds for transmission, at most
          NakEps   \* endpoints set up with kUsbdevOutMessage: SET_NAK_OUT

ASSUME MaxTxAssumption == MaxTx \in Nat
ASSUME NakEpsAssumption == NakEps \subseteq Eps

VARIABLES
  pool,              \* the driver's free buffers
  reading, writing,  \* buffers the client holds: received, requested
  queued,            \* endpoints on which the client has queued a packet
  status,            \* what the driver last said of them
  call,              \* the driver call in progress
  acked              \* history: the host has acknowledged the queued packet

client  == <<reading, writing, queued, status>>
swVars  == <<pool, client, call>>
drvVars == <<hwVars, swVars, acked>>

Idle == [op |-> "idle"]

Calls ==
  {Idle}
  \cup [op : {"fill"}, setup : BOOLEAN]
  \cup [op : {"send"}, ep : Eps, buf : Buffers]
  \cup [op : {"status"}, ep : Eps, pend : BOOLEAN]
  \cup [op : {"clear", "cleared"}, ep : Eps, buf : Buffers]
  \cup [op : {"enable"}, ep : Eps, on : BOOLEAN, val : SUBSET Eps]

Statuses == {"none", "pending", "sent", "cancelled"}

-----------------------------------------------------------------------------
(* dif_usbdev_fill_available_fifos: one read of USBSTAT for each buffer.   *)
(* SETUP buffers come first, up to two.                                    *)

\* Mutant: the SETUP FIFO takes every buffer that is free
FillReadGreedy ==
  /\ call = Idle /\ pool # {}
  /\ call' = [op |-> "fill", setup |-> TRUE]
  /\ UNCHANGED <<hwVars, pool, client, acked>>

FillRead ==
  /\ call = Idle /\ pool # {}
  /\ LET setup == Cardinality(avSetup) < 2
     IN  /\ setup \/ Cardinality(avOut) < AvOutDepth
         /\ call' = [op |-> "fill", setup |-> setup]
  /\ UNCHANGED <<hwVars, pool, client, acked>>

FillWrite(b) ==
  /\ call.op = "fill"
  /\ b \in pool
  /\ pool' = pool \ {b}
  /\ IF call.setup THEN WriteAvSetup(b) ELSE WriteAvOut(b)
  /\ call' = Idle
  /\ UNCHANGED <<client, acked>>

-----------------------------------------------------------------------------
(* dif_usbdev_recv.  The FIFO cannot become empty after the check. *)
Recv ==
  /\ call = Idle
  /\ PopRx
  /\ reading' = reading \cup {Head(rx).buf}
  /\ UNCHANGED <<pool, writing, queued, status, call, acked>>

(* dif_usbdev_buffer_read to the end, or dif_usbdev_buffer_return *)
ReadDone(b) ==
  /\ call = Idle /\ b \in reading
  /\ reading' = reading \ {b}
  /\ pool' = pool \cup {b}
  /\ UNCHANGED <<hwVars, writing, queued, status, call, acked>>

(* dif_usbdev_buffer_request *)
Request(b) ==
  /\ call = Idle /\ b \in pool
  /\ Cardinality(writing) + Cardinality(queued) < MaxTx
  /\ pool' = pool \ {b}
  /\ writing' = writing \cup {b}
  /\ UNCHANGED <<hwVars, reading, queued, status, call, acked>>

(* dif_usbdev_buffer_return of a packet that is not to be sent *)
Discard(b) ==
  /\ call = Idle /\ b \in writing
  /\ writing' = writing \ {b}
  /\ pool' = pool \cup {b}
  /\ UNCHANGED <<hwVars, reading, queued, status, call, acked>>

-----------------------------------------------------------------------------
(* dif_usbdev_send: the buffer first, then the buffer with the ready bit. *)

SendBuffer(e, b) ==
  /\ call = Idle /\ b \in writing
  /\ e \notin queued
  /\ WriteConfigin(e, b, FALSE)
  /\ call' = [op |-> "send", ep |-> e, buf |-> b]
  /\ UNCHANGED <<pool, client, acked>>

SendReady ==
  /\ call.op = "send"
  /\ WriteConfigin(call.ep, call.buf, TRUE)
  /\ writing' = writing \ {call.buf}
  /\ queued' = queued \cup {call.ep}
  /\ status' = [status EXCEPT ![call.ep] = "pending"]
  /\ acked' = acked \ {call.ep}
  /\ call' = Idle
  /\ UNCHANGED <<pool, reading>>

-----------------------------------------------------------------------------
(* dif_usbdev_get_tx_status: CONFIGIN, and IN_SENT unless it is ready. *)

\* Mutant: the ready bit is not looked at
StatusReadUnchecked(e) ==
  /\ call = Idle
  /\ call' = [op |-> "status", ep |-> e, pend |-> configin[e].pend]
  /\ UNCHANGED <<hwVars, pool, client, acked>>

StatusRead(e) ==
  /\ call = Idle
  /\ IF configin[e].rdy
     THEN /\ status' = [status EXCEPT ![e] = "pending"]
          /\ UNCHANGED call
     ELSE /\ call' = [op |-> "status", ep |-> e, pend |-> configin[e].pend]
          /\ UNCHANGED status
  /\ UNCHANGED <<hwVars, pool, reading, writing, queued, acked>>

StatusReadSent ==
  /\ call.op = "status"
  /\ status' = [status EXCEPT ![call.ep] = IF call.ep \in inSent THEN "sent"
                                           ELSE IF call.pend THEN "cancelled"
                                           ELSE "none"]
  /\ call' = Idle
  /\ UNCHANGED <<hwVars, pool, reading, writing, queued, acked>>

(* dif_usbdev_get_tx_sent *)
TxSent ==
  /\ call = Idle
  /\ status' = [e \in Eps |-> IF e \in inSent THEN "sent" ELSE status[e]]
  /\ UNCHANGED <<hwVars, pool, reading, writing, queued, call, acked>>

-----------------------------------------------------------------------------
(* dif_usbdev_clear_tx_status: read CONFIGIN for the buffer, clear PEND,   *)
(* clear IN_SENT and return the buffer.                                    *)

ClearRead(e) ==
  /\ call = Idle /\ e \in queued
  /\ status[e] \in {"sent", "cancelled"}
  /\ call' = [op |-> "clear", ep |-> e, buf |-> configin[e].buf]
  /\ UNCHANGED <<hwVars, pool, client, acked>>

\* Mutant: the buffer is read back after PEND has been cleared
ClearWritePendFirst ==
  /\ call.op = "clear"
  /\ ClearPend(call.ep)
  /\ call' = [call EXCEPT !.op = "cleared", !.buf = Buffer0]
  /\ UNCHANGED <<pool, client, acked>>

ClearWritePend ==
  /\ call.op = "clear"
  /\ ClearPend(call.ep)
  /\ call' = [call EXCEPT !.op = "cleared"]
  /\ UNCHANGED <<pool, client, acked>>

ClearWriteSent ==
  /\ call.op = "cleared"
  /\ ClearSent(call.ep)
  /\ pool' = pool \cup {call.buf}
  /\ queued' = queued \ {call.ep}
  /\ status' = [status EXCEPT ![call.ep] = "none"]
  /\ acked' = acked \ {call.ep}
  /\ call' = Idle
  /\ UNCHANGED <<reading, writing>>

-----------------------------------------------------------------------------
(* dif_usbdev_endpoint_out_enable reads the whole register and writes it   *)
(* back with one bit changed.                                              *)

EnableRead(e, on) ==
  /\ call = Idle
  /\ call' = [op |-> "enable", ep |-> e, on |-> on, val |-> rxenOut]
  /\ UNCHANGED <<hwVars, pool, client, acked>>

EnableWrite ==
  /\ call.op = "enable"
  /\ WriteRxenOut(IF call.on THEN call.val \cup {call.ep} ELSE call.val \ {call.ep})
  /\ call' = Idle
  /\ UNCHANGED <<pool, client, acked>>

-----------------------------------------------------------------------------
DrvInit ==
  /\ HwInit /\ setNak = NakEps /\ rxenOut = Eps
  /\ pool = Buffers
  /\ reading = {} /\ writing = {} /\ queued = {}
  /\ status = [e \in Eps |-> "none"]
  /\ call = Idle
  /\ acked = {}

(* It is remembered that the host has the packet. *)
BusStep ==
  /\ \/ InAcked /\ acked' = acked \cup {xact.ep}
     \/ (BusOther \/ \E b \in Buffers : OutTaken(b)) /\ UNCHANGED acked
  /\ UNCHANGED swVars

Fill  == FillRead \/ \E b \in Buffers : FillWrite(b)
Reap  == StatusReadSent \/ ClearWritePend \/ ClearWriteSent \/ SendReady \/ EnableWrite

Driver ==
  \/ Fill \/ Reap \/ Recv \/ TxSent
  \/ \E b \in Buffers : ReadDone(b) \/ Request(b) \/ Discard(b)
  \/ \E e \in Eps, b \in Buffers : SendBuffer(e, b)
  \/ \E e \in Eps : StatusRead(e) \/ ClearRead(e)
  \/ \E e \in NakEps, on \in BOOLEAN : EnableRead(e, on)

DrvNext == BusStep \/ Driver

DrvSpec == DrvInit /\ [][DrvNext]_drvVars

-----------------------------------------------------------------------------
DrvTypeOK ==
  /\ HwTypeOK
  /\ pool \subseteq Buffers /\ reading \subseteq Buffers /\ writing \subseteq Buffers
  /\ queued \subseteq Eps /\ acked \subseteq Eps
  /\ status \in [Eps -> Statuses]
  /\ call \in Calls

(* Where every buffer is.  While an endpoint is being cleared its buffer   *)
(* is known to the driver call only.                                       *)
TxBuf(e) == IF call.op = "cleared" /\ call.ep = e THEN call.buf ELSE configin[e].buf
RxBuf(i) == rx[i].buf

Holders == {"pool", "avSetup", "avOut", "rx", "reading", "writing", "queued"}

Held == [h \in Holders |->
           CASE h = "pool" -> pool
             [] h = "avSetup" -> avSetup
             [] h = "avOut" -> avOut
             [] h = "rx" -> {RxBuf(i) : i \in DOMAIN rx}
             [] h = "reading" -> reading
             [] h = "writing" -> writing
             [] h = "queued" -> {TxBuf(e) : e \in queued}]

Partition(H) ==
  /\ \A b \in Buffers : \E h \in Holders : b \in H[h]
  /\ \A h1, h2 \in Holders : h1 # h2 => H[h1] \cap H[h2] = {}

(* No buffer is ever lost, and none is in two hands: each is in the pool,  *)
(* in one FIFO, with the client, or queued on one endpoint, through every  *)
(* cancellation by a SETUP packet or a link reset and every interleaving   *)
(* of the driver's register accesses with the bus.                         *)
Conserved ==
  /\ Partition(Held)
  /\ \A i, j \in DOMAIN rx : i # j => RxBuf(i) # RxBuf(j)
  /\ \A e, f \in queued : e # f => TxBuf(e) # TxBuf(f)

(* The buffer the controller is sending from is the one queued on that     *)
(* endpoint and nobody else's, until the transaction ends.                 *)
SendsQueuedBuffer ==
  xact.kind = "data" \/ (xact.kind = "in" /\ xact.hasData) =>
    /\ xact.ep \in queued /\ configin[xact.ep].rdy
    /\ TxBuf(xact.ep) = xact.buf

(* What dif_usbdev_get_tx_status says of a queued packet is so, although   *)
(* it reads two registers one after the other: "sent" only if the host     *)
(* acknowledged it, "cancelled" only if it did not and will not, and never *)
(* that there is no packet.                                                *)
StatusIsTrue ==
  \A e \in queued :
    /\ status[e] # "none"
    /\ status[e] = "sent" => e \in acked
    /\ status[e] = "cancelled" => e \notin acked /\ ~configin[e].rdy

(* A full Received Buffer FIFO ends in a SETUP packet: OUT traffic never   *)
(* uses up the room a SETUP packet needs (theory_of_operation.md:178).     *)
SetupHasRoom == Len(rx) >= RxDepth => rx[RxDepth].setup

(* dif_usbdev_fill_available_fifos never writes to a full FIFO, although   *)
(* it decides on a status that may be old (usbdev.sv:260 calls the         *)
(* overflow a programming error).                                          *)
NoOverflow ==
  call.op = "fill" =>
    IF call.setup THEN Cardinality(avSetup) < AvSetupDepth
                  ELSE Cardinality(avOut) < AvOutDepth

=============================================================================
