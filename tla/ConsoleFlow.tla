---------------------------- MODULE ConsoleFlow ----------------------------
(***************************************************************************)
(* Flow control of the test console: ottf_console.c over the UART's driver *)
(* (dif_uart.c) and FIFOs (uart_core.sv), the handler of its interrupt     *)
(* (i2c_target_smbus_arp_test.c) and a host on the serial line that stops  *)
(* and goes on as it is told.                                              *)
(*                                                                         *)
(* Two threads run manage_flow_control: the main program through its       *)
(* public wrapper, the handler through ottf_console_flow_control_isr.  The *)
(* handler may come between any two steps of the main program.             *)
(***************************************************************************)
EXTENDS Naturals, Sequences

CONSTANTS Low, High,   \* kFlowControlLowWatermark, kFlowControlHighWatermark
          RxDepth,     \* bytes the receive FIFO takes
          TxDepth,     \* bytes the transmit FIFO takes
          HostLag,     \* bytes the host still sends once it was told to pause
          Early        \* bytes the host may send before it was told anything

ASSUME WatermarkAssumption == Low \in Nat /\ High \in Nat /\ 1 <= Low /\ Low < High
\* Two control bytes and two more that the first call and its handler can add;
\* the chip's FIFO takes 32.
ASSUME TxDepthAssumption == TxDepth \in Nat /\ TxDepth >= 4
ASSUME HostAssumption == {RxDepth, HostLag, Early} \subseteq Nat

VARIABLES
  rx,          \* bytes in the receive FIFO
  tx,          \* bytes in the transmit FIFO: "text", "resume" (XON), "pause" (XOFF)
  irqEnabled,  \* INTR_ENABLE.rx_watermark
  pending,     \* the interrupt is latched at the PLIC: "no", "new", "late"
  flow,        \* flow_control_state
  at, ctrl,    \* of each thread: its next step, the state it asks for
  snapshot,    \* the main program's copy of INTR_ENABLE
  told, credit \* the host: what it was told last, bytes it may still send

uartVars == <<rx, tx, irqEnabled>>
hostVars == <<told, credit>>
vars     == <<uartVars, pending, flow, at, ctrl, snapshot, hostVars>>

-----------------------------------------------------------------------------
(* The UART, the line and the host.  Both directions run at the same rate. *)

\* The RX watermark interrupt is of type status: it follows the FIFO's level.
\* The PLIC latches it, and again once the handler has completed it.
Latch ==
  /\ irqEnabled /\ rx >= High
  /\ pending = "no" /\ at["isr"] = "off"
  /\ pending' = "new"
  /\ UNCHANGED <<uartVars, flow, at, ctrl, snapshot, hostVars>>

\* the byte the host receives next, text if there is none
Heard == IF tx = <<>> THEN "text" ELSE Head(tx)

\* the time of one byte on the line; a byte that meets a full FIFO is lost
ByteTime ==
  /\ \E sends \in {b \in BOOLEAN : b => told = "resume" \/ credit > 0} :
       /\ sends \/ tx # <<>>
       /\ rx' = IF sends /\ rx < RxDepth THEN rx + 1 ELSE rx
       /\ credit' = IF Heard = "pause" THEN HostLag
                    ELSE IF sends /\ told # "resume" THEN credit - 1 ELSE credit
  /\ tx' = IF tx = <<>> THEN tx ELSE Tail(tx)
  /\ told' = IF Heard = "text" THEN told ELSE Heard
  /\ UNCHANGED <<irqEnabled, pending, flow, at, ctrl, snapshot>>

\* uart_bytes_send of one byte: a full FIFO refuses it, and nobody looks
BytesSend(byte) == tx' = IF Len(tx) < TxDepth THEN Append(tx, byte) ELSE tx

-----------------------------------------------------------------------------
(* manage_flow_control, run by thread t.                                   *)

\* The main program runs while the handler does not.  Once the interrupt is
\* latched, it takes at most one step more.
Running(t, label) ==
  /\ at[t] = label
  /\ IF t = "main" THEN at["isr"] = "off" /\ pending # "late" /\ pending' = IF pending = "new" THEN "late" ELSE "no"
                   ELSE UNCHANGED pending

Goto(t, label) == at' = [at EXCEPT ![t] = label]

\* the end of manage_flow_control: what the caller does next
After(t) == IF t = "main" THEN "restore" ELSE "ack"

Avail(t) ==
  /\ Running(t, "avail")
  /\ \/ ctrl[t] # "auto" /\ Goto(t, "send") /\ UNCHANGED ctrl
     \/ ctrl[t] = "auto" /\ rx < Low /\ flow # "resume" /\ Goto(t, "setEnabled")
        /\ ctrl' = [ctrl EXCEPT ![t] = "resume"]
     \/ ctrl[t] = "auto" /\ rx >= High /\ flow # "pause" /\ Goto(t, "setEnabled")
        /\ ctrl' = [ctrl EXCEPT ![t] = "pause"]
     \/ ctrl[t] = "auto" /\ ~(rx < Low /\ flow # "resume") /\ ~(rx >= High /\ flow # "pause")
        /\ Goto(t, After(t)) /\ UNCHANGED ctrl
  /\ UNCHANGED <<uartVars, flow, snapshot, hostVars>>

SetEnabled(t) ==
  /\ Running(t, "setEnabled")
  /\ irqEnabled' = (ctrl[t] = "resume")
  /\ Goto(t, "send")
  /\ UNCHANGED <<rx, tx, flow, ctrl, snapshot, hostVars>>

SendControl(t) ==
  /\ Running(t, "send")
  /\ BytesSend(ctrl[t])
  /\ Goto(t, "store")
  /\ UNCHANGED <<rx, irqEnabled, flow, ctrl, snapshot, hostVars>>

Store(t) ==
  /\ Running(t, "store")
  /\ flow' = ctrl[t]
  /\ Goto(t, After(t))
  /\ UNCHANGED <<uartVars, ctrl, snapshot, hostVars>>

Manage(t) == Avail(t) \/ SetEnabled(t) \/ SendControl(t) \/ Store(t)

-----------------------------------------------------------------------------
(* The main program: the public wrapper, reading and writing.              *)

\* Mutant: the wrapper leaves the interrupt enabled
DisableSkipped ==
  /\ Running("main", "disable")
  /\ Goto("main", "avail")
  /\ UNCHANGED <<uartVars, flow, ctrl, snapshot, hostVars>>

\* dif_uart_irq_disable_all: the enables are read, then cleared
Snapshot ==
  /\ Running("main", "snapshot")
  /\ snapshot' = irqEnabled
  /\ Goto("main", "disable")
  /\ UNCHANGED <<uartVars, flow, ctrl, hostVars>>

Disable ==
  /\ Running("main", "disable")
  /\ irqEnabled' = FALSE
  /\ Goto("main", "avail")
  /\ UNCHANGED <<rx, tx, flow, ctrl, snapshot, hostVars>>

\* dif_uart_irq_restore_all
Restore ==
  /\ Running("main", "restore")
  /\ irqEnabled' = snapshot
  /\ Goto("main", "idle")
  /\ UNCHANGED <<rx, tx, flow, ctrl, snapshot, hostVars>>

\* ottf_getc: wait for a byte, take it, then call the wrapper
Getc ==
  /\ Running("main", "idle") /\ Goto("main", "receive")
  /\ UNCHANGED <<uartVars, flow, ctrl, snapshot, hostVars>>

\* Mutant: a byte is taken without a look at the level afterwards
ReceiveOnly ==
  /\ Running("main", "receive") /\ rx > 0
  /\ rx' = rx - 1
  /\ Goto("main", "idle")
  /\ UNCHANGED <<tx, irqEnabled, flow, ctrl, snapshot, hostVars>>

Receive ==
  /\ Running("main", "receive") /\ rx > 0
  /\ rx' = rx - 1
  /\ Goto("main", "snapshot")
  /\ ctrl' = [ctrl EXCEPT !["main"] = "auto"]
  /\ UNCHANGED <<tx, irqEnabled, flow, snapshot, hostVars>>

\* ottf_putbuf, byte by byte (dif_uart_byte_send_polled): wait for room, send, wait until all is sent
Putbuf ==
  /\ Running("main", "idle") /\ Len(tx) < TxDepth
  /\ BytesSend("text")
  /\ Goto("main", "drain")
  /\ UNCHANGED <<rx, irqEnabled, flow, ctrl, snapshot, hostVars>>

Drained ==
  /\ Running("main", "drain") /\ tx = <<>>
  /\ Goto("main", "idle")
  /\ UNCHANGED <<uartVars, flow, ctrl, snapshot, hostVars>>

MainStep == Snapshot \/ Disable \/ Restore \/ Getc \/ Receive \/ Putbuf \/ Drained

-----------------------------------------------------------------------------
(* The handler: it claims the interrupt, runs the flow control's part of   *)
(* it, acknowledges (no effect on a status interrupt) and completes it.    *)

Claim ==
  /\ pending # "no" /\ at["isr"] = "off"
  /\ pending' = "no"
  /\ Goto("isr", "check")
  /\ UNCHANGED <<uartVars, flow, ctrl, snapshot, hostVars>>

\* dif_uart_irq_is_pending; a handler that finds nothing ends the test
Check ==
  /\ at["isr"] = "check"
  /\ Goto("isr", IF rx >= High THEN "avail" ELSE "failed")
  /\ ctrl' = [ctrl EXCEPT !["isr"] = "auto"]
  /\ UNCHANGED <<uartVars, pending, flow, snapshot, hostVars>>

Complete ==
  /\ at["isr"] = "ack"
  /\ Goto("isr", "off")
  /\ UNCHANGED <<uartVars, pending, flow, ctrl, snapshot, hostVars>>

IsrStep == Claim \/ Check \/ Complete

-----------------------------------------------------------------------------

\* ottf_console_flow_control_enable, up to its call of the wrapper
Init ==
  /\ rx = 0 /\ tx = <<>>
  /\ irqEnabled = TRUE
  /\ pending = "no"
  /\ flow = "auto"
  /\ at = [main |-> "snapshot", isr |-> "off"]
  /\ ctrl = [main |-> "resume", isr |-> "auto"]
  /\ snapshot = FALSE
  /\ told = "nothing" /\ credit = Early

Next ==
  \/ Latch \/ ByteTime
  \/ \E t \in {"main", "isr"} : Manage(t)
  \/ MainStep \/ IsrStep

Spec == Init /\ [][Next]_vars

-----------------------------------------------------------------------------
(* Properties *)

\* The host knows v once it has heard what is on its way: the last control byte
\* there is v, or none is there and v was the last it heard.
WillKnow(v) ==
  \/ told = v /\ \A i \in DOMAIN tx : tx[i] = "text"
  \/ \E i \in DOMAIN tx : tx[i] = v /\ \A j \in DOMAIN tx : j > i => tx[j] = "text"

\* The state the two threads share is the one the host was told last: neither
\* the handler between the main program's byte and its state, nor a full FIFO
\* that refuses the byte unnoticed, makes them differ.
HostKnowsFlow ==
  at["main"] # "store" /\ at["isr"] # "store" /\ flow # "auto" => WillKnow(flow)

\* The program never waits for a byte of a host that waits for its XON.
NoMutualWait == at["main"] = "receive" /\ rx = 0 /\ at["isr"] = "off" => WillKnow("resume")

\* While the host may send, the level is below the watermark and no call is in
\* progress, the watermark interrupt is enabled: nothing but it sees the FIFO
\* fill while the program computes.
WatermarkWatched ==
  at["main"] = "idle" /\ at["isr"] = "off" /\ pending = "no" /\ flow = "resume" /\ rx < Low => irqEnabled
=============================================================================
