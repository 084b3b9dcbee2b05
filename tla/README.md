# Verification of the Sunburst chip

TLA+ models, model-checking runs and machine-checked proofs for the parts of
this repository in which timing decides: the interrupt controller and everything
software does with it, the USB device controller with its driver and stack, the
timers and the console's flow control; and for the algorithms of the library
whose boundary cases unit tests hardly reach.

Contents: [1 Inventory](#1-inventory) · [2 Modules](#2-modules) ·
[3 From code to model](#3-from-code-to-model) · [4 Runs](#4-runs) ·
[5 Fairness](#5-fairness) · [6 Proofs](#6-proofs) · [7 Findings](#7-findings) ·
[8 What is not covered](#8-what-is-not-covered) · [9 Plan](#9-plan) ·
[10 Running it](#10-running-it)

## 1 Inventory

The chip is one CPU, memories and peripherals on a bus, and a C library that
drives them. There is one hardware thread. Concurrency comes from three places:
peripherals work while software runs; software reaches a register by one access
at a time, so what it read may be old when it writes; and an interrupt handler
runs between any two instructions of the main program.

### Interrupts

| Part | State | Operations |
|---|---|---|
| Gateways, `rv_plic_gateway.sv` | pending `ip` and active `ia` bits, edge detectors | source rises; claim; completion |
| Target, `rv_plic_target.sv`, `prim_max_tree.sv` | `irq_o` and `irq_id_o`, registered | selects the pending, enabled source of highest priority above the threshold, every cycle |
| Registers, `rv_plic.sv` | enables, priorities, threshold, software interrupt | a read of CC0 claims, a write to it completes |
| Driver, `dif_rv_plic.c` | none | enable, priority, threshold, claim, complete, reset |
| Event interrupts, `prim_intr_hw.sv`, `prim_subreg_arb.sv` | `INTR_STATE`, output flop | events set bits, software clears them by writing ones |
| Handlers, `pattgen_ios_test.c` and others | flags shared with the test | claim, find out which event it was, acknowledge it, complete |
| Main program, `ATOMIC_WAIT_FOR_INTERRUPT` in `macros.h` | `mstatus.MIE` | tests a flag with interrupts off, sleeps, turns them on |

All events of a peripheral share one line into the controller
(`top_chip_system.sv:173-193`), and so one ID (`top_chip.h:517-597`); the
controller drives the CPU's external interrupt, the handler goes back through
the registers to both. Every stage has a flop, so each sees the past of the
previous one: a claim ID may be one cycle old, a line that has been acknowledged
is still high for some cycles. Correct means: a claim returns a source that
still needs service, no two claims return the same one, no completion is lost,
every event is served, each service finds its event, and nobody sleeps through
the interrupt it waits for.

### USB

| Part | State | Operations |
|---|---|---|
| Device controller, `usbdev.sv`, `usbdev_usbif.sv` | Available SETUP, Available OUT and Received Buffer FIFOs; CONFIGIN, IN_SENT, stalls, receive enables | FIFO pushes and pops, SETUP and link reset cancel packets |
| Packet engines, `usb_fs_nb_out_pe.sv`, `usb_fs_nb_in_pe.sv` | transaction state, data toggles | tokens, data, handshakes, time-outs |
| Driver, `dif_usbdev.c` | pool of free buffers | fill FIFOs, receive, send, transmit status, endpoint settings |
| Stack, `usb_testutils.c` | a transfer in progress per IN endpoint, callbacks | poll: sent packets, FIFO refill, received packets, reset |
| Control endpoint, `usb_testutils_controlep.c` | `ctrlstate` | SETUP requests, data and status stages, address and configuration |
| Streams and serial clients, `usb_testutils_streams.c`, `usb_testutils_simpleserial.c` | a generator and a checker per stream | callbacks that send and receive |

32 packet buffers move between the pool, three FIFOs, the packets queued on
endpoints and the hands of the code that uses them. The host moves at any time,
the link may reset at any time, and a SETUP packet overrides whatever the
endpoint was doing. Correct means: no buffer is lost or in two places; what is
sent is what was queued; what the driver says about a packet is true; SETUP
packets always find a buffer; over a bus that loses packets each packet is
delivered once and in order; and every control transfer ends with the answer to
the request that was made.

### Timers

| Part | State | Operations |
|---|---|---|
| Real-time timer, `rv_timer.sv`, `timer_core.sv` | 64-bit counter and comparator in halves, prescaler, `INTR_STATE` | a tick; the alarm; taking it back when the comparator is written |
| Its driver, `dif_rv_timer.c` | none | read and write the counter, arm, reset, tick parameters, acknowledge |
| Always-on timer, `aon_timer_core.sv`, `prim_reg_cdc.sv`, `prim_reg_cdc_arb.sv` | counter, threshold and control on a slow clock, a copy of each on software's | a tick; a crossing of each register, in either direction |
| Its driver, `dif_aon_timer.c` | none | start, stop, restart, read the count |

Both have 64-bit values that software reaches by halves while the timer runs.
In the always-on timer each half crosses between the clocks on its own, too.
Correct means: a value put together from halves is one the timer had; an alarm
is neither early nor raised by a mixture of an old and a new value; and it
comes.

### Console

`ottf_console.c` keeps the host from overrunning the receive FIFO: it tells it to
pause (XOFF) and to go on (XON). Its state `flow_control_state`, the watermark
interrupt's enable and the transmit FIFO are shared by the main program, which
calls it after every byte it reads, and by the interrupt handler. Correct means:
the program knows what the host was told; the two never wait for each other; and
the interrupt is on when it is needed.

### The rest

| Part | State and operations | What is hard, and what would make it correct |
|---|---|---|
| UART driver and the test's handler, `dif_uart.c`, `uart_tx_rx_test.c` | FIFOs with watermarks, status interrupts that the handler masks | no wake-up is lost, every byte is sent once |
| Memory functions and long division, `memory.c`, `math.c` | no state | alignment, byte order, remainders: the result is that of the byte-wise definition |
| JSON, `ujson.c` | a position in a text | escapes, extreme numbers: what is written is read back |
| I2C controller, driver and target test, `dif_i2c.c`, `i2c_target_smbus_arp_test.c` | FIFOs of commands and of received bytes | the host side is sequential; the target's only client cannot run on this chip (section 8) |
| SPI host and flash, `dif_spi_host.c`, `spi_flash_testutils.c` | data FIFOs of words, command segments | buffers of any alignment keep their bytes; the segments are sequential and wait for ready |
| GPIO, PWM, pattern generator, pin multiplexer | settings | one access per call |
| Generated interrupt handlers, `isr_testutils.c` | none | they take the event from the claimed ID, which on this chip does not tell (section 8) |
| Test framework, other base libraries | sequential code | unit tests serve better |
| Top level, crossbars, CPU wrapper, memories | wiring, generated or third-party | simulation and formal tools for RTL |
| Verification environment, scripts | not part of the product | |

`PROJECT.json` has the full list of components with their sources and, under
"hazards", what can go wrong in each at its line and the properties that watch
it.

## 2 Modules

```
PrioritySelect ──┬── PrimMaxTree            the comparison tree
                 └── RvPlic ──── PlicIsr    controller; with peripherals, handler, main program
IrqProtocol ───────── RvPlic                what software may rely on (refined by RvPlic)

Usbdev ──┬── UsbdevDriver ── MCUsbdevDriver hardware; with the driver and any client
         └── UsbControl ──── MCUsbControl   hardware; with the polled stack and a host
UsbDelivery ───────── UsbPipe               in order, exactly once (refined twice by UsbPipe)

AlarmClock ────────── RvTimer               what an alarm is (refined by RvTimer)
AonTimer                                    timer, driver and the crossing between them
ConsoleFlow                                 two threads, UART and host

MCAlgorithms ── PrimMaxTree, TickParams, MemoryOps, SpiHostFifo, Ujson
```

The proofs are in modules of their own, each on top of what it proves about:

| Proofs | About |
|---|---|
| `PlicProofs` | `RvPlic` and its refinement of `IrqProtocol`; `PlicIsr` |
| `UsbdevProofs` | `UsbdevDriver`; `UsbPipe` and its refinements of `UsbDelivery` |
| `UsbControlProofs` | `UsbControl` |
| `RvTimerProofs` | `RvTimer` and its refinement of `AlarmClock` |
| `AonTimerProofs` | the alarm of `AonTimer` |
| `AonReadProofs` | the count read from `AonTimer`, on top of `AonTimerProofs` |
| `ConsoleFlowProofs` | `ConsoleFlow` |
| `AlgorithmsProofs` | `PrimMaxTree`, `TickParams`, `MemoryOps`, `SpiHostFifo`, `Ujson`, on every input |

| Module | Models | Step |
|---|---|---|
| `PrioritySelect` | `Winner`: valid source of highest value, the lowest index among equals | operator |
| `PrimMaxTree` | the tree of `prim_max_tree.sv`, node by node, padding included | a new input |
| `RvPlic` | gateways, target, registers and the driver's accesses | one clock edge |
| `IrqProtocol` | each source idle, pending or claimed | abstract |
| `PlicIsr` | two event interrupts on each line, handler, waiting main program, on top of `RvPlic` | one clock edge |
| `Usbdev` | buffer FIFOs, endpoint registers, engines up to the data they carry | one phase of a transaction |
| `UsbdevDriver` | the driver's buffer calls and a client that keeps to the header | one register access, or one phase |
| `UsbControl` | `usb_testutils_poll`, the control endpoint, a host | one register access, or one phase |
| `UsbDelivery` | a session of packets delivered in order and once each | abstract |
| `UsbPipe` | both engines with their toggles, a lossy bus, a host that repeats | one packet, or one decision |
| `AlarmClock` | one deadline, replaced as a whole, and its alarm | abstract |
| `RvTimer` | counter, comparator, prescaler and every call of the driver | one clock cycle, with at most one register access |
| `AonTimer` | wake-up timer, register crossings, driver | one slow cycle, one arrival on software's side, or one register access |
| `ConsoleFlow` | `manage_flow_control` from both its callers, FIFOs, host | one access, one store, or the time of one byte |
| `TickParams` | `dif_rv_timer_approximate_tick_params`, gcd, long division | operator |
| `MemoryOps` | `memcmp`, `memrcmp`, `memchr`, `memrchr`, `memcpy`, `memset` | operator |
| `SpiHostFifo` | a buffer through the SPI host's FIFOs and back | operator |
| `Ujson` | strings and integers, written and read | operator |

`MCAlgorithms` takes every input of the algorithms as a state. The other MC
modules only choose the sizes of the buffer set and the symmetry. Definitions
marked "Mutant:" are changed forms of the definition that follows them, each the
way a plausible bug would look. No specification uses them; with
one in place of its original the property it is meant for fails.

## 3 From code to model

`PROJECT.json` maps every definition to its lines. What is worth knowing beside
that:

**RvPlic.** The variables are the flops: two of the synchroniser (`meta`, `src`),
the gateway's copy `srcQ`, `ip`, `ia`, and the target's two outputs. `held` is
history: IDs claimed and not completed, software's own account. A TL-UL access
takes effect in the cycle it is accepted and occupies the bus until its response
(`outstanding`), which is why a claim never sees an ID older than the previous
claim. Any driver call may be made at any time: the model does not assume that
software completes what it claims.

**PlicIsr.** A peripheral has two event interrupts: `intrState` and `intrO` are
`INTR_STATE` and the output flops of `prim_intr_hw`, pairs of source and event, and
`Lines` is the OR that the chip makes of them. The handler is the one of
`pattgen_ios_test.c`, which serves a source with more than one event: the ID it
claims says which peripheral, and `IsrLook` reads `INTR_STATE` to say which event. Finding event 0 not pending, the code takes it for
the other one and checks that it is; so does the model, with the check as
property. One event is acknowledged for each claim; if the other one is pending,
the line stays up and the completion brings the CPU back. The branch for the
console's own interrupt (lines 114-121) belongs to `ConsoleFlow`. From the
acknowledge to the completion the handler executes a few instructions and one
register write, and `AckToComplete` is the number of cycles they take at least.
The line must pass the output flop, the synchroniser and the gateway: with
`AckToComplete` = 2 the run passes, and the mutant that completes at once fails
`HandlerFindsEvent`. The controller is set up once, with the sources enabled that
the handler has a case for.

**Usbdev.** A packet is a buffer number. The two available FIFOs are sets,
because all that differs between free buffers is their number; the Received
Buffer FIFO keeps its order. `xact` is the transaction on the bus; what the
hardware latches at the token (NAK decision, buffer) is in it, so a register
that software changes in mid-transaction has no effect on it, as in the code.

**UsbdevDriver.** The client is arbitrary but keeps to the header: it sends on
an endpoint only when nothing is queued there, and clears an endpoint only when
the driver has said "sent" or "cancelled". `call` is the driver call in progress
with its local variables, so every value that is read and used later is explicit.

**UsbControl.** One endpoint, with the control endpoint's callbacks. The kinds of
request are those `setup_req` distinguishes: small and large answers, address,
configuration, a feature without data, and a request it does not know. A large
answer is a transfer of several packets, double-buffered as in the code: sending a
part prepares the next one (`usb_testutils_transfer_next_part`), sending an answer
of its own, as `setup_req` does, prepares nothing (`pc` tells the two apart,
`SendReady`). A packet is counted as queued from the write of its ready bit on. The
host makes one request after another and gives up none; under `ResetSpec` it also
resets the link, between polls or within one as `Overlap` allows. That SET_FEATURE
and CLEAR_FEATURE stall or release another endpoint is left out, and so is the
content of free buffers.

**UsbPipe.** Bits that hardware resynchronises are left out: a damaged packet is
a lost one. Both engines hear every packet the host sends. The host starts a
transaction only when the OUT engine is idle: the engine gives up after 18 bit
times, and the host needs longer for its own time-out and the next token. A
time-out of the IN engine may race the ACK that is still to come. Packet numbers
stand for the data; they restart with each session, and a session is what
follows a SETUP packet or a link reset.

**RvTimer.** A 64-bit value is a pair of halves of `Half` values each, so that a
carry and an extreme value are near. Every action is one clock cycle: the
hardware's part (`Cycle`) is the same in all, and software's access, if any, wins
over the tick of the same cycle. `Elapse` is a cycle without one, so any number of
cycles may pass between two accesses. `seen` and `carries` are history for the
read: the values since it began, and the carries since it read the upper half.
The interrupt's enable bit is left to the interrupt controller's models.

**AonTimer.** `reg` is the timer's side, `vis` software's copy. A register
crosses on its own: a write takes up to three slow cycles to arrive and keeps the
next access to that register waiting (`busy`); an update in the other direction
takes four, and one that is missed meanwhile is brought over afterwards. What
arrives with one slow edge may be seen one of software's cycles apart (`skew`),
so an access may fall in between. Software's clock is hundreds of times faster,
so any number of accesses fit in a slow cycle, and any number of slow cycles
between two accesses. Nothing is assumed of the prescaler or of the driver's
speed; a property that needs either says so, by two pieces of history and a
condition on the constants. `prompt`: the last start or restart wrote both halves
of the cleared counter in the slow cycle in which it stopped the timer, which is
what a driver some hundred times faster does unless it is interrupted, or an
earlier write to a half is still on its way. `settled`: when the lower half was
read, four ticks or more had passed since its wrap. `Slow`: no prescaler is below
5, so that a crossing is over before the next tick. The watchdog is left out.

**ConsoleFlow.** Bytes on the line take the same time in both directions. The
receive FIFO is a number, the transmit FIFO a sequence of "text", XON and XOFF.
The interrupt is of type status and is latched by the PLIC; once it is, the main
program takes at most one more step before the handler runs. A handler that finds
no interrupt pending fails its CHECK and ends the test.

**Algorithms.** Each follows the code's own steps: which bytes are read as words
and in which order they are compared, which entries go into the FIFO and when a
word is fetched, how characters are escaped and put back. The long division, the
gcd, the numbers that memory comparison makes of words, decimal digits and the
characters of a string are recursive functions, so that they can be proved
about; the loops that fold a list of steps into a record use the community
modules' folds. `memchr` goes byte by byte where the length is `PTRDIFF_MAX` or more
(`memory.c:203-208`), as in `log.c:49`'s use of it as `strlen`, and in words otherwise:
`Traversal`, with `PtrdiffMax` a constant. A 64-bit value is added up by
`ujson_parse_integer` in an `int64_t`; from 2^63 on that relies on a wrap, which the
model makes.

## 4 Runs

All runs finish in two minutes and a half. State counts are distinct states.

| Run | Instance | States | Question |
|---|---|---|---|
| `plic` | 2 sources (source 0 is "none"), one level-, one edge-triggered, priorities 0..1 | 115008 | Does the controller keep its promise to software under every sequence of accesses and line changes? |
| `plic_isr` | 2 sources with 2 event interrupts each, priorities up to 1, 3 edges with any events | 94388 | Is every event served, found and noticed? |
| `usbdev_driver` | 2 endpoints (one control, one that stops after a packet), 4 buffers | 2437012 | Are buffers kept apart and is the driver truthful, between any two accesses? |
| `usb_pipe` | 3 packets each way, 2 further sessions | 14195 | Do the toggles deliver in order and exactly once, and everything in the end? |
| `usb_control` | all known requests, answers of 3 packets, 4 buffers, 2 transactions during a poll | 867718 | Are control transfers answered correctly, at no cost in buffers, and does each end? |
| `rv_timer` | halves of 3 values, prescalers 0 and 1, steps up to 2 | 350847 | Do the halves move as one, is the alarm that of the abstract clock, and does it come? |
| `aon_timer` | halves of 5 values, prescaler 0, thresholds 1 and 7, up to 9 counts | 6271473 | Is the alarm on time and the count recent, although each register crosses on its own? |
| `console` | the console's watermarks (4, 8), FIFOs of 11 and 4 bytes, a host that may have sent 9 bytes before | 20424 | Do program and host agree on who may send? |
| `algorithms` | see below | 35048 | Do the algorithms compute what they are for? |
| `usb_control_reset` | two requests, answers of 2 packets, link resets between polls | | Has the device lost its address after a link reset? (section 7) |
| `aon_timer_read` | as `aon_timer`, one threshold | | Is the count read never ahead of the timer? (section 7) |
| `console_watch` | as `console` | | Is the level watched whenever the host may send? (section 7) |

**Bounds and why they suffice.**

* *plic*: two sources give ties, a stale winner that is not the source just
  claimed, and claims that overlap and are completed in either order, with one
  source of each trigger kind. Priorities and thresholds 0 and 1 give above,
  equal and disabled. Section 6 removes the bound: everything this run checks,
  and the type invariant, is proved for any number of sources and priorities.
* *plic_isr*: three edges, each with any set of the four events, let both events of a
  peripheral come together or one before, during and after the service of the
  other, and the other source be busy meanwhile. The bound only stops new events.
  Symmetry is not used: the lowest index wins ties.
* *usbdev_driver*: two endpoints let a packet of one wait while the other is
  cleared; four buffers fill the SETUP FIFO (two) and leave two for transmission,
  and let both FIFOs be at their limits. Buffers other than number 0 are
  interchangeable and the properties are invariants, so symmetry is sound.
* *usb_pipe*: a one-bit toggle confuses a packet with the next but one, so three
  packets show a confusion if there is one; two sessions let a leftover of one
  meet the second toggle reset.
* *usb_control*: first, middle and last packet of an answer; the fewest buffers
  that serve two SETUP slots and the two of a double-buffered transfer. While a poll
  runs, two transactions may end (`Overlap`): the host's acknowledgement of the
  last packet and its answer to it, between any two register accesses.
* *usb_control_reset*: the shortest transfers in which the reset can fall between
  acknowledgement and poll.
* *rv_timer*: with three values a half has a lowest, a highest and one between,
  the counter carries and wraps, and a step of 2 passes the highest value.
  Section 6 removes the bound.
* *aon_timer*: prescaler 0 is what the repository's only caller sets
  (`aon_timer_testutils.c:63-64`), and the case in which the most ticks fall into a
  crossing. Halves of 5 values are more than the ticks a copy may lag, counts up to
  9 carry once with all that a crossing takes after it, and threshold 7 lies
  beyond the carry. The run ends at `MaxCount`, so deadlock is not checked. Section
  6 removes the bounds, the one on the prescaler included.
* *console*: the depth of the receive FIFO is what a host that reacts two bytes
  late can fill, and one more. A handler that finds nothing ends the test, so
  deadlock is not checked.
* *algorithms*: the tree with 5 inputs needs three levels and three padded leaves;
  ties occur inside a subtree, across subtrees and next to padding. Frequencies of
  5 bits with registers that hold 11 and 7: parameters fit, do not fit, and
  divide by zero. Buffers of up to 6 bytes at every misalignment of words of two
  bytes have heads, bodies of several words and tails; from 5 bytes on `memchr` goes
  byte by byte. SPI transfers of up to three words of four bytes. Strings of up to
  3 characters, one of each kind of escape, into buffers of every length up to one
  too many; all integers of 8 bits, signed and unsigned. Section 6 removes all of these bounds.

`Overlap` bounds how many transactions may end *while one poll runs*; between
polls the bus is free. A poll is tens of register accesses, shorter than two
transactions, but nothing in the code says so: with two of them the order in
which `usb_testutils_poll` looks at things need not be the order in which they
happened, and `OnlyOvertaken` says what that leads to (section 7, last list).

Deadlock is checked in every passing run but the two named above.

## 5 Fairness

* `IsrSpec`: the clock ticks, the CPU takes an interrupt that stays enabled, and
  neither the handler nor the main program stops between two instructions. These
  are weak: nothing relies on being chosen among alternatives that come and go.
  A main program that waits in `wfi` is not forced to go on without an interrupt.
* `CtlSpec`: software runs (weak). The host goes on with a transfer it has begun
  (strong, since software's steps come between). New requests are never forced.
* `TimerSpec`: the clock does not stop (weak, on the cycle without an access).
  `AlarmComes` is about software that from some point on leaves the timer alone.
* `PipeSpec`: the host polls and times out; software supplies buffers and
  packets; the bus does not lose every packet of a kind for ever (strong: a loss
  disables the reception). A time-out of the IN engine need never happen and may
  always happen before the ACK once, twice, but not for ever.

The other specifications state no fairness: only safety is asked of them.

## 6 Proofs

The eight proof modules hold about 16 thousand obligations. Every invariant and
every action property that a passing run checks is proved but one
(`OnlyOvertaken`), and every refinement. Assumed are the ASSUMEs on the constants,
which TLC evaluates in the runs (among them `MaskAssumption`, explained below),
and what a theorem names itself (`AckToComplete`, `Regular` and `Half >= 5` below).

### Interrupt controller, for any number of sources and priorities

`PlicProofs`, from `NumSrc >= 2` and a natural `MaxPrio`. The theorems are the
type invariant (`TypeCorrect`), `ClaimsArePending`, `IrqsAreClaimable`,
`HeldIsActive`, the action property `ClaimsAreExclusive` and the refinement
`Implementation`.

The inductive invariant is the conjunction of the four invariants, none of which
is inductive alone. That a claim returns a pending source needs the account:
*whenever the bus is free* the registered ID is pending and enabled. It was the
winner among the pending bits of one cycle before, and the only thing that
clears a pending bit is a claim, which keeps the bus occupied until the outputs
have been computed again. The same argument applies to enables, priorities and
the threshold, which only a bus access changes. `GatewayAccount` is the
gateway's half: a claim of a pending source moves it to held, a completion
releases it, and no other edge changes what is held. That no claim returns an ID
held is then a consequence: held sources are not pending. For the refinement
each edge is one step of `IrqProtocol` (`EdgeIsProtocolStep`). `WinnerIsValid`
shows that the selection exists, by the least element of a set of naturals.

### USB buffers, for any endpoints, buffers and depths

`UsbdevProofs`, from finitely many buffers, a SETUP FIFO of at least two
places and the bounds on the other depths. Theorems: `TypeCorrect`,
`BuffersConserved`, `FifosHaveRoom`, `SendsWhatIsQueued`, `StatusNeverLies`,
`SetupFindsRoom`.

`IInv` is the type invariant, `Conserved`, `NoOverflow` and `CallInv`. `CallInv`
is why the driver may use what it read an access ago: between its accesses the
bus never adds to an available FIFO, never touches a buffer number in CONFIGIN
of an endpoint that is queued, and never queues. The conservation argument is
the same for each step: one buffer moves from one holder to another (`Moved`),
or none does (`Unmoved`). `TxInv` adds what the registers say of a queued packet:
IN_SENT is exactly what the host acknowledged, and a queued packet is ready,
acknowledged or pending, also while it is being cleared. This is what makes the
two reads of `dif_usbdev_get_tx_status` safe: whatever happens between them, a
packet found not ready has already been acknowledged or cancelled for good.
`RxInv` is `SetupHasRoom` with the bound on the Received Buffer FIFO that makes it
inductive.

### Data toggles, for any number of packets, sessions and losses

Also in `UsbdevProofs`. Theorems: `PipeTypeCorrect`, and the refinements
`OutImplementation` and `InImplementation`. `InSync` is the heart: in each
direction, the two toggles are equal exactly when sender and receiver agree on
what has been delivered, and otherwise the receiver is one packet ahead.
`OnWire` says that the packet on the bus fits both ends, `Engines` that an
engine is busy only while the host is in the same transaction, `Bounds` that
there is a packet behind every ready bit. While the host is still sending a
SETUP packet nothing of the new session counts as delivered, which is what the
refinement mapping (`OutKnown`, `InKnown`) expresses and what makes repeated
SETUP packets harmless.

### The timer, for halves of any size

`RvTimerProofs`, from `Half >= 2`, any `MaxPrescale` and a `MaxStep` below `Half`.
Theorems: `TypeCorrect`, `HalvesMove`, `Invariant` and the refinement
`AlarmImplementation`.

The type invariant alone needs an argument: that the prescaler's counter never
runs past the prescaler holds because it is set only while the timer is stopped,
and a stopped timer's counter is zero one cycle later. For the read, `ReadSeen`
says of the halves in hand that they belong together as long as the upper half
has not moved since: with `Half` carries or more it may have come round to the
same value (`SameUpperMeansNoCarry`), which is the exception `HalvesMoveAsOne`
names. `Writing` says that the counter stands still while it is written, and
`Comparing` that the comparator's upper half is all ones while it is armed. The
last is what makes the refinement work: a comparator that is being written maps
to the deadline <<Top, 0>>, whatever its lower half is. Then the first write of
the three replaces the deadline, the second changes nothing, the last replaces
it again, and each takes an alarm back (`AlarmTakenBack`).

### Interrupts end to end, for any number of sources and events

Also in `PlicProofs`: a step of the CPU is a step of the controller
(`ControllerStep`), so that its invariant carries over. `ClaimsAreReal` proves
`NoSpuriousClaim`. `ServeInv` adds that the handler holds exactly the source it
serves, that no response is outstanding when software goes on, and that a called
handler finds the line high. `EventsAreReal` proves `HandlerFindsEvent` for
`AckToComplete >= 2`. A copy of the line is in four places between event and
gateway, and only the last is cleared by the claim. `NoStaleCopies` says that none
outlives the acknowledgement of the last event pending, but for the source being
served: its copies run out one flop each cycle, the output flop after one and the
first of the synchroniser after two, and the completion that opens the gateway
again comes no sooner. If the other event is pending, or arrives meanwhile, the
copies are of that one, and it is what the handler finds. With `AckToComplete` = 1
TLC finds the handler called for nothing.

### Control transfers, for any number of buffers and size of answers

`UsbControlProofs`, from `Regular`: known requests, and at most one transaction
that ends during a poll; the host's steps fall between any two register accesses
all the same. `BuffersApart`, `KeepsBuffers`, `RightAnswer`, `AddressLast`, `InStep`
and `KnownSucceed` prove `BuffersNotShared`, `BuffersKept`, `AnswersRequest`,
`AddressAfterStatus`, `AgreeWhenIdle` and `NeverStalled` (no known request fails).
None of the six is inductive; `LockInv` is, and says how device and host go
together. `Phase` lists where the two can be: the endpoint idle (`Idle`), a packet
of the answer being written, offered to the host, taken with more to follow,
taken as the last, and the status stage due. Each says what the host does
meanwhile and what the FIFO may hold: when the host has the last packet before
software knows, its status packet and the SETUP packet of its next request may
follow, in this order and no other (`StatusNext`, `Begun`). The case a test would
hardly reach is in `AllTaken`: once the poll has passed the sent interrupts, the
host may still acknowledge the last packet, but then the poll's one transaction
is used up and no status packet can be received in the same poll. With `Overlap` =
2 it can, and TLC finds `NeverStalled` violated (section 7): for this one the
assumption is exact. The run `usb_control` has `Overlap` = 2: there the other five
hold, and in place of `NeverStalled` the weaker `OnlyOvertaken`, which is
model-checked only.

`Held` is where buffers are, local variables of the call in progress included.
That none is lost or shared is `Partition`: every buffer is in exactly one place of
`Held`. That one is left for the next SETUP packet is counted (`SetupSupply`):
when the poll has filled the FIFOs, at most two buffers are queued, prepared or
received and at most `AvOutDepth` are in the OUT FIFO, and there are more.
TLC checked the parts of `LockInv` with 4 and 5 buffers before they were proved.

### The console, for any watermarks and FIFOs

`ConsoleFlowProofs`: `HostKnows` and `NeverBothWait`, from a low watermark below
the high one and a transmit FIFO of at least 4 bytes (the chip has 4 and 8, and 32).
Both bounds are exact: with 3 bytes, or equal watermarks, TLC finds
`HostKnowsFlow` violated. `KnowInv` says that what the program has decided, or is
about to store, is what the host will know once it has heard every byte on its
way. It is inductive because no control byte is ever dropped, and that is
`RoomInv`: a control byte goes out only when the level has crossed from one
watermark to the other, and the bytes that takes have left the transmit FIFO
meanwhile. `MainInv` and `IsrInv` say why the two callers of `manage_flow_control`
do not meet: while main decides, the handler is masked, or finds the host paused
and does nothing.

### The always-on timer, for counters of any width

`AonTimerProofs`: `AlarmAtThreshold` proves `AlarmOnTime` for any `Half`, any
thresholds and any prescalers. The property asks for a prompt driver or for
prescalers of 5 and more, and either has its own reason why the enable overtakes
no clear.

* A prompt driver (`SoonInv`): its clears arrive together with the stop, and the
  timer ticks no more. One that meets a crossing under way is held, but three
  cycles later, when the enable arrives, that crossing is over.
* Prescalers of 5 and more (`SlowInv`): the clears may be any time behind the stop.
  The argument is an account in slow cycles. `Over` is how long a half's crossings
  still take; it is long only shortly after a tick (`OverInv`). `StoppedInv`,
  `EnablingInv` and `OvertakenInv` follow a clear through the stop, the enable on
  its way and the first cycles after it: it is accepted when the enable is, or
  within four cycles of the tick that delayed it, and so before the prescaler can
  complete another round. Less is not enough: with prescaler 4 and a driver that
  is not prompt TLC finds a clear, held while a crossing is under way and accepted
  a cycle after the enable, that swallows a tick.

`CountInv` and `TholdInv` then say that the timer's halves are those of the number
of ticks and of the threshold, once they have arrived.

`AonReadProofs`: `ReadsAreRecent` proves the action property `ReadIsRecent` for
halves of at least 5 values, so that the four ticks a copy may lag hold one carry
at most (2^32 in the chip). Again there are two arguments, on the same account of
what software's copies are (`SeenInv`).

* *Any prescaler, a prompt driver, a lower half that has not just wrapped.* A copy
  is one half of a count at most four ticks old, each half of a count of its own
  (`LagInv`): a crossing takes up to four slow cycles, and what ticks meanwhile is
  brought over by the next one. `TakenInv` follows the driver's call. The upper half
  in hand is of a count that was not too old when the call began; if the lower
  half, when it was read, had not just wrapped, it is of a count whose upper half
  lies between the one in hand and the one shown, so that two equal reads of the
  upper half fix it.
* *Prescalers of 5 and more, any driver.* No carry finds a crossing of either half
  under way. After a clear, the lower half's crossing takes the first cycles of
  the count, so software's copy may miss the first tick for a few cycles, and with
  prescaler 5 the second one as well; from the third on the crossings have caught
  up (`LowInv`), and the upper half misses none (`HighInv`). So a carry always
  crosses as a whole, and what software may see of it is both old halves, both
  new ones, or a mixture that lasts for a single access (`DueInv`). `ReadInv` follows
  the call: the upper half in hand is never ahead of the timer's; if it is not
  behind, the lower half read next is not from before the carry; and when the
  upper half is found changed, the count at the beginning of the call (`from`) is
  no more than the new upper half says, so that the second read of the lower half
  needs no check.

Without `settled` and with a smaller prescaler the property is false of the code:
that is the finding `aon_timer_read` of section 7.

### The algorithms, for every input of every size

`AlgorithmsProofs`: `TreeComputes`, `TickParamsAreExact`, `FifoTransfersAreExact`,
`MemoryFunctionsAreExact` and `UjsonReadsWhatItWrites` prove the five properties of
`algorithms`, with no bound on the number of inputs, the width of
frequencies, the length and alignment of buffers, the size of words and bytes, the
length of strings or the width of integers.

All of them compute step by step, and the library's induction theorems take an
operator as a parameter, which none of the provers can instantiate. Induction is
therefore by sets: `Induct` says that a set of numbers that has 0 and with each
number the next has all of them, which follows from the least number that it
lacks (`LeastOf`). A function defined by recursion must first be shown to exist.
`Recursion` does it once for functions of numbers whose value depends on that at
an earlier argument. The provers know nothing of powers; that 2^(n+1) is twice
2^n comes from counting subsets (`PowerDoubles`).

* *Tree*: each node holds the winner among the leaves below it; a parent prefers
  its left child when the values are equal, and all indices there are lower.
* *Tick parameters*: the long division keeps `quotient * divisor + remainder` equal
  to the bits consumed; Euclid's algorithm keeps the common divisors; what is
  returned is then the fraction in lowest terms. `MaskAssumption` says that the
  prescaler's register is narrower than a frequency (12 of 64 bits): division by
  zero, and a quotient of zero less one, then give prescalers that do not fit, and
  so the error they should.
* *SPI FIFOs*: the entries written, taken apart again, are the buffer; for the
  reads, the bytes stored and those left in the queue are at each step the first
  bytes of the words fetched.
* *Memory*: the accesses cut a buffer into consecutive pieces (`Cut`). Two buffers
  differ in a piece exactly if they differ at a byte of it, so that the first or
  last piece that differs holds the first or last byte that does, and the order of
  two numbers is that of their first differing digit. Copying and setting are
  given in closed form for the pieces done so far.
* *JSON*: the text of a string is cut into the escapes of its characters
  (`FlattenIs`). Each is read back as its character (`EscapeIsRead`), from the last
  one to the first, since that is how the reader's function is defined
  (`RestIs`). The value of decimal digits is the number they were written from
  (`DecimalComesBack`), also for the smallest integer, whose digits are those of
  the absolute value it does not have.

### Model-checked only

Liveness (`EventsAcknowledged`, `FlagsConsumed`, `AllDelivered`, `TransferEnds`,
`AlarmComes`): fairness and ENABLED are beyond the prover. `OnlyOvertaken`, and the
other properties of control transfers with two transactions in a poll.

## 7 Findings

Runs that TLC finds violated by what the code does:

| Run | Property | What happens |
|---|---|---|
| `console_watch` | `WatermarkWatched` | After each byte that main reads, `ottf_console_flow_control` saves the interrupt enables, turns all off, calls `manage_flow_control`, and puts the saved ones back (`ottf_console.c:191`). When that has just enabled the watermark interrupt because the host was told to go on (151-152: "Enable RX watermark interrupt when RX FIFO level is below the watermark."), putting back the saved enables undoes it, if it was the handler that had told the host to pause. From then on the handler tells the host nothing. Main still looks at the level after each byte it reads, and pauses the host there; while it computes, nobody does. |
| `usb_control_reset` | `ResetLosesAddress` | The host acknowledges SET_ADDRESS's status packet and resets the link before the next poll. The poll handles the completion first and sets the address (`usb_testutils_controlep.c:298`) that the reset has cleared; `ctrl_reset`, called next, leaves it so: "We have lost any device address that we were assigned; the device has cleared its own copy of the device address automatically." (410-411). The host then talks to address 0 and the device does not listen. |
| `aon_timer_read` | `ReadNotAhead` | With prescaler 0 the upper half may have crossed while the crossing of the lower half's wrap has yet to begin. Then both reads of the upper half give the new value and the lower half read between them is the old one, from before the wrap: the count is ahead of the timer by nearly 2^32. `dif_aon_timer.c:165-167` takes a second read that differs for the sign of an overflow; this one shows although the reads agree. |

Met while modelling, without a run of their own:

* `setup_req` takes a buffer before it looks at the request
  (`usb_testutils_controlep.c:117`) and does not return it when it does not know the
  request. After enough of them no SETUP buffer can be supplied and the device is
  deaf; `usb_testutils.c:143` promises to "Keep buffers available for packet
  reception". `SetupTaken` models it (with "unknown" among `Requests` TLC finds
  `BuffersKept` violated); the run's host makes known requests.
* CLEAR_FEATURE(ENDPOINT_HALT) clears the stall but not the endpoint's data toggle
  (`usb_testutils_controlep.c:199`; USB 2.0, 9.4.5), so that the host's next packet
  may be taken for a repetition.
* `usb_testutils.c:149` handles a status packet before the completion of the data
  it follows when both happened within one poll, against the order explained at
  lines 101-102; the control endpoint then stalls a request it has answered. The
  run `usb_control` reaches this case, and `OnlyOvertaken` says that it is the only
  one in which a known request is refused.
* `usb_testutils_controlep.c:357` answers a SETUP packet that a newer one, already
  in the Received Buffer FIFO, has superseded (compare `programmers_guide.md:86`).
* `dif_usbdev.c:191` reads, changes and writes RXENABLE_OUT while hardware clears
  bits of it; a change for one endpoint may re-enable another that has just
  received a packet and was meant to NAK.
* `dif_usbdev.c:767` cuts the 11-bit frame number to 8 bits.
* `dif_usbdev.h:438-440` and `dif_usbdev.c:581-583` say that reading the status
  returns the buffer; `dif_usbdev_clear_tx_status` does.
* `usbdev.sv:545` sets "sending" at any IN token, also one answered with NAK;
  `usbdev.hjson:855-856` describes a transmission.
* `usb_testutils.c:260` refuses a transfer only for "an in-progress transfer", but a
  transfer that a SETUP packet has cancelled stays in progress: nobody reaps it,
  and the next long answer is refused.
* `ottf_console.c`: a byte that arrives between the saving of the enables and the
  reading of the level lets main send XOFF and then put the enable back. The
  handler is then called for ever while the level stays at 8, which lines 157-158
  mean to prevent. A console enabled with 8 bytes already received tells the host
  to go on after the handler told it to pause. And `ottf_console.h` gives 16 and 4
  as the levels for pausing and going on where the code has 8 and "below 4".
* `pattgen_ios_test.c:118-121`: when the interrupt was the console's, the handler
  returns without completing it at the controller, so that the console's
  interrupt is never delivered again.
* `dif_aon_timer.c:104-112` stops, clears and enables the timer by writes that cross
  on their own. If the driver is held up between the stop and the clears, and the
  prescaler is 4 or less, a clear may be accepted after the enable and swallow
  ticks, or follow them, so that the alarm is late or early (section 6). The
  prescaler's own counter is not reset by disabling, so that the first tick
  after a restart with a shorter prescaler may come up to 4096 cycles late.
* `dif_rv_timer.c:199-204` says that a comparator whose upper half is all ones does not
  set off the alarm. It does when the counter's upper half is all ones, too.
* `dif_i2c_compute_timing` cuts the period in cycles to 16 bits before it compares it
  with what the registers hold, so its `kDifOutOfRange` cannot be returned for it.
* `i2c_target_smbus_arp_test.c:208-221` computes the I2C interrupt as the distance of
  the claimed ID to that of the first one. All of them have the same ID on this
  chip, so the result is 0, which is none of those the handler expects, and its
  CHECK (254-256) ends the test. `i2c_id.address < 1` (411, 422) stands where a shift
  is meant, so that directed commands are never recognised. A comment (394) says
  "NACK if AR is 0" and the code does so when it is 1.
* `aon_timer_irq_test.c:161-173` computes the interrupt in the same way and so takes
  the bark of the watchdog for the wake-up.
* `print.c`: the text column of a hex dump is not aligned when the last line lacks
  only part of its last word.
* The claim register ignores the threshold (`rv_plic_target.sv:59`), as the theory
  of operation says; `dif_rv_plic.h:128-130` reads as if it did not. The comment at
  `rv_plic_gateway.sv:52-58` says that setting wins over a completion in the
  same cycle. The completion wins: a level is seen again one cycle later, an edge
  of that very cycle is dropped like any edge while the source is active.

## 8 What is not covered

* In modelled parts. Interrupt controller: more than one target (the chip has
  one), starvation of low priorities (`rv_plic_target.sv:38`, by design),
  `dif_rv_plic_reset` with claims outstanding (`dif_rv_plic.c:119`). Interrupt
  delivery: status interrupts beyond `ConsoleFlow`, changes of enables while
  interrupts are on (`dif_rv_plic.c:193`), a plain `wfi` outside a critical section
  (`uart_tx_rx_test.c:466`). USB: STALL of the packet engines and software writes
  of the toggles in `UsbPipe`, isochronous endpoints, low-speed and wake logic,
  lengths and bytes of packets (`dif_usbdev.c:749`, `:767`); in `UsbControl` more
  than one endpoint, flush callbacks, lost transactions (that they change nothing
  but time is what `UsbPipe` is about), unknown requests in the runs, and a host
  that gives up a transfer in the middle: what should happen to a packet it leaves
  behind the code itself leaves open (`usb_testutils_controlep.c:341`: "TODO: Should check for canceled IN
  transactions due to receiving a SETUP"). The controller's clock domains are
  one. Timers: the watchdog. Console: what `print.c` and the log macros write. SPI:
  command segments. JSON: booleans and status codes.
* Handlers that take the event from the claimed ID: the generated
  `isr_testutils.c:40-43`, `aon_timer_irq_test.c` and `i2c_target_smbus_arp_test.c`
  compute `irq = plic_irq_id - start_id`. That tells the events of a peripheral apart
  where each has an ID of its own; here a peripheral has one
  (`top_chip_system.sv:173-193`, `top_chip.h:517-597`), so the difference is always
  the same. A model of them that served every event would not be of this code;
  `PlicIsr` models the handler that reads which event it was. The target side of
  I2C goes with them: the SMBus test is its only client, and its first interrupt
  ends it.
* Parts left to later: streams, the UART test's transmit interrupt.
* Parts that will stay out: registers that are only written and read back (GPIO,
  PWM, pin multiplexer, pattern generator), sequential library code, generated
  code, wiring, third-party cores, test benches and scripts. Section 1 and
  `PROJECT.json` give the reason for each.

## 9 Plan

Done: the controller, its protocol, interrupts end to end, USB buffers and the
driver, control transfers, data toggles, both timers, the console, the
algorithms in one run; with proofs of their refinements and of all their
invariants and action properties but one. What is left, in this order:

1. `UsbPipe` with STALL and CLEAR_FEATURE, whose toggle reset the control endpoint
   omits (`usb_testutils_controlep.c:199`).
2. `UsbStreams`: the serial streams above the stack, suspend and resume.
3. `UartIsr`: the test's handler, which masks what it cannot clear, and a main
   program that waits with a plain `wfi`.

## 10 Running it

```
tlc -config MCRvPlic.cfg RvPlic                  # plic
tlc -config MCPlicIsr.cfg PlicIsr                # plic_isr
tlc -config MCUsbdevDriver.cfg MCUsbdevDriver    # usbdev_driver
tlc -config MCUsbPipe.cfg UsbPipe                # usb_pipe
tlc -config MCUsbControl.cfg MCUsbControl        # usb_control, and _Reset
tlc -config MCRvTimer.cfg RvTimer                # rv_timer
tlc -config MCAonTimer.cfg AonTimer              # aon_timer, and _Read
tlc -config MCConsoleFlow.cfg ConsoleFlow        # console, and _Watch
tlc -config MCAlgorithms.cfg MCAlgorithms        # algorithms
tlapm PlicProofs.tla
tlapm UsbdevProofs.tla
tlapm UsbControlProofs.tla
tlapm RvTimerProofs.tla
tlapm AonTimerProofs.tla
tlapm AonReadProofs.tla
tlapm ConsoleFlowProofs.tla
tlapm AlgorithmsProofs.tla
```
