------------------------------- MODULE PlicIsr -------------------------------
(***************************************************************************)
(* Interrupts end to end, as pattgen_ios_test.c uses them.  A peripheral   *)
(* has two event interrupts (prim_intr_hw), which the chip ORs onto its    *)
(* one source of the controller (top_chip_system.sv).  The CPU takes the   *)
(* external interrupt; the handler claims the source, reads INTR_STATE to  *)
(* tell which event it was, acknowledges that one and completes the        *)
(* source.  The main program waits for the handler with                    *)
(* ATOMIC_WAIT_FOR_INTERRUPT (macros.h).  Time is the controller's clock:  *)
(* every step is one edge of RvPlic, during which the CPU does at most one *)
(* thing.                                                                  *)
(*                                                                         *)
(* The program has enabled the sources it serves with a priority above the *)
(* threshold (rv_plic_testutils_irq_range_enable) and both events of each  *)
(* (run_test); the test serves one, the model any number, each by a case   *)
(* like that one.                                                          *)
(***************************************************************************)
EXTENDS RvPlic

CONSTANTS Served,        \* the sources the program enables and has a case for
          AckToComplete, \* cycles from the acknowledge to the completion, at least
          MaxEvents      \* bound on the edges with events of the peripherals

ASSUME ServedAssumption == Served \subseteq Irqs
ASSUME AckToCompleteAssumption == AckToComplete \in Nat
ASSUME MaxEventsAssumption == MaxEvents \in Nat

VARIABLES
  intrState,  \* INTR_STATE of the peripherals: pairs of source and event
  intrO,      \* their interrupt outputs, one flop later, as the OR sees them
  raised,     \* number of edges with events so far
  isr,        \* where the handler is; "none" when the main program runs
  cur, ev,    \* the ID it claimed; the event it found
  gap,        \* cycles since it acknowledged
  mie,        \* mstatus.MIE while the main program runs
  main,       \* where the main program is in ATOMIC_WAIT_FOR_INTERRUPT
  fired       \* flags set by the handler, consumed by the main program

periph  == <<intrState, intrO, raised>>
cpu     == <<isr, cur, ev, gap, mie, main, fired>>
allVars == <<vars, periph, cpu>>

-----------------------------------------------------------------------------
Events == Irqs \X {0, 1}

\* The sources with an event pending
Lines == {s \in Irqs : <<s, 0>> \in intrState \/ <<s, 1>> \in intrState}

(* The peripherals at one edge: events set state bits, an acknowledge      *)
(* clears one, and software wins over an event of the same edge            *)
(* (prim_subreg_arb.sv, W1C).                                              *)
Peripherals(ack) ==
  \E events \in SUBSET Events :
    /\ events # {} => raised < MaxEvents
    /\ raised' = IF events = {} THEN raised ELSE raised + 1
    /\ intrState' = (intrState \cup events) \ ack
    /\ intrO' = Lines

Tick(ack) == Peripherals(ack) /\ gap' = IF gap < AckToComplete THEN gap + 1 ELSE gap

\* An edge with no access to the controller; the CPU takes a pending answer
Quiet(ack) == Tick(ack) /\ NoAccess(intrO) /\ ~outstanding'

(* The CPU may be busy with instructions that touch none of this. *)
Busy == Quiet({}) /\ UNCHANGED <<isr, cur, ev, mie, main, fired>>

-----------------------------------------------------------------------------
(* The interrupt handler.  It runs with interrupts off. *)

\* Mutant: the handler runs with interrupts on
InterruptTakenNested == mie /\ irq

InterruptTaken == isr = "none" /\ mie /\ irq

TakeInterrupt ==
  /\ InterruptTaken
  /\ isr' = "claim"
  /\ Quiet({})
  /\ UNCHANGED <<cur, ev, mie, main, fired>>

IsrClaim ==
  /\ isr = "claim"
  /\ Tick({}) /\ Claim(intrO)
  /\ cur' = irqId
  /\ isr' = "look"
  /\ UNCHANGED <<ev, mie, main, fired>>

\* Event 0 if it is pending, otherwise it must have been the other one
IsrLook ==
  /\ isr = "look" /\ ~outstanding
  /\ ev' = IF <<cur, 0>> \in intrState THEN 0 ELSE 1
  /\ fired' = fired \cup {<<cur, ev'>>}
  /\ isr' = "ack"
  /\ Quiet({})
  /\ UNCHANGED <<cur, mie, main>>

IsrAcknowledge ==
  /\ isr = "ack"
  /\ Peripherals({<<cur, ev>>}) /\ gap' = 0 /\ NoAccess(intrO)
  /\ isr' = "complete"
  /\ UNCHANGED <<cur, ev, mie, main, fired>>

\* Mutant: the handler completes at once
IsrCompleteAtOnce ==
  /\ isr = "complete"
  /\ Tick({}) /\ Complete(intrO, cur)
  /\ isr' = "return"
  /\ UNCHANGED <<cur, ev, mie, main, fired>>

\* Mutant: the handler forgets to complete
IsrCompleteForgotten ==
  /\ isr = "complete" /\ gap >= AckToComplete
  /\ Quiet({})
  /\ isr' = "return"
  /\ UNCHANGED <<cur, ev, mie, main, fired>>

IsrComplete ==
  /\ isr = "complete" /\ gap >= AckToComplete
  /\ Tick({}) /\ Complete(intrO, cur)
  /\ isr' = "return"
  /\ UNCHANGED <<cur, ev, mie, main, fired>>

IsrReturn ==
  /\ isr = "return"
  /\ isr' = "none"
  /\ Quiet({})
  /\ UNCHANGED <<cur, ev, mie, main, fired>>

-----------------------------------------------------------------------------
(* ATOMIC_WAIT_FOR_INTERRUPT(fired # {}).  An enabled pending interrupt is *)
(* taken before the next instruction; wfi completes when an interrupt is   *)
(* pending, whatever mstatus.MIE says.                                     *)

MainStep(from, to, enabled) ==
  /\ isr = "none" /\ ~InterruptTaken
  /\ main = from /\ main' = to
  /\ mie' = enabled
  /\ Quiet({})
  /\ UNCHANGED <<isr, cur, ev>>

\* Mutant: the flag is tested and the CPU put to sleep with interrupts on
DisableIrqsNot == MainStep("loop", "test", TRUE) /\ UNCHANGED fired

DisableIrqs == MainStep("loop", "test", FALSE) /\ UNCHANGED fired

TestCondition ==
  /\ MainStep("test", IF fired # {} THEN "done" ELSE "wfi", mie)
  /\ UNCHANGED fired

WaitForInterrupt == irq /\ MainStep("wfi", "enable", mie) /\ UNCHANGED fired

EnableIrqs == MainStep("enable", "loop", TRUE) /\ UNCHANGED fired

\* The program uses what the handler reported, then waits again
Consume == MainStep("done", "loop", TRUE) /\ fired' = {}

-----------------------------------------------------------------------------
IsrInit ==
  /\ meta = {} /\ src = {} /\ srcQ = {} /\ ip = {} /\ ia = {}
  /\ prio \in [Irqs -> Priorities] /\ \A s \in Served : prio[s] > 0
  /\ ie = Served /\ threshold = 0 /\ msip = FALSE
  /\ irq = FALSE /\ irqId = 0 /\ outstanding = FALSE /\ held = {}
  /\ intrState = {} /\ intrO = {} /\ raised = 0
  /\ isr = "none" /\ cur = 0 /\ ev = 0 /\ gap = 0
  /\ mie = TRUE /\ main = "loop" /\ fired = {}

Isr == IsrClaim \/ IsrLook \/ IsrAcknowledge \/ IsrComplete \/ IsrReturn
Main == DisableIrqs \/ TestCondition \/ WaitForInterrupt \/ EnableIrqs \/ Consume

IsrNext == Busy \/ TakeInterrupt \/ Isr \/ Main

(* The clock runs and the CPU executes: it takes interrupts, and neither   *)
(* the handler nor the main program stops for ever between instructions.   *)
IsrSpec ==
  /\ IsrInit /\ [][IsrNext]_allVars
  /\ WF_allVars(IsrNext)
  /\ WF_allVars(TakeInterrupt) /\ WF_allVars(Isr) /\ WF_allVars(Main)

-----------------------------------------------------------------------------
(* The handler never claims "no interrupt": with the enables and           *)
(* priorities left alone, the line that brought the CPU here still has a   *)
(* source behind it when the claim arrives (the handler has no case for 0, *)
(* pattgen_ios_test.c:149-151).                                            *)
NoSpuriousClaim == isr = "claim" /\ ~outstanding => irqId # 0

(* The handler finds the event it was called for still pending: a stale    *)
(* copy of the line, in the output flop, the synchroniser or the gateway,  *)
(* never calls it once more after the last acknowledge, whichever of the   *)
(* two events it acknowledged and whenever the other one arrived (the      *)
(* checks "is_pending == true", pattgen_ios_test.c:133-135 and 143-145).   *)
HandlerFindsEvent == isr = "ack" => <<cur, ev>> \in intrState

(* Every event raised is eventually acknowledged, also one that arrives    *)
(* while the other event of its peripheral, the same one or another source *)
(* is being served, and shares the line that the acknowledge leaves up.    *)
EventsAcknowledged ==
  \A e \in Served \X {0, 1} : e \in intrState ~> e \notin intrState

(* No wake-up is lost: whenever the handler has set a flag, however its    *)
(* interrupt falls between the test of the flag and the wfi, the main      *)
(* program gets to see it.                                                 *)
FlagsConsumed == \A e \in Events : e \in fired ~> e \notin fired

=============================================================================
