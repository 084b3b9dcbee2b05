------------------------------- MODULE RvPlic -------------------------------
(***************************************************************************)
(* The platform-level interrupt controller of the chip, one clock edge per *)
(* step: the input synchroniser and register interface (rv_plic.sv), the   *)
(* gateways (rv_plic_gateway.sv), the one target (rv_plic_target.sv) and   *)
(* the TL-UL register adapter in front of them (tlul_adapter_reg.sv).      *)
(*                                                                         *)
(* A bit vector indexed by source is the set of the sources whose bit is   *)
(* set.  A register access is a step: it is accepted at a clock edge at    *)
(* which no access is outstanding.  Software is unconstrained here: any    *)
(* register access the drivers in dif_rv_plic.c make, in any order, with   *)
(* any interrupt lines.  The enable bit and priority of source 0 are left  *)
(* out: its line is tied low, so its pending bit is never set.             *)
(***************************************************************************)
EXTENDS PrioritySelect

CONSTANTS NumSrc,   \* number of sources, source 0 included (32 in the chip)
          MaxPrio,  \* largest priority (3 in the chip)
          EdgeTrig  \* LevelEdgeTrig: the edge-triggered sources ({} in the chip)

ASSUME NumSrcAssumption  == NumSrc \in Nat /\ NumSrc >= 2
ASSUME MaxPrioAssumption == MaxPrio \in Nat
ASSUME EdgeTrigAssumption == EdgeTrig \subseteq 0..(NumSrc - 1)

Sources    == 0..(NumSrc - 1)
Irqs       == 1..(NumSrc - 1)   \* source 0 is tied low: "no interrupt"
Priorities == 0..MaxPrio

VARIABLES
  meta, src,    \* the two flops of the input synchroniser
  srcQ,         \* the gateway's copy of src one cycle earlier
  ip, ia,       \* gateway: interrupt pending, interrupt active
  prio, ie, threshold, msip,   \* registers
  irq, irqId,   \* the target's two output flops
  outstanding,  \* an access has been accepted and not yet answered
  held          \* the IDs software has claimed and not yet completed

gateway == <<meta, src, srcQ, ip, ia>>
regs    == <<prio, ie, threshold, msip>>
vars    == <<gateway, regs, irq, irqId, outstanding, held>>

-----------------------------------------------------------------------------
(* One clock edge of everything but the registers, for the given interrupt *)
(* lines and the one-hot claim and complete vectors of this cycle.         *)

SetVector == (src \ EdgeTrig) \cup ((src \cap EdgeTrig) \ srcQ)

Synchronise(lines) == meta' = lines /\ src' = meta

\* Mutant: a completion releases a source that is still pending
GatewayReleasesPending(claim, complete) ==
  /\ srcQ' = src
  /\ ip' = (ip \cup ((SetVector \ ia) \ ip)) \ (ip \cap claim)
  /\ ia' = (ia \cup (SetVector \ ia)) \ (ia \cap complete)

\* Mutant: the pending bit is set although the source is active
GatewayIgnoresActive(claim, complete) ==
  /\ srcQ' = src
  /\ ip' = (ip \cup SetVector) \ (ip \cap claim)
  /\ ia' = (ia \cup (SetVector \ ia)) \ ((ia \cap complete) \ ip)

Gateway(claim, complete) ==
  /\ srcQ' = src
  /\ ip' = (ip \cup ((SetVector \ ia) \ ip)) \ (ip \cap claim)
  /\ ia' = (ia \cup (SetVector \ ia)) \ ((ia \cap complete) \ ip)

\* Mutant: the line is raised for a priority equal to the threshold
TargetAtThreshold ==
  LET best == Winner(prio, ip \cap ie)
  IN  /\ irq' = (best \in ip \cap ie /\ prio[best] >= threshold)
      /\ irqId' = best

Target ==
  LET best == Winner(prio, ip \cap ie)
  IN  /\ irq' = (best \in ip \cap ie /\ prio[best] > threshold)
      /\ irqId' = best

Clock(lines, claim, complete) ==
  Synchronise(lines) /\ Gateway(claim, complete) /\ Target

-----------------------------------------------------------------------------
(* The register interface.  a_ready is low while an access is outstanding; *)
(* the host may take its answer at once or later.                          *)

\* Mutant: accesses may be accepted back to back
AcceptBackToBack == outstanding' = TRUE

\* Mutant: the answer comes with the request
AcceptAndAnswer == ~outstanding /\ outstanding' = FALSE

Accept == ~outstanding /\ outstanding' = TRUE

NoAccess(lines) ==
  /\ outstanding' \in (IF outstanding THEN BOOLEAN ELSE {FALSE})
  /\ Clock(lines, {}, {})
  /\ UNCHANGED <<regs, held>>

\* A read of IP, IE, PRIO, THRESHOLD or MSIP
ReadReg(lines) ==
  /\ Accept
  /\ Clock(lines, {}, {})
  /\ UNCHANGED <<regs, held>>

\* dif_rv_plic_irq_claim
Claim(lines) ==
  /\ Accept
  /\ Clock(lines, {irqId}, {})
  /\ held' = held \cup ({irqId} \ {0})
  /\ UNCHANGED regs

\* dif_rv_plic_irq_complete, which does not check the ID it is given
Complete(lines, id) ==
  /\ Accept
  /\ Clock(lines, {}, {id})
  /\ held' = held \ {id}
  /\ UNCHANGED regs

\* the write of dif_rv_plic_irq_set_enabled
WriteIe(lines, enabled) ==
  /\ Accept
  /\ Clock(lines, {}, {})
  /\ ie' = enabled
  /\ UNCHANGED <<prio, threshold, msip, held>>

\* dif_rv_plic_irq_set_priority: out-of-range arguments are rejected
WritePrio(lines, s, p) ==
  /\ Accept
  /\ Clock(lines, {}, {})
  /\ prio' = [prio EXCEPT ![s] = p]
  /\ UNCHANGED <<ie, threshold, msip, held>>

\* dif_rv_plic_target_set_threshold
WriteThreshold(lines, t) ==
  /\ Accept
  /\ Clock(lines, {}, {})
  /\ threshold' = t
  /\ UNCHANGED <<prio, ie, msip, held>>

\* dif_rv_plic_software_irq_force and _acknowledge
WriteMsip(lines, b) ==
  /\ Accept
  /\ Clock(lines, {}, {})
  /\ msip' = b
  /\ UNCHANGED <<prio, ie, threshold, held>>

-----------------------------------------------------------------------------
Init ==
  /\ meta = {} /\ src = {} /\ srcQ = {} /\ ip = {} /\ ia = {}
  /\ prio = [s \in Irqs |-> 0]
  /\ ie = {} /\ threshold = 0 /\ msip = FALSE
  /\ irq = FALSE /\ irqId = 0
  /\ outstanding = FALSE
  /\ held = {}

Step(lines) ==
  \/ NoAccess(lines)
  \/ ReadReg(lines)
  \/ Claim(lines)
  \/ \E id \in Sources : Complete(lines, id)
  \/ \E enabled \in SUBSET Irqs : WriteIe(lines, enabled)
  \/ \E s \in Irqs, p \in Priorities : WritePrio(lines, s, p)
  \/ \E t \in Priorities : WriteThreshold(lines, t)
  \/ \E b \in BOOLEAN : WriteMsip(lines, b)

Next == \E lines \in SUBSET Irqs : Step(lines)

Spec == Init /\ [][Next]_vars

-----------------------------------------------------------------------------
(* Type invariant of the registers and flops. *)
TypeOK ==
  /\ meta \subseteq Irqs /\ src \subseteq Irqs /\ srcQ \subseteq Irqs
  /\ ip \subseteq Irqs /\ ia \subseteq Irqs
  /\ prio \in [Irqs -> Priorities]
  /\ ie \subseteq Irqs
  /\ threshold \in Priorities
  /\ msip \in BOOLEAN /\ irq \in BOOLEAN
  /\ irqId \in Sources
  /\ outstanding \in BOOLEAN
  /\ held \subseteq Irqs

(* The claim register is one cycle behind the pending bits.  Whenever the  *)
(* bus can accept an access, the ID a claim would return is nevertheless a *)
(* source that is still pending and enabled: the read of CC0 clears the    *)
(* very bit it reports (rv_plic.sv:71-76), although irq_id_o was computed  *)
(* from the previous cycle's bits.                                         *)
ClaimIdIsPending ==
  ~outstanding /\ irqId # 0 => irqId \in ip \cap ie

(* An interrupt line that is high when software can reach the controller   *)
(* is backed by a claimable source above the threshold: a handler that     *)
(* claims with no access in flight never reads ID 0.                       *)
IrqIsClaimable ==
  ~outstanding /\ irq =>
    irqId \in ip \cap ie /\ prio[irqId] > threshold

(* Software's account of the interrupts it has claimed and not completed   *)
(* agrees with the gateways: exactly those sources are active and not      *)
(* pending.  dif_rv_plic.h:166-175: an ID must be completed before it can  *)
(* be claimed again; dif_rv_plic.h:190-193: an ID never completed is never *)
(* claimed again.                                                          *)
HeldMatchesGateway == held = ia \ ip /\ ip \subseteq ia

(* No claim returns an ID that software still holds, whatever the order in *)
(* which claims and completions of different IDs overlap.                  *)
NoDoubleClaim ==
  [][\A lines \in SUBSET Irqs : Claim(lines) => irqId \notin held]_vars

-----------------------------------------------------------------------------
(* The controller seen by software: a source is claimed when software      *)
(* holds it, and otherwise pending or idle by its pending bit.             *)
SoftwareView ==
  [s \in Irqs |-> IF s \in held THEN "claimed"
                  ELSE IF s \in ip THEN "pending" ELSE "idle"]

Protocol == INSTANCE IrqProtocol WITH Ids <- Irqs, state <- SoftwareView

(* Cycle by cycle, with stale claim IDs, overlapping claims, completions   *)
(* of any ID and requests that rise and fall at any time, the controller   *)
(* moves every source through idle, pending and claimed only, and changes  *)
(* at most one source on software's behalf.                                *)
ImplementsProtocol == Protocol!Spec

=============================================================================
