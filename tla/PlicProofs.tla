----------------------------- MODULE PlicProofs -----------------------------
(***************************************************************************)
(* The interrupt controller's safety properties for any number of sources, *)
(* any priority range and any split into level and edge triggered sources. *)
(* And the interrupt handler finds what it was called for: with any number *)
(* of events at any time.                                                  *)
(***************************************************************************)
EXTENDS PlicIsr, TLAPS, WellFoundedInduction

(* A non-empty set of naturals has a least element. *)
LEMMA LeastNat ==
  ASSUME NEW T \in SUBSET Nat, T # {}
  PROVE  \E x \in T : \A y \in T : x <= y
<1>1. PICK x \in T : \A y \in T : ~ (<<y, x>> \in OpToRel(<, Nat))
  BY NatLessThanWellFounded, WFMin, Zenon
<1>2. \A y \in T : ~ (y < x)
  BY <1>1 DEF OpToRel
<1>3. \A y \in T : x <= y
  BY <1>2, SMT
<1> QED  BY <1>3

LEMMA IrqsAreNaturals == Irqs \subseteq Nat /\ Irqs \subseteq Sources /\ 0 \in Sources
<1>1. \A s \in Irqs : s \in Nat /\ s \in Sources
  BY NumSrcAssumption, SMT DEF Irqs, Sources
<1>2. 0 \in Sources
  BY NumSrcAssumption, SMT DEF Sources
<1> QED  BY <1>1, <1>2

(* The comparison tree of prim_max_tree always has an answer: among the    *)
(* valid sources one beats every other.                                    *)
LEMMA WinnerIsValid ==
  ASSUME prio \in [Irqs -> Priorities],
         NEW V \in SUBSET Irqs, V # {}
  PROVE  Winner(prio, V) \in V /\ \A t \in V : Beats(prio, Winner(prio, V), t)
<1> DEFINE margins == {MaxPrio - prio[s] : s \in V}
           Top == {s \in V : \A t \in V : prio[s] >= prio[t]}
<1>1. Top # {}
  <2>1. margins \in SUBSET Nat /\ margins # {}
    BY MaxPrioAssumption DEF Priorities
  <2>2. PICK m \in margins : \A n \in margins : m <= n
    BY <2>1, LeastNat
  <2>3. PICK s \in V : m = MaxPrio - prio[s]
    BY <2>2
  <2>4. \A t \in V : prio[s] >= prio[t]
    <3> SUFFICES ASSUME NEW t \in V PROVE prio[s] >= prio[t]
      OBVIOUS
    <3>1. MaxPrio - prio[s] <= MaxPrio - prio[t]
      BY <2>2, <2>3
    <3> QED  BY <3>1, MaxPrioAssumption DEF Priorities
  <2> QED  BY <2>4
<1>2. PICK s \in Top : \A t \in Top : s <= t
  <2>1. Top \in SUBSET Nat
    BY IrqsAreNaturals
  <2> QED  BY <1>1, <2>1, LeastNat
<1>3. \A t \in V : Beats(prio, s, t)
  <2> SUFFICES ASSUME NEW t \in V PROVE Beats(prio, s, t)
    OBVIOUS
  <2>1. prio[s] \in Int /\ prio[t] \in Int
    BY MaxPrioAssumption DEF Priorities
  <2>2. CASE t \in Top
    BY <1>2, <2>1, <2>2 DEF Beats
  <2>3. CASE t \notin Top
    <3>1. PICK u \in V : ~ (prio[t] >= prio[u])
      BY <2>3
    <3>2. prio[s] >= prio[u] /\ prio[u] \in Int
      BY <1>2, MaxPrioAssumption DEF Priorities
    <3> QED  BY <2>1, <3>1, <3>2 DEF Beats
  <2> QED  BY <2>2, <2>3
<1>4. \E x \in V : \A t \in V : Beats(prio, x, t)
  BY <1>2, <1>3
<1> HIDE DEF Beats
<1> QED  BY <1>4 DEF Winner

LEMMA WinnerType ==
  ASSUME prio \in [Irqs -> Priorities], NEW V \in SUBSET Irqs
  PROVE  Winner(prio, V) \in Sources /\ (Winner(prio, V) # 0 => Winner(prio, V) \in V)
<1>1. CASE V = {}
  BY <1>1, IrqsAreNaturals DEF Winner
<1>2. CASE V # {}
  BY <1>2, WinnerIsValid, IrqsAreNaturals
<1> QED  BY <1>1, <1>2

-----------------------------------------------------------------------------
IInv == TypeOK /\ ClaimIdIsPending /\ IrqIsClaimable /\ HeldMatchesGateway

(* What one clock edge establishes, whatever the access of that cycle. *)
LEMMA ClockType ==
  ASSUME TypeOK, NEW lines \in SUBSET Irqs,
         NEW claim, NEW complete, Clock(lines, claim, complete)
  PROVE  /\ meta' \subseteq Irqs /\ src' \subseteq Irqs /\ srcQ' \subseteq Irqs
         /\ ip' \subseteq Irqs /\ ia' \subseteq Irqs
         /\ irq' \in BOOLEAN /\ irqId' \in Sources
<1>1. ip \cap ie \in SUBSET Irqs
  BY DEF TypeOK
<1>2. irqId' \in Sources /\ irq' \in BOOLEAN
  BY <1>1, WinnerType DEF Clock, Target, TypeOK
<1> QED
  BY <1>2 DEF TypeOK, Clock, Synchronise, Gateway, SetVector

LEMMA InitInvariant == Init => IInv
<1> SUFFICES ASSUME Init PROVE IInv
  OBVIOUS
<1>1. 0 \in Priorities
  BY MaxPrioAssumption DEF Priorities
<1>2. prio \in [Irqs -> Priorities]
  BY <1>1 DEF Init
<1>3. TypeOK
  BY <1>1, <1>2, IrqsAreNaturals DEF Init, TypeOK
<1>4. ClaimIdIsPending /\ IrqIsClaimable /\ HeldMatchesGateway
  BY DEF Init, ClaimIdIsPending, IrqIsClaimable, HeldMatchesGateway
<1> QED  BY <1>3, <1>4 DEF IInv

LEMMA StepType == TypeOK /\ [Next]_vars => TypeOK'
<1> SUFFICES ASSUME TypeOK, [Next]_vars PROVE TypeOK'
  OBVIOUS
<1>1. CASE UNCHANGED vars
  BY <1>1 DEF vars, gateway, regs, TypeOK
<1>2. CASE Next
  <2> PICK lines \in SUBSET Irqs : Step(lines)
    BY <1>2 DEF Next
  <2>1. CASE NoAccess(lines)
    BY <2>1, ClockType DEF NoAccess, regs, TypeOK
  <2>2. CASE ReadReg(lines)
    BY <2>2, ClockType DEF ReadReg, Accept, regs, TypeOK
  <2>3. CASE Claim(lines)
    <3>1. held' \subseteq Irqs
      BY <2>3 DEF Claim, TypeOK, Sources, Irqs
    <3> QED  BY <2>3, <3>1, ClockType DEF Claim, Accept, regs, TypeOK
  <2>4. ASSUME NEW id \in Sources, Complete(lines, id) PROVE TypeOK'
    BY <2>4, ClockType DEF Complete, Accept, regs, TypeOK
  <2>5. ASSUME NEW enabled \in SUBSET Irqs, WriteIe(lines, enabled) PROVE TypeOK'
    BY <2>5, ClockType DEF WriteIe, Accept, TypeOK
  <2>6. ASSUME NEW s \in Irqs, NEW p \in Priorities, WritePrio(lines, s, p)
        PROVE  TypeOK'
    <3>1. prio' \in [Irqs -> Priorities]
      BY <2>6 DEF WritePrio, TypeOK
    <3> QED  BY <2>6, <3>1, ClockType DEF WritePrio, Accept, TypeOK
  <2>7. ASSUME NEW t \in Priorities, WriteThreshold(lines, t) PROVE TypeOK'
    BY <2>7, ClockType DEF WriteThreshold, Accept, TypeOK
  <2>8. ASSUME NEW b \in BOOLEAN, WriteMsip(lines, b) PROVE TypeOK'
    BY <2>8, ClockType DEF WriteMsip, Accept, TypeOK
  <2> QED
    BY <2>1, <2>2, <2>3, <2>4, <2>5, <2>6, <2>7, <2>8 DEF Step
<1> QED  BY <1>1, <1>2

(* The gateway's half of the account kept by HeldMatchesGateway: a claim   *)
(* of a pending source moves it from pending to held, a completion         *)
(* releases a held one, and every other edge leaves the held set alone.    *)
LEMMA GatewayAccount ==
  ASSUME TypeOK, HeldMatchesGateway, NEW claim, NEW complete,
         Gateway(claim, complete)
  PROVE  /\ complete = {} => ia' \ ip' = held \cup (ip \cap claim) /\ ip' \subseteq ia'
         /\ claim = {} => ia' \ ip' = held \ complete /\ ip' \subseteq ia'
  BY DEF HeldMatchesGateway, Gateway

LEMMA StepInvariant == IInv /\ [Next]_vars => IInv'
<1> SUFFICES ASSUME IInv, [Next]_vars PROVE IInv'
  OBVIOUS
<1>0. TypeOK /\ TypeOK'
  BY StepType DEF IInv
<1>1. CASE UNCHANGED vars
  BY <1>0, <1>1 DEF vars, gateway, regs, IInv, ClaimIdIsPending, IrqIsClaimable,
                    HeldMatchesGateway
<1>2. CASE Next
  <2> PICK lines \in SUBSET Irqs : Step(lines)
    BY <1>2 DEF Next
  <2>1. CASE NoAccess(lines)
    <3>1. Gateway({}, {}) /\ Target /\ UNCHANGED <<regs, held>>
      BY <2>1 DEF NoAccess, Clock
    <3>2. HeldMatchesGateway'
      BY <1>0, <3>1, GatewayAccount DEF IInv, HeldMatchesGateway
    <3>3. ip \subseteq ip'
      BY <3>1 DEF Gateway
    <3>4. irqId' # 0 => irqId' \in ip \cap ie
      <4>1. ip \cap ie \in SUBSET Irqs
        BY <1>0 DEF TypeOK
      <4> QED  BY <1>0, <3>1, <4>1, WinnerType DEF Target, TypeOK
    <3>5. irq' => irqId' \in ip \cap ie /\ prio[irqId'] > threshold
      BY <3>1 DEF Target
    <3>6. ie' = ie /\ prio' = prio /\ threshold' = threshold
      BY <3>1 DEF regs
    <3> QED
      BY <1>0, <3>2, <3>3, <3>4, <3>5, <3>6 DEF IInv, ClaimIdIsPending, IrqIsClaimable
  <2>2. CASE ~NoAccess(lines)
    <3>1. outstanding' = TRUE
      BY <2>2 DEF Step, ReadReg, Claim, Complete, WriteIe, WritePrio,
                  WriteThreshold, WriteMsip, Accept
    <3>2. ClaimIdIsPending' /\ IrqIsClaimable'
      BY <3>1 DEF ClaimIdIsPending, IrqIsClaimable
    <3>3. HeldMatchesGateway'
      <4>1. CASE Claim(lines)
        <5>1. Gateway({irqId}, {}) /\ held' = held \cup ({irqId} \ {0}) /\ ~outstanding
          BY <4>1 DEF Claim, Clock, Accept
        <5>2. ip \cap {irqId} = {irqId} \ {0}
          <6>1. irqId # 0 => irqId \in ip
            BY <5>1 DEF IInv, ClaimIdIsPending
          <6>2. 0 \notin ip
            BY <1>0, NumSrcAssumption DEF TypeOK, Irqs
          <6> QED  BY <6>1, <6>2
        <5> QED
          BY <1>0, <5>1, <5>2, GatewayAccount DEF IInv, HeldMatchesGateway
      <4>2. ASSUME NEW id \in Sources, Complete(lines, id)
            PROVE  HeldMatchesGateway'
        <5>1. Gateway({}, {id}) /\ held' = held \ {id}
          BY <4>2 DEF Complete, Clock
        <5> QED
          BY <1>0, <5>1, GatewayAccount DEF IInv, HeldMatchesGateway
      <4>3. CASE Gateway({}, {}) /\ held' = held
        BY <1>0, <4>3, GatewayAccount DEF IInv, HeldMatchesGateway
      <4> QED
        BY <2>2, <4>1, <4>2, <4>3
        DEF Step, ReadReg, WriteIe, WritePrio, WriteThreshold, WriteMsip, Clock
    <3> QED  BY <1>0, <3>2, <3>3 DEF IInv
  <2> QED  BY <2>1, <2>2
<1> QED  BY <1>1, <1>2

(* Every reachable state satisfies the inductive invariant. *)
THEOREM Invariant == Spec => []IInv
<1>1. Init => IInv
  BY InitInvariant
<1>2. IInv /\ [Next]_vars => IInv'
  BY StepInvariant
<1> QED  BY <1>1, <1>2, PTL DEF Spec

(* Registers and flops keep their types. *)
THEOREM TypeCorrect == Spec => []TypeOK
<1>1. IInv => TypeOK
  BY DEF IInv
<1> QED  BY <1>1, Invariant, PTL

(* A claim made while the bus is free returns a pending, enabled source,   *)
(* although the claim register lags the pending bits by one cycle.         *)
THEOREM ClaimsArePending == Spec => []ClaimIdIsPending
<1>1. IInv => ClaimIdIsPending
  BY DEF IInv
<1> QED  BY <1>1, Invariant, PTL

(* A high interrupt line is backed by a claimable source above the         *)
(* threshold whenever software can reach the controller.                   *)
THEOREM IrqsAreClaimable == Spec => []IrqIsClaimable
<1>1. IInv => IrqIsClaimable
  BY DEF IInv
<1> QED  BY <1>1, Invariant, PTL

(* The sources software holds are those the gateways keep active and not   *)
(* pending.                                                                *)
THEOREM HeldIsActive == Spec => []HeldMatchesGateway
<1>1. IInv => HeldMatchesGateway
  BY DEF IInv
<1> QED  BY <1>1, Invariant, PTL

(* A claimed ID is never claimed again before software completes it. *)
THEOREM ClaimsAreExclusive == Spec => NoDoubleClaim
<1>1. IInv /\ [Next]_vars =>
        [\A lines \in SUBSET Irqs : Claim(lines) => irqId \notin held]_vars
  <2> SUFFICES ASSUME IInv, NEW lines \in SUBSET Irqs, Claim(lines)
               PROVE  irqId \notin held
    OBVIOUS
  <2>1. ~outstanding
    BY DEF Claim, Accept
  <2>2. irqId # 0 => irqId \in ip
    BY <2>1 DEF IInv, ClaimIdIsPending
  <2>3. 0 \notin held
    BY NumSrcAssumption DEF IInv, TypeOK, Irqs
  <2> QED  BY <2>2, <2>3 DEF IInv, HeldMatchesGateway
<1> QED  BY <1>1, Invariant, PTL DEF Spec, NoDoubleClaim

-----------------------------------------------------------------------------
(* One edge of the gateways with the claims and completions of that cycle  *)
(* is one step of the protocol.                                            *)
LEMMA EdgeIsProtocolStep ==
  ASSUME TypeOK, HeldMatchesGateway, HeldMatchesGateway',
         NEW claim, NEW complete, Gateway(claim, complete),
         claim \cap Irqs \subseteq ip, complete = {} \/ claim = {},
         held' = (held \cup (claim \cap Irqs)) \ complete,
         Protocol!AtMostOne(claim), Protocol!AtMostOne(complete)
  PROVE  Protocol!Next
<1> DEFINE Requests == SetVector \ ia
           Claims == claim \cap Irqs
           Dones == complete \cap held
<1>1. Requests \in SUBSET Protocol!In("idle")
  <2>1. Requests \subseteq Irqs
    BY DEF TypeOK, SetVector
  <2>2. Requests \cap held = {} /\ Requests \cap ip = {}
    BY DEF HeldMatchesGateway
  <2> QED  BY <2>1, <2>2 DEF Protocol!In, SoftwareView
<1>2. Claims \in SUBSET Protocol!In("pending")
  BY DEF Protocol!In, SoftwareView, HeldMatchesGateway
<1>3. Dones \in SUBSET Protocol!In("claimed")
  BY DEF Protocol!In, SoftwareView, TypeOK
<1>4. Protocol!AtMostOne(Claims \cup Dones)
  BY DEF Protocol!AtMostOne
<1>5. Protocol!Advance(Requests, Claims, Dones)
  <2> DEFINE Moved(s) == CASE s \in Requests -> "pending"
                          [] s \in Claims   -> "claimed"
                          [] s \in Dones    -> "idle"
                          [] OTHER          -> SoftwareView[s]
             View(s) == IF s \in held' THEN "claimed"
                        ELSE IF s \in ip' THEN "pending" ELSE "idle"
  <2>1. ip' = (ip \cup Requests) \ Claims
    <3>1. Requests \cap ip = {} /\ ip \subseteq ia
      BY DEF HeldMatchesGateway
    <3>2. ip \cap claim = Claims
      BY DEF TypeOK
    <3>3. Requests \cap Claims = {}
      BY <3>1, <3>2
    <3> QED  BY <3>1, <3>2, <3>3 DEF Gateway
  <2>2. held' = (held \cup Claims) \ Dones
    <3>1. complete = {} \/ Claims = {}
      OBVIOUS
    <3> QED  BY <3>1
  <2>3. ASSUME NEW s \in Irqs PROVE View(s) = Moved(s)
    <3>0. SoftwareView[s] = IF s \in held THEN "claimed"
                            ELSE IF s \in ip THEN "pending" ELSE "idle"
      BY DEF SoftwareView
    <3>1. CASE s \in Requests
      BY <2>1, <2>2, <3>1 DEF HeldMatchesGateway
    <3>2. CASE s \in Claims /\ s \notin Requests
      <4>1. s \in held'
        BY <2>2, <3>2
      <4> QED  BY <3>2, <4>1
    <3>3. CASE s \in Dones /\ s \notin Claims /\ s \notin Requests
      <4>1. s \notin held'
        BY <2>2, <3>3
      <4>2. s \notin ip
        BY <3>3 DEF HeldMatchesGateway
      <4>3. s \notin ip'
        BY <2>1, <3>3, <4>2
      <4> QED  BY <3>3, <4>1, <4>3
    <3>4. CASE s \notin Dones /\ s \notin Claims /\ s \notin Requests
      <4>1. (s \in held' <=> s \in held) /\ (s \in ip' <=> s \in ip)
        BY <2>1, <2>2, <3>4
      <4> QED  BY <3>0, <3>4, <4>1
    <3> QED  BY <3>1, <3>2, <3>3, <3>4
  <2>4. SoftwareView' = [s \in Irqs |-> View(s)]
    BY DEF SoftwareView
  <2>5. [s \in Irqs |-> View(s)] = [s \in Irqs |-> Moved(s)]
    BY <2>3
  <2> QED  BY <2>4, <2>5 DEF Protocol!Advance
<1> QED  BY <1>1, <1>2, <1>3, <1>4, <1>5 DEF Protocol!Next

(* The controller implements the protocol it promises to software. *)
THEOREM Implementation == Spec => ImplementsProtocol
<1>1. Init => Protocol!Init
  BY DEF Init, Protocol!Init, SoftwareView
<1>2. ASSUME IInv, IInv', [Next]_vars
      PROVE  [Protocol!Next]_SoftwareView
  <2>0. TypeOK /\ HeldMatchesGateway /\ HeldMatchesGateway'
    BY <1>2 DEF IInv
  <2>1. CASE UNCHANGED vars
    BY <2>1 DEF vars, gateway, SoftwareView
  <2>2. CASE Next
    <3> PICK lines \in SUBSET Irqs : Step(lines)
      BY <2>2 DEF Next
    <3>1. CASE Claim(lines)
      <4>1. Gateway({irqId}, {}) /\ held' = held \cup ({irqId} \ {0}) /\ ~outstanding
        BY <3>1 DEF Claim, Clock, Accept
      <4>2. {irqId} \cap Irqs = {irqId} \ {0}
        BY <2>0, NumSrcAssumption DEF TypeOK, Sources, Irqs
      <4>3. {irqId} \cap Irqs \subseteq ip
        BY <1>2, <4>1, <4>2 DEF IInv, ClaimIdIsPending
      <4>4. held' = (held \cup ({irqId} \cap Irqs)) \ {}
        BY <4>1, <4>2
      <4>5. Protocol!AtMostOne({irqId}) /\ Protocol!AtMostOne({})
        BY DEF Protocol!AtMostOne
      <4> QED  BY <2>0, <4>1, <4>3, <4>4, <4>5, EdgeIsProtocolStep
    <3>2. ASSUME NEW id \in Sources, Complete(lines, id)
          PROVE  Protocol!Next
      <4>1. Gateway({}, {id}) /\ held' = held \ {id}
        BY <3>2 DEF Complete, Clock
      <4>2. held' = (held \cup ({} \cap Irqs)) \ {id} /\ {} \cap Irqs \subseteq ip
        BY <4>1
      <4>3. Protocol!AtMostOne({id}) /\ Protocol!AtMostOne({})
        BY DEF Protocol!AtMostOne
      <4> QED  BY <2>0, <4>1, <4>2, <4>3, EdgeIsProtocolStep
    <3>3. CASE Gateway({}, {}) /\ held' = held
      <4>1. held' = (held \cup ({} \cap Irqs)) \ {} /\ {} \cap Irqs \subseteq ip
        BY <3>3
      <4>2. Protocol!AtMostOne({})
        BY DEF Protocol!AtMostOne
      <4> QED  BY <2>0, <3>3, <4>1, <4>2, EdgeIsProtocolStep
    <3> QED
      BY <3>1, <3>2, <3>3
      DEF Step, NoAccess, ReadReg, WriteIe, WritePrio, WriteThreshold, WriteMsip, Clock
  <2> QED  BY <1>2, <2>1, <2>2
<1> QED
  BY <1>1, <1>2, Invariant, PTL DEF Spec, ImplementsProtocol, Protocol!Spec

-----------------------------------------------------------------------------
(* The controller with the CPU and its handler (PlicIsr).                  *)

Handling == isr \in {"look", "ack", "complete"}

(* The registers stay as the program has set them up. *)
Configured ==
  /\ ie = Served /\ threshold = 0
  /\ \A s \in Served : prio[s] > 0

CpuTypeOK ==
  /\ isr \in {"none", "claim", "look", "ack", "complete", "return"}
  /\ Handling => cur \in Irqs
  /\ gap \in Nat
  /\ intrO \subseteq Irqs

(* The controller has answered before software's next access, the source   *)
(* being served is the one held, and a called handler has one to claim.    *)
CpuInv ==
  /\ outstanding => isr \in {"look", "return"}
  /\ held = IF Handling THEN {cur} ELSE {}
  /\ isr = "claim" => irq

(* A copy of a source's interrupt stands for a pending event. *)
Backed(s, copies) == s \in copies => s \in Lines

(* The source that was claimed has an event pending, and the one the       *)
(* handler has found there is pending.                                     *)
EventThere == isr = "look" => cur \in Lines

(* No copy of an interrupt line on its way to the gateway outlives the     *)
(* acknowledgement, but for the source being served: its copies run out    *)
(* one flop after the other while the handler waits to complete it.        *)
NoStaleCopies ==
  \A s \in Irqs :
    /\ Backed(s, ip)
    /\ s # cur \/ isr # "complete" => Backed(s, intrO) /\ Backed(s, meta) /\ Backed(s, src)
    /\ s = cur /\ isr = "complete" => /\ gap >= 1 => Backed(s, intrO)
                                      /\ gap >= 2 => Backed(s, meta)

(* What the handler and the controller know of each other. *)
ServeInv == IInv /\ Configured /\ CpuTypeOK /\ CpuInv

EventInv == EventThere /\ HandlerFindsEvent /\ NoStaleCopies

-----------------------------------------------------------------------------
(* The controller sees its own steps, whatever the CPU does. *)
LEMMA ControllerStep ==
  ASSUME ServeInv, IsrNext
  PROVE  IInv' /\ Configured'
<1>1. intrO \in SUBSET Irqs /\ (Handling => cur \in Sources)
  BY IrqsAreNaturals DEF ServeInv, CpuTypeOK
<1>2. /\ \/ NoAccess(intrO) \/ Claim(intrO)
         \/ \E id \in Sources : Complete(intrO, id)
      /\ UNCHANGED regs
  BY <1>1 DEF IsrNext, Busy, TakeInterrupt, Isr, IsrClaim, IsrLook, IsrAcknowledge, IsrComplete,
              IsrReturn, Main, DisableIrqs, TestCondition, WaitForInterrupt, EnableIrqs,
              Consume, MainStep, Quiet, NoAccess, Claim, Complete, Handling
<1>3. Next
  BY <1>1, <1>2 DEF Next, Step
<1>4. IInv'
  BY <1>3, StepInvariant DEF ServeInv
<1>5. Configured'
  BY <1>2 DEF ServeInv, Configured, regs
<1> QED  BY <1>4, <1>5

(* The steps of the CPU that leave the controller to itself for one clock, *)
(* after which it has answered.                                            *)
QuietSteps == Busy \/ TakeInterrupt \/ IsrReturn \/ Main

LEMMA QuietForms ==
  ASSUME QuietSteps
  PROVE  /\ Tick({}) /\ Peripherals({}) /\ Clock(intrO, {}, {})
         /\ ~outstanding' /\ held' = held /\ cur' = cur
         /\ \/ isr' = isr
            \/ InterruptTaken /\ isr' = "claim"
            \/ isr = "return" /\ isr' = "none"
BY DEF QuietSteps, Busy, TakeInterrupt, IsrReturn, Main, DisableIrqs, TestCondition,
       WaitForInterrupt, EnableIrqs, Consume, MainStep, Quiet, NoAccess, Tick

LEMMA ClaimForm ==
  ASSUME ServeInv, IsrClaim
  PROVE  /\ isr = "claim" /\ isr' = "look" /\ cur' = irqId /\ Tick({}) /\ Peripherals({})
         /\ Clock(intrO, {irqId}, {}) /\ held' = held \cup ({irqId} \ {0})
         /\ irqId \in ip /\ irqId \in Irqs /\ irqId # 0
<1>1. /\ isr = "claim" /\ isr' = "look" /\ cur' = irqId /\ Tick({}) /\ Peripherals({})
      /\ ~outstanding /\ Clock(intrO, {irqId}, {}) /\ held' = held \cup ({irqId} \ {0})
  BY DEF IsrClaim, Claim, Accept, Tick
<1>2. irqId \in ip /\ ip \subseteq Irqs
  BY <1>1 DEF ServeInv, IInv, TypeOK, CpuInv, IrqIsClaimable
<1>3. 0 \notin Irqs
  BY NumSrcAssumption DEF Irqs
<1> QED  BY <1>1, <1>2, <1>3

LEMMA LookForm ==
  ASSUME IsrLook
  PROVE  /\ isr = "look" /\ isr' = "ack" /\ cur' = cur /\ Tick({}) /\ Peripherals({})
         /\ ev' = IF <<cur, 0>> \in intrState THEN 0 ELSE 1
         /\ ~outstanding' /\ Clock(intrO, {}, {}) /\ held' = held
BY DEF IsrLook, Quiet, NoAccess, Tick

LEMMA AcknowledgeForm ==
  ASSUME ServeInv, IsrAcknowledge
  PROVE  /\ isr = "ack" /\ isr' = "complete" /\ cur' = cur /\ gap' = 0
         /\ Peripherals({<<cur, ev>>})
         /\ ~outstanding' /\ Clock(intrO, {}, {}) /\ held' = held
BY DEF IsrAcknowledge, NoAccess, ServeInv, CpuInv

LEMMA CompleteForm ==
  ASSUME IsrComplete
  PROVE  /\ isr = "complete" /\ isr' = "return" /\ cur' = cur /\ gap >= AckToComplete
         /\ Tick({}) /\ Peripherals({}) /\ Clock(intrO, {}, {cur}) /\ held' = held \ {cur}
BY DEF IsrComplete, Complete, Tick

-----------------------------------------------------------------------------
(* The handler and the controller. *)

LEMMA CpuTypes ==
  ASSUME CpuTypeOK, NEW ack, Peripherals(ack), gap' = 0 \/ Tick(ack)
  PROVE  intrO' \subseteq Irqs /\ gap' \in Nat
BY AckToCompleteAssumption DEF Peripherals, CpuTypeOK, Tick, Lines

(* With every source above the threshold the line stays up until the claim *)
(* takes what is behind it.                                                *)
LEMMA LineStaysUp ==
  ASSUME ServeInv, irq, ~outstanding, Target
  PROVE  irq'
<1>1. irqId \in ip \cap ie
  BY DEF ServeInv, IInv, IrqIsClaimable
<1>2. Winner(prio, ip \cap ie) \in ip \cap ie
  <2>1. ip \cap ie \in SUBSET Irqs /\ prio \in [Irqs -> Priorities]
    BY DEF ServeInv, IInv, TypeOK
  <2> QED  BY <1>1, <2>1, WinnerIsValid
<1>3. prio[Winner(prio, ip \cap ie)] > threshold
  BY <1>2 DEF ServeInv, Configured
<1> QED  BY <1>2, <1>3 DEF Target

LEMMA QuietServes ==
  ASSUME ServeInv, QuietSteps
  PROVE  CpuTypeOK' /\ CpuInv'
<1>1. CpuTypeOK'
  BY QuietForms, CpuTypes DEF ServeInv, CpuTypeOK, Handling, InterruptTaken
<1>2. isr' = "claim" => irq'
  <2>1. isr' = "claim" => irq /\ ~outstanding
    BY QuietForms DEF InterruptTaken, ServeInv, CpuInv
  <2>2. Target
    BY QuietForms DEF Clock
  <2> QED  BY <2>1, <2>2, LineStaysUp
<1> QED  BY <1>1, <1>2, QuietForms DEF ServeInv, CpuInv, Handling, InterruptTaken

LEMMA ServeStep ==
  ASSUME ServeInv, [IsrNext]_allVars
  PROVE  ServeInv'
<1>1. CASE UNCHANGED allVars
  BY <1>1 DEF allVars, vars, gateway, regs, periph, cpu, ServeInv, IInv, TypeOK, CpuTypeOK,
              ClaimIdIsPending, IrqIsClaimable, HeldMatchesGateway, Configured, CpuInv, Handling
<1>2. CASE IsrNext
  <2>1. CpuTypeOK /\ CpuInv
    BY DEF ServeInv
  <2>2. ASSUME IsrClaim  PROVE CpuTypeOK' /\ CpuInv'
    BY <2>1, <2>2, ClaimForm, CpuTypes DEF CpuTypeOK, CpuInv, Handling
  <2>6. ASSUME IsrLook  PROVE CpuTypeOK' /\ CpuInv'
    BY <2>1, <2>6, LookForm, CpuTypes DEF CpuTypeOK, CpuInv, Handling
  <2>3. ASSUME IsrAcknowledge  PROVE CpuTypeOK' /\ CpuInv'
    BY <2>1, <2>3, AcknowledgeForm, CpuTypes DEF CpuTypeOK, CpuInv, Handling
  <2>4. ASSUME IsrComplete  PROVE CpuTypeOK' /\ CpuInv'
    BY <2>1, <2>4, CompleteForm, CpuTypes DEF CpuTypeOK, CpuInv, Handling
  <2>5. CpuTypeOK' /\ CpuInv'
    BY <1>2, <2>2, <2>3, <2>4, <2>6, QuietServes DEF IsrNext, Isr, QuietSteps
  <2> QED  BY <1>2, <2>5, ControllerStep DEF ServeInv
<1> QED  BY <1>1, <1>2

-----------------------------------------------------------------------------
(* The copies of an interrupt line. *)

(* Each copy comes from the one before it; a source is pending because it  *)
(* was, or by a copy at the gateway while it is not active.                *)
CopiesFollow(s) ==
  /\ s \in intrO' => s \in Lines
  /\ s \in meta' => s \in intrO
  /\ s \in src' => s \in meta
  /\ s \in ip' => s \in ip \/ (s \in src /\ s \notin ia)

(* No event of the source is acknowledged, or another one holds its line.   *)
LinesStay(s) == s \in Lines => s \in Lines'

LEMMA CopiesMove ==
  ASSUME NEW ack, Peripherals(ack), NEW claim, NEW complete,
         Clock(intrO, claim, complete), NEW s \in Irqs
  PROVE  /\ CopiesFollow(s)
         /\ ack = {} => LinesStay(s)
         /\ \A id, e : ack = {<<id, e>>} /\ s # id => LinesStay(s)
<1>1. PICK events \in SUBSET Events : intrState' = (intrState \cup events) \ ack
  BY DEF Peripherals
<1>2. intrO' = Lines
  BY DEF Peripherals
<1>3. meta' = intrO /\ src' = meta
  BY DEF Clock, Synchronise
<1>4. ip' \subseteq ip \cup (src \ ia)
  BY DEF Clock, Gateway, SetVector
<1>5. ASSUME <<s, 0>> \notin ack, <<s, 1>> \notin ack  PROVE LinesStay(s)
  BY <1>1, <1>5 DEF Lines, LinesStay
<1>6. ack = {} => LinesStay(s)
  BY <1>5
<1>7. \A id, e : ack = {<<id, e>>} /\ s # id => LinesStay(s)
  BY <1>5
<1>8. CopiesFollow(s)
  BY <1>2, <1>3, <1>4 DEF CopiesFollow
<1> QED  BY <1>6, <1>7, <1>8

(* The source being served is active and not pending, and the only one. *)
LEMMA HeldIsServed ==
  ASSUME ServeInv
  PROVE  /\ Handling => cur \in ia /\ cur \notin ip
         /\ \A s \in Irqs : s \in ia /\ s \notin ip => Handling /\ s = cur
BY DEF ServeInv, IInv, CpuInv, HeldMatchesGateway

(* An edge on which nothing is acknowledged, and the handler that waits to *)
(* complete its source goes on waiting.                                    *)
LEMMA QuietKeepsEvents ==
  ASSUME ServeInv, EventInv, QuietSteps
  PROVE  EventInv'
<1>1. /\ Tick({}) /\ cur' = cur
      /\ isr' = "complete" <=> isr = "complete"
      /\ isr' = "look" => isr = "look" /\ cur \in Irqs
      /\ isr' = "ack" => isr = "ack" /\ ev' = ev
      /\ intrState \subseteq intrState'
  <2>1. intrState \subseteq intrState'
    BY QuietForms DEF Peripherals
  <2>2. isr' = "ack" => isr = "ack" /\ ev' = ev
    BY DEF QuietSteps, Busy, TakeInterrupt, IsrReturn, Main, DisableIrqs, TestCondition,
           WaitForInterrupt, EnableIrqs, Consume, MainStep
  <2> QED  BY <2>1, <2>2, QuietForms DEF InterruptTaken, ServeInv, CpuTypeOK, Handling
<1>2. \A s \in Irqs : CopiesFollow(s) /\ LinesStay(s)
  BY QuietForms, CopiesMove
<1>3. EventThere' /\ HandlerFindsEvent'
  BY <1>1, <1>2 DEF EventInv, EventThere, HandlerFindsEvent, LinesStay
<1>4. ASSUME NEW s \in Irqs  PROVE Backed(s, ip)'
  <2>1. s \in src /\ s \notin ia => s \in Lines
    BY HeldIsServed DEF EventInv, NoStaleCopies, Backed, Handling
  <2> QED  BY <1>2, <2>1 DEF EventInv, NoStaleCopies, Backed, CopiesFollow, LinesStay
<1>5. ASSUME NEW s \in Irqs, s # cur \/ isr # "complete"
      PROVE  Backed(s, intrO)' /\ Backed(s, meta)' /\ Backed(s, src)'
  BY <1>2, <1>5 DEF EventInv, NoStaleCopies, Backed, CopiesFollow, LinesStay
<1>6. ASSUME NEW s \in Irqs, s = cur, isr = "complete"
      PROVE  (gap' >= 1 => Backed(s, intrO)') /\ (gap' >= 2 => Backed(s, meta)')
  <2>1. gap' >= 2 => gap >= 1
    BY <1>1, AckToCompleteAssumption DEF Tick, ServeInv, CpuTypeOK
  <2> QED  BY <1>2, <1>6, <2>1 DEF EventInv, NoStaleCopies, Backed, CopiesFollow, LinesStay
<1>7. NoStaleCopies'
  BY <1>1, <1>4, <1>5, <1>6 DEF NoStaleCopies, Backed
<1> QED  BY <1>3, <1>7 DEF EventInv

LEMMA ClaimKeepsEvents ==
  ASSUME ServeInv, EventInv, IsrClaim
  PROVE  EventInv'
<1>1. \A s \in Irqs : CopiesFollow(s) /\ LinesStay(s)
  BY ClaimForm, CopiesMove
<1> QED  BY <1>1, ClaimForm
         DEF EventInv, EventThere, HandlerFindsEvent, NoStaleCopies, Backed, CopiesFollow, LinesStay

(* The handler finds one of the two events: the source has one pending.    *)
LEMMA LookKeepsEvents ==
  ASSUME ServeInv, EventInv, IsrLook
  PROVE  EventInv'
<1>1. \A s \in Irqs : CopiesFollow(s) /\ LinesStay(s)
  BY LookForm, CopiesMove
<1>2. <<cur', ev'>> \in intrState'
  <2>1. cur \in Lines /\ intrState \subseteq intrState'
    BY LookForm DEF EventInv, EventThere, Peripherals
  <2> QED  BY <2>1, LookForm DEF Lines
<1>3. HandlerFindsEvent' /\ EventThere'
  BY <1>2, LookForm DEF HandlerFindsEvent, EventThere
<1>4. cur \in ia /\ cur \notin ip
  BY LookForm, HeldIsServed DEF Handling
<1> QED  BY <1>1, <1>3, <1>4, LookForm
         DEF EventInv, NoStaleCopies, Backed, CopiesFollow, LinesStay

LEMMA AcknowledgeKeepsEvents ==
  ASSUME ServeInv, EventInv, IsrAcknowledge
  PROVE  EventInv'
<1>1. \A s \in Irqs : CopiesFollow(s) /\ (s # cur => LinesStay(s))
  BY AcknowledgeForm, CopiesMove
<1>2. cur \in ia /\ cur \notin ip
  BY AcknowledgeForm, HeldIsServed DEF Handling
<1> QED  BY <1>1, <1>2, AcknowledgeForm
         DEF EventInv, EventThere, HandlerFindsEvent, NoStaleCopies, Backed, CopiesFollow, LinesStay

(* The completion comes late enough: the copy at the gateway's input is    *)
(* two flops behind the peripheral's output.                               *)
LEMMA CompleteKeepsEvents ==
  ASSUME AckToComplete >= 2, ServeInv, EventInv, IsrComplete
  PROVE  EventInv'
<1>1. \A s \in Irqs : CopiesFollow(s) /\ LinesStay(s)
  BY CompleteForm, CopiesMove
<1>2. cur \in ia /\ cur \notin ip
  BY CompleteForm, HeldIsServed DEF Handling
<1>3. gap >= 1 /\ gap >= 2
  BY CompleteForm, AckToCompleteAssumption DEF ServeInv, CpuTypeOK
<1>4. \A s \in Irqs : Backed(s, intrO) /\ Backed(s, meta)
  BY <1>3 DEF EventInv, NoStaleCopies
<1> QED  BY <1>1, <1>2, <1>4, CompleteForm
         DEF EventInv, EventThere, HandlerFindsEvent, NoStaleCopies, Backed, CopiesFollow, LinesStay

LEMMA EventStep ==
  ASSUME AckToComplete >= 2, ServeInv, EventInv, [IsrNext]_allVars
  PROVE  EventInv'
<1>1. CASE UNCHANGED allVars
  BY <1>1 DEF allVars, vars, gateway, periph, cpu, EventInv, EventThere, HandlerFindsEvent,
              NoStaleCopies, Backed, Lines
<1> QED  BY <1>1, QuietKeepsEvents, ClaimKeepsEvents, LookKeepsEvents, AcknowledgeKeepsEvents,
            CompleteKeepsEvents DEF IsrNext, Isr, QuietSteps

-----------------------------------------------------------------------------
LEMMA IsrStart ==
  ASSUME IsrInit
  PROVE  ServeInv /\ EventInv
<1>1. 0 \in Sources /\ 0 \in Priorities
  BY IrqsAreNaturals, MaxPrioAssumption DEF Priorities
<1>2. prio \in [Irqs -> Priorities] /\ \A s \in Served : prio[s] > 0
  BY DEF IsrInit
<1>3. IInv
  BY <1>1, <1>2, ServedAssumption DEF IsrInit, IInv, TypeOK, ClaimIdIsPending, IrqIsClaimable, HeldMatchesGateway
<1>4. Configured /\ CpuTypeOK /\ CpuInv /\ EventThere /\ HandlerFindsEvent /\ NoStaleCopies
  BY <1>2 DEF IsrInit, Configured, CpuTypeOK, CpuInv, EventThere, HandlerFindsEvent, NoStaleCopies,
              Backed, Handling
<1> QED  BY <1>3, <1>4 DEF ServeInv, EventInv

LEMMA ServeInductive == IsrSpec => []ServeInv
<1> QED  BY IsrStart, ServeStep, PTL DEF IsrSpec

(* The interrupt that brought the CPU to the handler is still there when   *)
(* its claim arrives, so the ID it uses unchecked names a source.          *)
THEOREM ClaimsAreReal == IsrSpec => []NoSpuriousClaim
<1>1. ServeInv => NoSpuriousClaim
  BY NumSrcAssumption
  DEF ServeInv, IInv, TypeOK, CpuInv, IrqIsClaimable, NoSpuriousClaim, Irqs
<1> QED  BY <1>1, ServeInductive, PTL

(* If the completion comes two clocks or more after the acknowledge, the   *)
(* handler is never called when it has acknowledged both events already:   *)
(* the stale copies of the line have run out, unless one of the events is  *)
(* pending again, and the handler finds that one.                          *)
THEOREM EventsAreReal ==
  ASSUME AckToComplete >= 2
  PROVE  IsrSpec => []HandlerFindsEvent
<1>1. IsrInit => EventInv
  BY IsrStart
<1>2. ServeInv /\ EventInv /\ [IsrNext]_allVars => EventInv'
  BY EventStep
<1>3. EventInv => HandlerFindsEvent
  BY DEF EventInv
<1> QED  BY <1>1, <1>2, <1>3, ServeInductive, PTL DEF IsrSpec

=============================================================================
