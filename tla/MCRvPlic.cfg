CONSTANTS
  NumSrc = 3
  MaxPrio = 1
  EdgeTrig = {2}
SPECIFICATION Spec
INVARIANTS
  ClaimIdIsPending
  IrqIsClaimable
  HeldMatchesGateway
PROPERTIES
  NoDoubleClaim
  ImplementsProtocol
