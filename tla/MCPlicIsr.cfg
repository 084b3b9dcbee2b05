CONSTANTS
  NumSrc = 3
  MaxPrio = 1
  EdgeTrig = {}
  Served = {1, 2}
  AckToComplete = 2
  MaxEvents = 3
SPECIFICATION IsrSpec
INVARIANTS NoSpuriousClaim HandlerFindsEvent
PROPERTIES EventsAcknowledged FlagsConsumed
