SPECIFICATION PipeSpec
CONSTANTS
  MaxPackets = 3
  MaxSessions = 2
PROPERTIES OutExactlyOnce InExactlyOnce AllDelivered
