\* The host is silent until it is told that it may send.
CONSTANTS
  Low = 4
  High = 8
  RxDepth = 11
  TxDepth = 4
  HostLag = 2
  Early = 0
SPECIFICATION Spec
INVARIANTS WatermarkWatched
\* a handler that finds nothing pending ends the test
CHECK_DEADLOCK FALSE
