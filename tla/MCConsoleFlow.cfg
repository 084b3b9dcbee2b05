\* The watermarks are the console's; the FIFOs hold a few bytes more than
\* a host that reacts late can fill.
CONSTANTS
  Low = 4
  High = 8
  RxDepth = 11
  TxDepth = 4
  HostLag = 2
  Early = 9
SPECIFICATION Spec
INVARIANTS HostKnowsFlow NoMutualWait
\* a handler that finds nothing pending ends the test
CHECK_DEADLOCK FALSE
