\* A carry between the halves while both are read.
CONSTANTS
  Half = 5
  PrescalerMask = 7
  Prescalers = {0}
  Thresholds = {1}
  MaxCount = 6
SPECIFICATION Spec
PROPERTIES ReadNotAhead
CHECK_DEADLOCK FALSE
