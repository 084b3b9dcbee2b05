\* The prescaler of the repository's only caller (aon_timer_testutils.c:63-64).
CONSTANTS
  Half = 5
  PrescalerMask = 7
  Prescalers = {0}
  Thresholds = {1, 7}
  MaxCount = 9
SPECIFICATION Spec
INVARIANTS AlarmOnTime
PROPERTIES ReadIsRecent
CHECK_DEADLOCK FALSE
