SPECIFICATION TimerSpec
CONSTANTS
  Half = 3
  MaxPrescale = 1
  MaxStep = 2
INVARIANTS TimerTypeOK
PROPERTIES HalvesMoveAsOne ImplementsAlarm AlarmComes
