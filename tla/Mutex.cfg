SPECIFICATION Spec
CONSTANTS
  t1 = t1
  t2 = t2
  t3 = t3
  t4 = t4
  NULL = NULL
  Thread <- MCThread
  MaxNodes = 2
INVARIANTS
  NoLostWakeup
  MutualExclusion
PROPERTY SleepersWake
CHECK_DEADLOCK FALSE
