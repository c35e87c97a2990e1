SPECIFICATION Spec
CONSTANTS
  c1 = c1
  c2 = c2
  t1 = t1
  t2 = t2
  NULL = NULL
  Cpu <- MCCpu
  Bsp = c1
  Thread <- MCThread
  Period = {1, 3}
  TickInterval = 2
  MaxNodes = 2
  LastCall = 1
  MaxStamp = 1
  MaxLeft = 1
INVARIANT TimerArmed
PROPERTIES
  NeverEarly
  SleepersWake
