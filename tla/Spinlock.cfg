SPECIFICATION Spec
CONSTANTS
  c1 = c1
  c2 = c2
  t1 = t1
  t2 = t2
  t3 = t3
  NULL = NULL
  ISR = ISR
  Cpu <- MCCpu
  Thread <- MCThread
  Lock <- MCLock
  Limited <- MCLimited
  TimerProc = TRUE
INVARIANTS
  MutualExclusion
  HoldersRunUninterrupted
  InterruptsComeBack
  NoStandstill
SYMMETRY Symmetry
CHECK_DEADLOCK FALSE
