SPECIFICATION Spec
CONSTANTS
  c1 = c1
  c2 = c2
  kmain = kmain
  t1 = t1
  NULL = NULL
  Cpu <- MCCpu
  Thread <- MCThread
  Priorities = 1
  Priority <- MCPriority
  Affinity <- MCAffinity
  Quantum = 0
  Kmain = kmain
  TimerProc = TRUE
INVARIANT NoLockLeft
CHECK_DEADLOCK FALSE
