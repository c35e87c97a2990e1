SPECIFICATION Spec
CONSTANTS
  bsp = bsp
  kmain = kmain
  t1 = t1
  t2 = t2
  NULL = NULL
  Cpu <- MCCpu
  Thread <- MCThread
  Priorities = 2
  Priority <- MCPriority
  Affinity <- MCAffinity
  Quantum = 1
  Kmain = kmain
  TimerProc = TRUE
PROPERTY ImplementsCpuQueue
