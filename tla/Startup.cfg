SPECIFICATION StartupSpec
CONSTANTS
  Cpus = 4
  Bsp = 1
  Rounds = 2
  MaxCpus = 4
  KernelEnd <- MCKernelEnd
  ThreadSize = 256
  RegBits = 6
  QuadBits = 31
  Machines <- MCMachines
INVARIANTS
  OneOnStack
  ReadyForScheduler
  CpuDescsAreExact
  TimerIsClose
  InterruptsAreReady
PROPERTY BootEnds
CHECK_DEADLOCK FALSE
