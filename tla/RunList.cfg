SPECIFICATION Spec
CONSTANTS
  t1 = t1
  t2 = t2
  t3 = t3
  NULL = NULL
  Thread <- MCThread
  Priorities = 2
  Priority <- MCPriority
  Quantum = 1
INVARIANTS
  ListsAreLinked
  QueueIsExact
  NextThreadExists
  FsIsCurrent
PROPERTIES
  ImplementsCpuQueue
  NoStarvation
