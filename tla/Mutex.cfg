SPECIFICATION MCSpec
CONSTANTS
  t1 = t1
  t2 = t2
  t3 = t3
  t4 = t4
  v1 = v1
  m1 = m1
  m2 = m2
  Tasks <- MCTasks
  Letters <- MCLetters
  Idle = Idle
  None = None
  kPriorityLevels = 3
  kSliceTicks = 1
  Prio <- MCPrio
  Mutexes <- MCMutexes
  Lockers <- MCTasks
INVARIANTS
  LockIsSound
  LoansAreHonest
  StrictPriority
  InversionIsBounded
PROPERTIES
  HandedToTheMostUrgent
