SPECIFICATION NotifiedSpec
CONSTANTS
  t1 = t1
  t2 = t2
  t3 = t3
  v1 = v1
  Tasks <- MCTasks
  Letters <- MCLetters
  Idle = Idle
  None = None
  kPriorityLevels = 2
  kSliceTicks = 1
  Prio <- Urgent
  Initial = 0
  MaxCount = 2
  Timed <- OneTimed
  Forever <- TwoForever
INVARIANTS
  WaiterLinkedOnce
