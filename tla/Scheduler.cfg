SPECIFICATION SchedulerSpec
CONSTANTS
  t1 = t1
  t2 = t2
  t3 = t3
  v1 = v1
  Tasks <- MCTasks
  Letters <- MCLetters
  Idle = Idle
  None = None
  kPriorityLevels = 2
  kSliceTicks = 2
INVARIANTS
  TypeOK
  RingsAreHonest
  RunnerIsRunning
  NobodyOutranks
PROPERTIES
  FirstComeFirstServed
  PreemptedOnlyByHigher
  RoundRobin
