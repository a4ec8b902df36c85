SPECIFICATION AppSpec
CONSTANTS
  t1 = t1
  t2 = t2
  t3 = t3
  v1 = v1
  b1 = b1
  b2 = b2
  m1 = m1
  m2 = m2
  Uses = {"semaphore", "events", "face", "worker", "perf", "perf_no_tick", "inversion", "spinners"}
  Tasks <- MCTasks
  Letters <- MCLetters
  Idle = Idle
  None = None
  kPriorityLevels = 3
  kSliceTicks = 2
  Prio <- OneLevel
  Readers <- Third
  Addressees = {}
  ping = t1
  pong = t2
  reporter = t3
  kRounds = 5
INVARIANTS
  TurnsAreFair
  EveryRoundMeasured
PROPERTIES
  WaitsEnd
  OffersAreTaken
  JobsAreDone
