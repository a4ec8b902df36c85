SPECIFICATION SyncSpec
CONSTANTS
  t1 = t1
  t2 = t2
  t3 = t3
  v1 = v1
  v2 = v2
  b1 = b1
  b2 = b2
  m1 = m1
  m2 = m2
  Bits <- TwoBits
  Wishes <- MCWishes
  Readers <- Pair
  Uses = {"semaphore", "events", "face", "queue"}
  Tasks <- MCTasks
  Letters <- MCLetters
  Idle = Idle
  None = None
  kPriorityLevels = 2
  kSliceTicks = 1
  Prio <- MCPrio
  Initial = 0
  MaxCount = 2
  Timed <- First
  Forever <- TheLastTwo
  EvtTimed <- Third
  EvtForever <- TheFirstTwo
  FaceTasks <- Pair
  Capacity = 2
  Messages <- TwoMessages
  Senders <- First
  Patient <- Second
  Hasty <- Third
INVARIANTS
  NothingIsSleptOn
  SleepersAreFound
  NodesAreSound
  SlotsAreConserved
PROPERTIES
  ImplementsFifo
