SPECIFICATION MemorySpec
CONSTANTS
  W = 2
  block_cnt = 6
  None = None
  Tasks = {t1, t2}
  Size = 5
  kCanarySize = 2
  kFrame = 1
  Overrun = 1
  kTaskArenaBytes = 2048
  TcbBytes = 52
  TcbAlign = 4
  Counts = {63, 64, 96, 192}
  Slots = {s1, s2}
  SlotWords = 64
  Prios = {0}
INVARIANTS
  PoolIsSound
  ArenaIsSound
  StacksAreWatched
PROPERTIES
  TamperedIsHeldBack
CHECK_DEADLOCK FALSE
