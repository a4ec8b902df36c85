SPECIFICATION ClockSpec
CONSTANTS
  t1 = t1
  t2 = t2
  a1 = a1
  NoFn = NoFn
  Timers <- MCTimers
  Alarms <- MCAlarms
  Waiters <- MCWaiters
  Wrap = 4
  MaxSpan = 0
  MaxElapsed = 1
  Nappers <- MCAlarms
  MinNap = 2
  MaxNap = 2
  kTicklessThreshold = 2
  Cycles = 2
  MaxLoad = 7
PROPERTIES
  NapEnds
