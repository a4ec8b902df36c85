SPECIFICATION ClockSpec
CONSTANTS
  t1 = t1
  t2 = t2
  a1 = a1
  NoFn = NoFn
  Timers <- MCTimers
  Alarms <- MCAlarms
  Waiters <- MCWaiters
  Wrap = 10
  MaxSpan = 2
  MaxElapsed = 2
  Nappers <- MCTimers
  MinNap = 3
  MaxNap = 9
  kTicklessThreshold = 2
  Cycles = 2
  MaxLoad = 11
INVARIANTS
  QueueIsSound
  BookingsAreTrue
  AlarmInTime
  LatenessIsBounded
PROPERTIES
  FiresOnTime
  ElapsedReturns
  SleepsEnd
