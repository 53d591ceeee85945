SPECIFICATION FairSpec
CHECK_DEADLOCK FALSE
CONSTANTS
  Clients = {a, b}
  MAX_TIMERS = 2
  CountsPerTick = 2
  TimerRange = 8
  Delays = {1}
  MaxTime = 9
INVARIANTS
  TimersAccounted
  NotifierProtocol
  TicksTrackTime
PROPERTIES
  NeverEarly
  AlarmClockSpec
  DelaysEnd
