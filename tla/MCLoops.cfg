\* A failure that is acted upon; a destination that is blocked twice, under a
\* clock that is set to any reading.
CONSTANTS
  p1 = p1
  Pid = {p1}
  Program = {agent}
  MaxRetries = 3
  Saved <- OneRow
  None = None
  Dest = {d1}
  Path = {f1}
  Expiry = 1
  TimerPeriod = 2
  MaxBlocks = 2
  MaxClock = 4
SPECIFICATION LoopSpec
INVARIANTS RuntimeTypeOK
PROPERTIES DeadIsReplacedOrGivenUp PeriodicWorkIsDone
