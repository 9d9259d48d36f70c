\* The daemon's health loop, its gauges and its liveness: two agents without
\* CPU time, or one that works, idles, works again and stops.
CONSTANTS
  Pid = {p1, p2}
  FailureThreshold = 2
  HangThreshold = 2
  MaxTicks = 2
SPECIFICATION MCTaskSpec
INVARIANTS TaskTypeOK FailedNeverUnderReported
PROPERTIES GoneIsReported HungIsFlagged
