\* A block that is reported as rolled back, in the kernel.
CONSTANTS
  Dest = {d1}
  Path = {f1}
  Expiry = 2
  TimerPeriod = 2
  MaxBlocks = 2
  MaxClock = 8
SPECIFICATION RuntimeSpec
INVARIANT LiftedIsUnblocked
