CONSTANTS
  Pid = {p1, p2}
  MaxEvents = 2
  MaxAnnounced = 1
  MaxIds = 2
SPECIFICATION KernelSpec
INVARIANT EndsAreTold
CHECK_DEADLOCK FALSE
