\* The crash of a process the daemon itself has started.
CONSTANTS
  p1 = p1
  Pid = {p1, p2}
  Program = {agent}
  MaxRetries = 1
  Saved <- NoRows
  None = None
SPECIFICATION MonitorSpec
PROPERTY CrashIsReported
