\* The attempts made before a restart of the daemon, after it.
CONSTANTS
  p1 = p1
  Pid = {p1, p2}
  Program = {agent}
  MaxRetries = 2
  Saved <- NoRows
  None = None
SPECIFICATION HistorySpec
INVARIANT RestartCountsSurvive
