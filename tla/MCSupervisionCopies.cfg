\* A second replacement of an agent whose first one is running.
CONSTANTS
  p1 = p1
  Pid = {p1, p2, p3}
  Program = {agent}
  MaxRetries = 2
  Saved <- NoRows
  None = None
SYMMETRY PidSymmetry
SPECIFICATION HistorySpec
INVARIANT OneReplacementPerAgent
