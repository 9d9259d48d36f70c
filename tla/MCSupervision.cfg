\* Safety of crash recovery with lost messages, pid reuse and daemon crashes.
CONSTANTS
  p1 = p1
  Pid = {p1, p2}
  Program = {agent}
  MaxRetries = 2
  Saved <- OneRow
  None = None
SPECIFICATION HistorySpec
INVARIANTS HistoryTypeOK OnlyTheDeadAreRestarted CopiesWithinBudget
