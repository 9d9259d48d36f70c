\* Safety of the health monitor: every interleaving of two processes' lives
\* with check_health and with the other methods.
CONSTANTS
  Pid = {p1, p2}
  FailureThreshold = 2
  HangThreshold = 2
  MaxTicks = 1
SYMMETRY PidSymmetry
SPECIFICATION Spec
INVARIANTS TypeOK VerdictMatchesReports
PROPERTIES DeathsAndRecoveriesAlternate ImplementsFailureDetector
