\* Backoff, cooldown and retry limit over twelve seconds; the API's, the
\* database's and the daemon's mode against each other.
CONSTANTS
  p1 = p1
  p2 = p2
  Pid = {p1, p2}
  InitialBackoff = 1
  MaxBackoff = 3
  Cooldown = 2
  MaxRetries = 3
  Unlimited = Unlimited
  Hydrated <- MCHydrated
  MaxAttempt = 4
  MaxTime = 12
  Wrap = 256
  Mode = {"safe", "recommendation", "enforcement"}
  Request = {r1, r2}
  SafeEnv = {"0", "1"}
  RecEnv = {FALSE}
  None = None
  MaxMail = 2
SYMMETRY RequestSymmetry
SPECIFICATION EngineAndModeSpec
INVARIANTS TypeOK WithinBudget ModeTypeOK DaemonFollowsApi DatabaseFollowsApi HeldBackOnlyIfGated
PROPERTIES AttemptsAreSpaced CooldownIsRespected ImplementsRestartBudget
CHECK_DEADLOCK FALSE
