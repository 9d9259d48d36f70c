\* The gate while all three modes are switched.
CONSTANTS
  Mode = {"safe", "recommendation", "enforcement"}
  Request = {r1, r2}
  SafeEnv = {"0", "1"}
  RecEnv = {FALSE}
  None = None
  MaxMail = 2
SYMMETRY RequestSymmetry
SPECIFICATION ModeSpec
INVARIANT CarriedOutOnlyIfEnforcing
