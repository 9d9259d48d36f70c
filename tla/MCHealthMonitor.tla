--------------------------- MODULE MCHealthMonitor ---------------------------
(* HealthMonitor for TLC: interchangeable pids.                            *)
EXTENDS HealthMonitor, TLC

PidSymmetry == Permutations(Pid)
=============================================================================
