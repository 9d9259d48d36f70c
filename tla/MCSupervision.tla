---------------------------- MODULE MCSupervision ----------------------------
(* Supervision, with its history, for TLC: the table has a row for one pid, *)
(* or none, and then the pids are interchangeable.                         *)
EXTENDS SupervisionHistory, MCSupervisionLive

PidSymmetry == Permutations(Pid)
=============================================================================
