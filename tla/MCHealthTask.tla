---------------------------- MODULE MCHealthTask ----------------------------
(***************************************************************************)
(* HealthTask for TLC, with two worlds to choose from: several agents that *)
(* use no CPU time after their start, or one that works and stops.         *)
(***************************************************************************)
EXTENDS HealthTask

VARIABLE world

Worker == CHOOSE p \in Pid : TRUE

InWorld == IF world = "idle" THEN \A p \in Pid : ticks[p] = 0
           ELSE \A p \in Pid \ {Worker} : proc[p] = "free"

MCTaskInit == world \in {"idle", "worker"} /\ TaskInit /\ InWorld

MCTaskNext == TaskNext /\ UNCHANGED world /\ InWorld'

MCTaskSpec == MCTaskInit /\ [][MCTaskNext]_<<world, taskVars>> /\ TaskFairness
=============================================================================
