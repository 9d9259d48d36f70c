-------------------------------- MODULE MCLoops --------------------------------
(***************************************************************************)
(* Liveness of two loops of the daemon that share no state, the restart    *)
(* orchestrator and the runtime pipeline: the initial state chooses one of *)
(* them, and only that one takes steps.  Each keeps the fairness of its    *)
(* module.                                                                 *)
(***************************************************************************)
EXTENDS MCSupervisionLive, RuntimePipeline

VARIABLE loop

LoopInit == /\ loop \in {"restart", "runtime"}
            /\ Init        /\ (loop = "restart" \/ \A p \in Pid : proc[p] = "free")
            /\ RuntimeInit /\ (loop = "runtime" \/ watches = {})

LoopNext == \/ loop = "restart" /\ Next /\ UNCHANGED <<loop, runtimeVars>>
            \/ loop = "runtime" /\ RuntimeNext /\ UNCHANGED <<loop, vars>>

LoopFairness == /\ loop = "restart" => OrchestratorFairness
                /\ loop = "runtime" => RuntimeFairness

LoopSpec == LoopInit /\ [][LoopNext]_<<loop, vars, runtimeVars>> /\ LoopFairness
=============================================================================
