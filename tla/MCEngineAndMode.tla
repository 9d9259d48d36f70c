---------------------------- MODULE MCEngineAndMode ----------------------------
(***************************************************************************)
(* Two parts that share no state, the restart engine and the operational   *)
(* mode: the initial state chooses one of them, and only that one takes    *)
(* steps.  One pid carries attempts over from an earlier run, the others   *)
(* start afresh; the requests are interchangeable.                         *)
(***************************************************************************)
EXTENDS RestartEngine, ModeGate, TLC

CONSTANTS p1, p2

MCHydrated == p1 :> 2

\* The hypotheses of the theorems on the backoff hold in this instance.
ASSUME BackoffAssumption == /\ NothingWraps
                            /\ InitialBackoff > 0 /\ MaxBackoff > 0 /\ Cooldown > 0

RequestSymmetry == Permutations(Request)

VARIABLE part

EngineAndModeInit == /\ part \in {"engine", "mode"}
                     /\ Init
                     /\ ModeInit /\ (part = "mode" \/ safeEnv = "1")

EngineAndModeNext == \/ part = "engine" /\ Next /\ UNCHANGED <<part, modeVars>>
                     \/ part = "mode" /\ ModeNext /\ UNCHANGED <<part, vars>>

EngineAndModeSpec == EngineAndModeInit /\ [][EngineAndModeNext]_<<part, vars, modeVars>>
=============================================================================
