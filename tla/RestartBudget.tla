---------------------------- MODULE RestartBudget ----------------------------
(***************************************************************************)
(* What the restart engine promises to the orchestrator, without its clock:*)
(* an agent that rests after an attempt or a recovery is not restarted     *)
(* before it has rested, and once it has used its MaxRetries attempts it is*)
(* not restarted again until it recovers or is forgotten.  RestartEngine,  *)
(* which measures the rests in seconds, implements this module.            *)
(***************************************************************************)
EXTENDS Naturals

CONSTANTS Pid,
          MaxRetries,  \* attempts an agent is given
          MaxAttempt   \* bound: the largest attempt count carried over

VARIABLES registered,  \* pids the engine keeps a restart state for
          attempt,     \* attempts made
          resting      \* pids whose backoff or cooldown still runs

vars == <<registered, attempt, resting>>

TypeOK == /\ registered \subseteq Pid
          /\ attempt \in [Pid -> 0..MaxAttempt]
          /\ resting \subseteq registered

\* Attempts may have been carried over from an earlier run.
Init == /\ registered \in SUBSET Pid
        /\ attempt \in [Pid -> 0..MaxAttempt]
        /\ \A p \in Pid \ registered : attempt[p] = 0
        /\ resting = {p \in registered : attempt[p] > 0}

Register(p) == /\ registered' = registered \cup {p}
               /\ UNCHANGED <<attempt, resting>>

Unregister(p) == /\ registered' = registered \ {p}
                 /\ attempt' = [attempt EXCEPT ![p] = 0]
                 /\ resting' = resting \ {p}

\* Mutant of Eligible: the last attempt is never made.
EligibleButLast(p) == /\ p \in registered \ resting
                      /\ attempt[p] + 1 < MaxRetries

Eligible(p) == /\ p \in registered \ resting
               /\ attempt[p] < MaxRetries

Attempt(p) == /\ Eligible(p)
              /\ attempt' = [attempt EXCEPT ![p] = @ + 1]
              /\ resting' = resting \cup {p}
              /\ UNCHANGED registered

Recover(p) == /\ p \in registered
              /\ attempt' = [attempt EXCEPT ![p] = 0]
              /\ resting' = resting \cup {p}
              /\ UNCHANGED registered

\* Time passes: some of the agents have rested.
Rested(S) == /\ S # {} /\ S \subseteq resting
             /\ resting' = resting \ S
             /\ UNCHANGED <<registered, attempt>>

Next == \/ \E p \in Pid : Register(p) \/ Unregister(p) \/ Attempt(p) \/ Recover(p)
        \/ \E S \in SUBSET resting : Rested(S)

Spec == Init /\ [][Next]_vars
=============================================================================
