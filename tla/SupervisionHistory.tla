-------------------------- MODULE SupervisionHistory --------------------------
(***************************************************************************)
(* Supervision with a history variable, which no action reads, for the     *)
(* property that relates a state to what happened before it.               *)
(***************************************************************************)
EXTENDS Supervision

VARIABLE reported  \* pids the running daemon has reported dead

historyVars == <<vars, reported>>

HistoryTypeOK == TypeOK /\ reported \subseteq Pid

HistoryInit == Init /\ reported = {}

HistoryNext ==
  \/ \E p \in Pid : AgentDied(p) /\ reported' = reported \cup {p}
  \/ Crash /\ reported' = {}
  \/ /\ \/ \E p \in Pid : \/ Launch(p) \/ Exit(p)
                          \/ Discover(p) \/ MonitorAgent(p)
                          \/ AgentRecovered(p) \/ RegisterFailed(p) \/ Restart(p)
        \/ Lose \/ CacheCommand \/ StartRound \/ Rested \/ Boot
     /\ UNCHANGED reported

HistorySpec == HistoryInit /\ [][HistoryNext]_historyVars
-----------------------------------------------------------------------------
(* The restart engine has an agent only if the monitor of this very daemon *)
(* found it dead, or the database had a row for it when the daemon came up,*)
(* whatever is lost, delayed or reordered in between and however often the *)
(* daemon comes back: what a predecessor knew reaches it by no other way.  *)
OnlyTheDeadAreRestarted == registered \cup failed \subseteq reported \cup DOMAIN Saved

(* Restart counts survive a restart of the daemon, as the header of the    *)
(* state crate says of all operational state: the replacements of an agent *)
(* that run, the ones a predecessor has spawned included, are within the   *)
(* attempts counted for it.                                                *)
RestartCountsSurvive ==
  up => \A p \in Pid : Cardinality({q \in Pid : origin[q] = p}) <= attempt[p]
=============================================================================
