----------------------------- MODULE Containment -----------------------------
(***************************************************************************)
(* ProcessContainmentEngine, ResourceControlEngine and the audit trail of  *)
(* crates/runtime: signals and a cgroup for agents that Task 8 restarts or *)
(* escalates, and the records of what was done.                            *)
(*                                                                         *)
(* Abstractions: runtime mode Native, which Linux always has; a name stands*)
(* for the agent of a decision; the limits written to the one cgroup are   *)
(* left out, which processes it has is kept.  All writes may fail silently.*)
(***************************************************************************)
EXTENDS Naturals, Sequences

CONSTANTS TargetPid, AgentName,
          MaxTracked   \* bound of ProcessContainmentEngine.tracked

ASSUME ContainmentAssumption == MaxTracked \in Nat

VARIABLES proc,      \* the process of each pid: none, running, or how it was stopped
          tracked,   \* ProcessContainmentEngine.tracked
          jailed,    \* pids in /sys/fs/cgroup/omnisec
          cgroups,   \* ResourceControlEngine.cgroups: agent and pid
          audited    \* KernelAuditTrail: action and pid of each entry

containVars == <<proc, tracked, jailed, cgroups, audited>>

Stops == {"Suspended", "Quarantined"}
ContainmentState == Stops \cup {"Running", "Killed", "Restarted"}
AuditedActions == {"process_restart", "process_quarantine", "cgroup_throttle"}

ContainmentTypeOK ==
  /\ proc \in [TargetPid -> {"none", "running"} \cup Stops]
  /\ tracked \in Seq([pid : TargetPid, state : ContainmentState]) /\ Len(tracked) <= MaxTracked
  /\ jailed \subseteq TargetPid /\ cgroups \subseteq AgentName \X TargetPid
  /\ audited \subseteq AuditedActions \X TargetPid

ContainmentInit == /\ proc \in [TargetPid -> {"none", "running"}]
                   /\ tracked = <<>> /\ jailed = {} /\ cgroups = {} /\ audited = {}

-----------------------------------------------------------------------------
(* The kernel.                                                             *)

Spawn(p) == /\ proc[p] = "none"
            /\ proc' = [proc EXCEPT ![p] = "running"]
            /\ UNCHANGED <<tracked, jailed, cgroups, audited>>

Die(p) == /\ proc[p] # "none"
          /\ proc' = [proc EXCEPT ![p] = "none"]
          /\ jailed' = jailed \ {p}
          /\ UNCHANGED <<tracked, cgroups, audited>>

\* A signal to a pid without a process is lost, and the caller does not ask.
Stop(p, how) == proc' = [proc EXCEPT ![p] = IF @ = "none" THEN @ ELSE how]

Continue(p) == proc' = [proc EXCEPT ![p] = IF @ = "none" THEN @ ELSE "running"]

SigKill(p) == /\ proc' = [proc EXCEPT ![p] = "none"]
              /\ jailed' = jailed \ {p}

-----------------------------------------------------------------------------
(* ProcessContainmentEngine.                                               *)

\* Mutant of Track: a pid that is tracked already gets no second entry.
TrackOnce(p, state) ==
  tracked' = IF \E i \in DOMAIN tracked : tracked[i].pid = p THEN tracked
             ELSE Append(tracked, [pid |-> p, state |-> state])

Track(p, state) == tracked' = Append(tracked, [pid |-> p, state |-> state])

\* The first entry of the pid, if there is one.
UpdateState(p, state) ==
  tracked' = [i \in DOMAIN tracked |->
                IF tracked[i].pid = p /\ \A j \in 1..(i - 1) : tracked[j].pid # p
                THEN [tracked[i] EXCEPT !.state = state] ELSE tracked[i]]

Suspend(p) == /\ Len(tracked) < MaxTracked
              /\ Stop(p, "Suspended")
              /\ Track(p, "Suspended")
              /\ UNCHANGED <<jailed, cgroups, audited>>

Resume(p) == /\ Continue(p)
             /\ UpdateState(p, "Running")
             /\ UNCHANGED <<jailed, cgroups, audited>>

Kill(p) == /\ SigKill(p)
           /\ UpdateState(p, "Killed")
           /\ UNCHANGED <<cgroups, audited>>

-----------------------------------------------------------------------------
(* ResourceControlEngine.                                                  *)

\* contain: the pid is moved into the one cgroup, which may fail; the record
\* names a cgroup of the agent's own.
Contain(p, agent) ==
  /\ jailed' \in {jailed} \cup (IF proc[p] = "none" THEN {} ELSE {jailed \cup {p}})
  /\ cgroups' = cgroups \cup {<<agent, p>>}

\* release removes the directory of the agent, which nothing makes.
Release(agent) == /\ cgroups' = {c \in cgroups : c[1] # agent}
                  /\ UNCHANGED <<proc, tracked, jailed, audited>>

-----------------------------------------------------------------------------
(* Task 8: a Restart and an Escalate decision while the gate is open.      *)

RestartProcess(p) == /\ SigKill(p)
                     /\ UpdateState(p, "Restarted")
                     /\ audited' = audited \cup {<<"process_restart", p>>}
                     /\ UNCHANGED cgroups

Escalate(p, agent) ==
  /\ Len(tracked) < MaxTracked
  /\ Stop(p, "Quarantined")
  /\ Track(p, "Quarantined")
  /\ Contain(p, agent)
  /\ audited' = audited \cup {<<"process_quarantine", p>>, <<"cgroup_throttle", p>>}

ContainmentNext ==
  \/ \E p \in TargetPid : Spawn(p) \/ Die(p)
  \/ \E p \in TargetPid : Suspend(p) \/ Resume(p) \/ Kill(p) \/ RestartProcess(p)
  \/ \E p \in TargetPid, agent \in AgentName : Escalate(p, agent)
  \/ \E agent \in AgentName : Release(agent)

ContainmentSpec == ContainmentInit /\ [][ContainmentNext]_containVars
-----------------------------------------------------------------------------
(* A process that is stopped has an entry that says how, although entries  *)
(* are found by pid, the first one wins, a pid may have several, and the   *)
(* pid may have belonged to others before: none is stopped and forgotten.  *)
StoppedIsTracked ==
  \A p \in TargetPid : proc[p] \in Stops =>
     \E i \in DOMAIN tracked : tracked[i] = [pid |-> p, state |-> proc[p]]
=============================================================================
