---------------------------- MODULE HealthMonitor ----------------------------
(***************************************************************************)
(* crates/monitoring: HealthMonitor.  check_health visits every registered *)
(* pid once, in the arbitrary order of a HashMap, while processes come and *)
(* go underneath it, and returns the events it raised.                     *)
(*                                                                         *)
(* Abstractions: a process's CPU time is a small counter, MaxTicks; the    *)
(* two counters of the monitor saturate at the thresholds they are compared*)
(* with; cpu_percent and memory_mb, which no decision reads, are left out. *)
(***************************************************************************)
EXTENDS Integers

CONSTANTS Pid,
          FailureThreshold,  \* failed checks before an agent is dead
          HangThreshold,     \* idle checks before a process is hung
          MaxTicks           \* bound: CPU ticks a process ever accumulates

ASSUME ThresholdAssumption == /\ FailureThreshold \in Nat \ {0}
                              /\ HangThreshold \in Nat \ {0}
                              /\ MaxTicks \in Nat

VARIABLES proc,        \* the kernel's process table
          ticks,       \* utime + stime of each process
          agents,      \* keys of the agents map
          status,      \* its values: alive, state, consecutive_failures
          lastTicks,   \* last_cpu_ticks, NoTicks where there is no entry
          zeroCycles,  \* zero_delta_cycles, 0 where there is no entry
          todo,        \* pids the check_health call in progress has to visit
          events,      \* events it raised that the caller has not handled
          report       \* history: the last death or recovery raised per pid

vars == <<proc, ticks, agents, status, lastTicks, zeroCycles, todo, events, report>>
env  == <<proc, ticks>>
hang == <<lastTicks, zeroCycles>>

ProcState   == {"free", "running", "zombie"}
HealthState == {"Unknown", "Healthy", "Warning", "Failed", "Restarting"}
NoTicks     == -1
Fresh       == [alive |-> TRUE, state |-> "Unknown", failures |-> 0]

Event == [kind : {"AgentDied", "AgentUnhealthy", "AgentRecovered"}, pid : Pid]

TypeOK ==
  /\ proc \in [Pid -> ProcState]
  /\ ticks \in [Pid -> 0..MaxTicks]
  /\ agents \subseteq Pid
  /\ status \in [Pid -> [alive : BOOLEAN, state : HealthState,
                         failures : 0..FailureThreshold]]
  /\ lastTicks \in [Pid -> NoTicks..MaxTicks]
  /\ zeroCycles \in [Pid -> 0..HangThreshold]
  /\ todo \subseteq agents
  /\ events \subseteq Event
  /\ report \in [Pid -> {"none", "died", "recovered"}]

Init == /\ proc \in [Pid -> {"free", "running"}]
        /\ ticks = [p \in Pid |-> 0]
        /\ agents = {}
        /\ status = [p \in Pid |-> Fresh]
        /\ lastTicks = [p \in Pid |-> NoTicks]
        /\ zeroCycles = [p \in Pid |-> 0]
        /\ todo = {}
        /\ events = {}
        /\ report = [p \in Pid |-> "none"]

-----------------------------------------------------------------------------
(* The kernel: the process behind a pid starts, works, exits, is reaped.   *)

Start(p) == /\ proc[p] = "free"
            /\ proc' = [proc EXCEPT ![p] = "running"]
            /\ ticks' = [ticks EXCEPT ![p] = 0]

Work(p) == /\ proc[p] = "running"
           /\ ticks[p] < MaxTicks
           /\ ticks' = [ticks EXCEPT ![p] = @ + 1]
           /\ UNCHANGED proc

Exit(p) == /\ proc[p] = "running"
           /\ \E s \in {"free", "zombie"} : proc' = [proc EXCEPT ![p] = s]
           /\ UNCHANGED ticks

Reap(p) == /\ proc[p] = "zombie"
           /\ proc' = [proc EXCEPT ![p] = "free"]
           /\ UNCHANGED ticks

Kernel(p) == /\ Start(p) \/ Work(p) \/ Exit(p) \/ Reap(p)
             /\ UNCHANGED <<agents, status, hang, todo, events, report>>

-----------------------------------------------------------------------------
(* The methods that are one assignment; none runs during check_health,     *)
(* which holds the monitor mutably.                                        *)

Register(p) ==
  /\ todo = {}
  /\ agents' = agents \cup {p}
  /\ status' = [status EXCEPT ![p] = IF p \in agents THEN @ ELSE Fresh]
  /\ UNCHANGED <<env, hang, todo, events, report>>

\* Mutant of Unregister: shared access lets it in during a check.
UnregisterDuringCheck(p) ==
  /\ p \in agents
  /\ agents' = agents \ {p}
  /\ status' = [status EXCEPT ![p] = Fresh]
  /\ report' = [report EXCEPT ![p] = "none"]
  /\ UNCHANGED <<env, hang, todo, events>>

\* Leaves the pid's entries in last_cpu_ticks and zero_delta_cycles behind.
Unregister(p) ==
  /\ todo = {}
  /\ p \in agents
  /\ agents' = agents \ {p}
  /\ status' = [status EXCEPT ![p] = Fresh]
  /\ report' = [report EXCEPT ![p] = "none"]
  /\ UNCHANGED <<env, hang, todo, events>>

SetAgentState(p, s) ==
  /\ todo = {}
  /\ p \in agents
  /\ status' = [status EXCEPT ![p].state = s]
  /\ UNCHANGED <<env, agents, hang, todo, events, report>>

-----------------------------------------------------------------------------
(* check_health.                                                           *)

Raise(kind, p) == events' = events \cup {[kind |-> kind, pid |-> p]}

Bump(n, cap) == IF n < cap THEN n + 1 ELSE n

\* Mutant of ProcessAlive: an exited process counts as gone at once.
ProcessRunning(p) == proc[p] = "running"

\* kill(pid, 0) succeeds for every pid the kernel has an entry for, as the
\* daemon runs as root; the code takes EPERM, too, for a process that is gone.
ProcessAlive(p) == proc[p] # "free"

\* Mutant of ZeroDelta: a strict comparison.
NegativeDelta(p) == lastTicks[p] # NoTicks /\ ticks[p] < lastTicks[p]

\* No CPU time since the last reading: saturating_sub, 1 when there is none.
ZeroDelta(p) == lastTicks[p] # NoTicks /\ ticks[p] <= lastTicks[p]

WasDead(p) == ~status[p].alive \/ status[p].state \in {"Failed", "Restarting"}

\* Mutants of Dies: without the test that raises a death only once; with a
\* test that the state Warning of the earlier failures never passes.
DiesAgain(p, n) == n >= FailureThreshold
DiesIfHealthy(p, n) == n >= FailureThreshold /\ status[p].state = "Healthy"

Dies(p, n) == n >= FailureThreshold /\ status[p].alive

\* Mutant of ClearHang: the readings of the dead process are kept.
KeepHang(p) == p \in Pid /\ UNCHANGED hang

ClearHang(p) == /\ zeroCycles' = [zeroCycles EXCEPT ![p] = 0]
                /\ lastTicks' = [lastTicks EXCEPT ![p] = NoTicks]

BeginCheck == /\ todo = {}
              /\ events = {}
              /\ agents # {}
              /\ todo' = agents
              /\ UNCHANGED <<env, agents, status, hang, events, report>>

MarkAlive(p, hung) ==
  /\ status' = [status EXCEPT ![p] =
                  [alive |-> TRUE, failures |-> 0,
                   state |-> IF hung THEN "Warning" ELSE "Healthy"]]
  /\ IF hung THEN Raise("AgentUnhealthy", p) /\ UNCHANGED report
     ELSE IF WasDead(p)
          THEN /\ Raise("AgentRecovered", p)
               /\ report' = [report EXCEPT ![p] = "recovered"]
          ELSE UNCHANGED <<events, report>>

SeenAlive(p) ==
  /\ p \in todo
  /\ ProcessAlive(p)
  /\ LET idle  == ZeroDelta(p)
         count == IF idle THEN Bump(zeroCycles[p], HangThreshold) ELSE 0
     IN /\ zeroCycles' = [zeroCycles EXCEPT ![p] = count]
        /\ MarkAlive(p, idle /\ count >= HangThreshold)
  /\ lastTicks' = [lastTicks EXCEPT ![p] = ticks[p]]
  /\ todo' = todo \ {p}
  /\ UNCHANGED <<env, agents>>

\* The process vanished between kill(pid, 0) and the read of its stat file.
SeenUnreadable(p) ==
  /\ p \in todo
  /\ ProcessAlive(p)
  /\ MarkAlive(p, FALSE)
  /\ todo' = todo \ {p}
  /\ UNCHANGED <<env, agents, hang>>

SeenGone(p) ==
  LET n == Bump(status[p].failures, FailureThreshold)
      dies == Dies(p, n)
  IN /\ p \in todo
     /\ ~ProcessAlive(p)
     /\ ClearHang(p)
     /\ status' = [status EXCEPT ![p] =
                     [alive |-> @.alive /\ ~dies, failures |-> n,
                      state |-> IF dies THEN "Failed"
                                ELSE IF @.alive THEN "Warning" ELSE @.state]]
     /\ IF dies
        THEN Raise("AgentDied", p) /\ report' = [report EXCEPT ![p] = "died"]
        ELSE UNCHANGED <<events, report>>
     /\ todo' = todo \ {p}
     /\ UNCHANGED <<env, agents>>

Visit(p) == SeenAlive(p) \/ SeenUnreadable(p) \/ SeenGone(p)

\* The caller handles one of the returned events.
Handle(e) == /\ todo = {}
             /\ e \in events
             /\ events' = events \ {e}
             /\ UNCHANGED <<env, agents, status, hang, todo, report>>

-----------------------------------------------------------------------------
Next == \/ \E p \in Pid : \/ Kernel(p) \/ Register(p) \/ Unregister(p) \/ Visit(p)
                          \/ \E s \in HealthState : SetAgentState(p, s)
        \/ BeginCheck
        \/ \E e \in events : Handle(e)

Spec == Init /\ [][Next]_vars
-----------------------------------------------------------------------------
AliveCount  == {p \in agents : status[p].alive}
FailedCount == {p \in agents : status[p].state = "Failed"}

(* The events tell the whole story: an agent is held dead exactly when the *)
(* last of its deaths and recoveries to be raised was a death.  In         *)
(* particular no agent goes back to alive silently, although the branch    *)
(* that flags a hung process raises no recovery: check_health clears the   *)
(* hang counters of a process it finds gone.                               *)
VerdictMatchesReports ==
  \A p \in agents : status[p].alive <=> report[p] # "died"

(* A death is never raised twice without a recovery between them, and a    *)
(* recovery is raised only after a death, or for an agent whose state      *)
(* set_agent_state had put to Failed or Restarting.                        *)
Raised(kind, p) == [kind |-> kind, pid |-> p] \in events' \ events

DeathsAndRecoveriesAlternate ==
  [][\A p \in Pid :
       /\ Raised("AgentDied", p) => report[p] # "died"
       /\ Raised("AgentRecovered", p) =>
            report[p] = "died" \/ status[p].state \in {"Failed", "Restarting"}]_vars

-----------------------------------------------------------------------------
(* The monitor implements the abstract failure detector.                   *)
FD == INSTANCE FailureDetector
        WITH watched <- agents,
             down <- {p \in agents : ~status[p].alive}

ImplementsFailureDetector == FD!Spec
=============================================================================
