----------------------------- MODULE Supervision -----------------------------
(***************************************************************************)
(* Crash recovery end to end: the discovery ticker, the health monitor and *)
(* the restart orchestrator of the daemon, the NATS subjects between them, *)
(* the processes they watch and spawn, and crashes of the daemon itself.   *)
(* The monitor and the restart engine appear as FailureDetector and        *)
(* RestartBudget, which HealthMonitor and RestartEngine implement.         *)
(*                                                                         *)
(* NATS delivers at most once: a message may be lost, and one that a       *)
(* subscriber has not received dies with it.  A message in flight is a     *)
(* member of a set, because a second copy changes nothing at its receiver. *)
(***************************************************************************)
EXTENDS Naturals, FiniteSets

CONSTANTS Pid,
          Program,     \* the commands that processes run
          MaxRetries,
          Saved,       \* state_restart_state: attempts by pid, up to MaxRetries,
                       \* of which more have the same effect
          None         \* no command; no pid

ASSUME SupervisionAssumption == /\ MaxRetries \in Nat
                                /\ DOMAIN Saved \subseteq Pid
                                /\ Saved \in [DOMAIN Saved -> 0..MaxRetries]
                                /\ None \notin Program /\ None \notin Pid

VARIABLES
  proc, prog,                    \* the process table and what each pid runs
  child,                         \* pids spawned by the running daemon
  origin,                        \* history: the pid a process was spawned for
  up,                            \* the daemon is running
  watched, down,                 \* the health monitor
  registered, attempt, resting,  \* the restart engine
  cmdline,                       \* agent_cmdlines, None where there is no entry
  todo,                          \* pending restarts the timer branch works on
  toHealth, toRestart,           \* AGENT_DISCOVERED on its way to each task
  failed                         \* AGENT_FAILED on its way to the orchestrator

kernel   == <<proc, prog, child, origin>>
monitor  == <<watched, down>>
engine   == <<registered, attempt, resting>>
messages == <<toHealth, toRestart, failed>>
vars == <<kernel, up, monitor, engine, cmdline, todo, messages>>

FD == INSTANCE FailureDetector
RB == INSTANCE RestartBudget WITH MaxAttempt <- MaxRetries

Command  == Program \cup {None}
Discovery == [pid : Pid, command : Command]

TypeOK == /\ FD!TypeOK /\ RB!TypeOK
          /\ prog \in [Pid -> Command]
          /\ child \subseteq Pid
          /\ origin \in [Pid -> Pid \cup {None}]
          /\ up \in BOOLEAN
          /\ cmdline \in [Pid -> Command]
          /\ todo \subseteq registered
          /\ toHealth \subseteq Pid
          /\ toRestart \subseteq Discovery
          /\ failed \subseteq Pid

Init == /\ prog \in [Pid -> Command]
        /\ proc = [p \in Pid |-> IF prog[p] = None THEN "free" ELSE "running"]
        /\ child = {}
        /\ origin = [p \in Pid |-> None]
        /\ up = FALSE
        /\ watched = {} /\ down = {}
        /\ registered = {} /\ resting = {} /\ attempt = [p \in Pid |-> 0]
        /\ cmdline = [p \in Pid |-> None]
        /\ todo = {}
        /\ toHealth = {} /\ toRestart = {} /\ failed = {}

-----------------------------------------------------------------------------
(* The kernel.  A process whose parent is the daemon stays a zombie, for   *)
(* spawn_process forgets the Child without ever waiting for it; another    *)
(* parent is taken to reap its children.                                   *)

Launch(p) == /\ proc[p] = "free"
             /\ proc' = [proc EXCEPT ![p] = "running"]
             /\ \E c \in Program : prog' = [prog EXCEPT ![p] = c]
             /\ UNCHANGED <<child, origin, up, monitor, engine, cmdline, todo,
                            messages>>

Exit(p) == /\ proc[p] = "running"
           /\ proc' = [proc EXCEPT ![p] = IF p \in child THEN "zombie" ELSE "free"]
           /\ prog' = [prog EXCEPT ![p] = None]
           /\ origin' = [origin EXCEPT ![p] = None]
           /\ UNCHANGED <<child, up, monitor, engine, cmdline, todo, messages>>

-----------------------------------------------------------------------------
(* Task 1.  A scan lists every pid under /proc, whatever its confidence;   *)
(* the command line of a zombie reads as empty.                            *)
Discover(p) ==
  /\ up
  /\ proc[p] # "free"
  /\ toHealth' = toHealth \cup {p}
  /\ toRestart' = toRestart \cup {[pid |-> p, command |-> prog[p]]}
  /\ UNCHANGED <<kernel, up, monitor, engine, cmdline, todo, failed>>

(* Task 2.                                                                 *)
MonitorAgent(p) == /\ p \in toHealth
                   /\ FD!Watch(p)
                   /\ toHealth' = toHealth \ {p}
                   /\ UNCHANGED <<prog, child, origin, up, engine, cmdline, todo,
                                  toRestart, failed>>

AgentDied(p) == /\ FD!DeclareDown(p)
                /\ failed' = failed \cup {p}
                /\ UNCHANGED <<prog, child, origin, up, engine, cmdline, todo,
                               toHealth, toRestart>>

\* Nobody subscribes to AGENT_HEALTH_CHANGED: the restart engine goes on.
AgentRecovered(p) == /\ FD!DeclareUp(p)
                     /\ UNCHANGED <<prog, child, origin, up, engine, cmdline, todo,
                                    messages>>

Lose == /\ \/ \E p \in toHealth :
                toHealth' = toHealth \ {p} /\ UNCHANGED <<toRestart, failed>>
           \/ \E d \in toRestart :
                toRestart' = toRestart \ {d} /\ UNCHANGED <<toHealth, failed>>
           \/ \E p \in failed :
                failed' = failed \ {p} /\ UNCHANGED <<toHealth, toRestart>>
        /\ UNCHANGED <<kernel, up, monitor, engine, cmdline, todo>>

-----------------------------------------------------------------------------
(* Task 3: the three branches of its select, which run to completion.      *)

\* Mutant of CacheCommand: every discovered agent enters the restart engine.
CacheAndRegister == \E d \in toRestart :
  /\ todo = {}
  /\ toRestart' = toRestart \ {d}
  /\ cmdline' = IF d.command = None THEN cmdline
                ELSE [cmdline EXCEPT ![d.pid] = d.command]
  /\ RB!Register(d.pid)
  /\ UNCHANGED <<kernel, up, monitor, todo, toHealth, failed>>

CacheCommand == \E d \in toRestart :
  /\ todo = {}
  /\ toRestart' = toRestart \ {d}
  /\ cmdline' = IF d.command = None THEN cmdline
                ELSE [cmdline EXCEPT ![d.pid] = d.command]
  /\ UNCHANGED <<kernel, up, monitor, engine, todo, toHealth, failed>>

RegisterFailed(p) == /\ todo = {}
                     /\ p \in failed
                     /\ failed' = failed \ {p}
                     /\ RB!Register(p)
                     /\ UNCHANGED <<kernel, up, monitor, cmdline, todo, toHealth,
                                    toRestart>>

\* Mutant of PendingRestarts: agents the engine has no state for are due too.
PendingOrUnknown == {p \in Pid \ resting : attempt[p] < MaxRetries}

PendingRestarts == {p \in Pid : RB!Eligible(p)}

\* The two second timer.  Each turn of the loop makes it anew, so that it
\* fires only when no message has come in for as long; what is still on its
\* way may be many.
StartRound == /\ todo = {}
              /\ todo' = PendingRestarts
              /\ todo' # {}
              /\ UNCHANGED <<kernel, up, monitor, engine, cmdline, messages>>

\* The cached command line, or else what /proc has for the pid by now.
CommandFor(p) == IF cmdline[p] # None THEN cmdline[p]
                 ELSE IF proc[p] = "running" THEN prog[p] ELSE None

Spawn(p, q) ==
  /\ CommandFor(p) # None
  /\ proc[q] = "free"
  /\ proc' = [proc EXCEPT ![q] = "running"]
  /\ prog' = [prog EXCEPT ![q] = CommandFor(p)]
  /\ child' = child \cup {q}
  /\ origin' = [origin EXCEPT ![q] = p]
  /\ cmdline' = IF cmdline[p] = None THEN cmdline
                ELSE [cmdline EXCEPT ![q] = cmdline[p]]

NoSpawn == UNCHANGED <<kernel, cmdline>>

\* Mutant of Restart: only an attempt without a new process is recorded.
RestartCountingFailures(p) ==
  /\ p \in todo
  /\ todo' = todo \ {p}
  /\ \/ RB!Attempt(p) /\ NoSpawn
     \/ UNCHANGED engine /\ \E q \in Pid : Spawn(p, q)
  /\ UNCHANGED <<up, monitor, messages>>

Restart(p) == /\ p \in todo
              /\ todo' = todo \ {p}
              /\ RB!Attempt(p)
              /\ NoSpawn \/ \E q \in Pid : Spawn(p, q)
              /\ UNCHANGED <<up, monitor, messages>>

Rested == /\ \E S \in SUBSET resting : RB!Rested(S)
          /\ UNCHANGED <<kernel, up, monitor, cmdline, todo, messages>>

-----------------------------------------------------------------------------
(* The daemon dies, with everything it keeps in memory, and comes back.    *)
(* Its children go to init, which reaps the zombies, or die with it.  It   *)
(* hydrates the restart engine from state_restart_state, if it reaches the *)
(* database.  upsert_restart_state, the table's only writer, has no caller,*)
(* so that the table is the constant Saved.                                *)

Gone(dead) == {q \in child : q \in dead \/ proc[q] = "zombie"}

Crash == /\ up
         /\ up' = FALSE
         /\ \E dead \in {{}, child} :
              /\ proc' = [q \in Pid |-> IF q \in Gone(dead) THEN "free" ELSE proc[q]]
              /\ prog' = [q \in Pid |-> IF q \in Gone(dead) THEN None ELSE prog[q]]
              /\ origin' = [q \in Pid |-> IF q \in Gone(dead) THEN None ELSE origin[q]]
         /\ child' = {}
         /\ watched' = {} /\ down' = {}
         /\ registered' = {} /\ resting' = {} /\ attempt' = [p \in Pid |-> 0]
         /\ cmdline' = [p \in Pid |-> None]
         /\ todo' = {}
         /\ toHealth' = {} /\ toRestart' = {} /\ failed' = {}

\* record_attempt, replayed, sets last_attempt: the backoff begins anew.
Hydrate == /\ registered' = DOMAIN Saved
           /\ attempt' = [p \in Pid |-> IF p \in DOMAIN Saved THEN Saved[p] ELSE 0]
           /\ resting' = {p \in DOMAIN Saved : Saved[p] > 0}

Boot == /\ ~up
        /\ up' = TRUE
        /\ Hydrate \/ UNCHANGED engine
        /\ todo' = {}
        /\ UNCHANGED <<kernel, monitor, cmdline, messages>>

-----------------------------------------------------------------------------
Next == \/ \E p \in Pid : \/ Launch(p) \/ Exit(p)
                          \/ Discover(p) \/ MonitorAgent(p)
                          \/ AgentDied(p) \/ AgentRecovered(p)
                          \/ RegisterFailed(p) \/ Restart(p)
        \/ Lose \/ CacheCommand \/ StartRound \/ Rested \/ Crash \/ Boot

Spec == Init /\ [][Next]_vars

(* The tasks of a running daemon keep running.  StartRound is fair although*)
(* every message puts its two second timer off: messages come in bursts,   *)
(* since discovery sleeps five seconds after each scan, and the timer fires*)
(* between two of them.                                                    *)
OrchestratorFairness == /\ WF_vars(\E p \in Pid : Restart(p))
                        /\ WF_vars(StartRound)
                        /\ WF_vars(Rested)

MonitorFairness == \A p \in Pid : WF_vars(AgentDied(p))

OrchestratorSpec == Spec /\ OrchestratorFairness
MonitorSpec      == Spec /\ MonitorFairness
-----------------------------------------------------------------------------
(* A daemon makes at most MaxRetries copies of an agent that died, however *)
(* often pids are reused and the death is reported again.                  *)
Copies(p) == {q \in Pid : origin[q] = p /\ q \in child}

CopiesWithinBudget == \A p \in Pid : Cardinality(Copies(p)) <= attempt[p]

(* A dead agent whose failure got through is replaced, or all the attempts *)
(* it is due are made.                                                     *)
DeadIsReplacedOrGivenUp ==
  \A p \in Pid : p \in registered
                   ~> (Copies(p) # {} \/ attempt[p] = MaxRetries \/ ~up)

(* Once an agent has a running replacement, it is not replaced again.      *)
OneReplacementPerAgent == \A p \in Pid : Cardinality(Copies(p)) <= 1

(* A monitored process that crashes is reported dead, the replacements the *)
(* daemon itself has started included.                                     *)
CrashIsReported ==
  \A p \in Pid : (p \in watched /\ proc[p] # "running")
                   ~> (p \in down \/ proc[p] = "running" \/ ~up)
=============================================================================
