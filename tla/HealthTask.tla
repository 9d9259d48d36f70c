----------------------------- MODULE HealthTask -----------------------------
(***************************************************************************)
(* Task 2 of the daemon: the loop that owns the HealthMonitor.  It drains  *)
(* the channel of discovered pids, runs check_health, publishes what the   *)
(* check raised, and keeps the three agent gauges that /health and         *)
(* /metrics serve.                                                         *)
(*                                                                         *)
(* Abstractions: the channel is a set, because a second registration of a  *)
(* pid changes nothing; the NATS messages themselves are the business of   *)
(* Supervision.                                                            *)
(***************************************************************************)
EXTENDS HealthMonitor, FiniteSets

ASSUME FinitePids == IsFiniteSet(Pid)

VARIABLES phase,        \* where the loop is
          inbox,        \* pids forwarded to agent_rx and not yet received
          agentCount,   \* DaemonState.agent_count
          aliveCount,   \* DaemonState.alive_count
          failedCount   \* DaemonState.failed_count

gauges   == <<agentCount, aliveCount, failedCount>>
taskVars == <<vars, phase, inbox, gauges>>

TaskTypeOK == /\ TypeOK
              /\ phase \in {"drain", "check", "publish", "sleep"}
              /\ inbox \subseteq Pid
              /\ {agentCount, aliveCount, failedCount} \subseteq 0..Cardinality(Pid)

TaskInit == /\ Init
            /\ phase = "drain"
            /\ inbox = {}
            /\ agentCount = 0 /\ aliveCount = 0 /\ failedCount = 0

-----------------------------------------------------------------------------
KernelStep == /\ \E p \in Pid : Kernel(p)
              /\ UNCHANGED <<phase, inbox, gauges>>

\* Discovery lists every pid under /proc and the forwarder queues it.
Forward(p) == /\ ProcessAlive(p)
              /\ inbox' = inbox \cup {p}
              /\ UNCHANGED <<vars, phase, gauges>>

\* Mutant of NewAgentCount: one more for each message.
OneAgentMore == agentCount + 1

NewAgentCount == Cardinality(agents')

Drain(p) == /\ phase = "drain"
            /\ p \in inbox
            /\ Register(p)
            /\ inbox' = inbox \ {p}
            /\ agentCount' = NewAgentCount
            /\ UNCHANGED <<phase, aliveCount, failedCount>>

StartCheck == /\ phase = "drain"
              /\ inbox = {}
              /\ IF agents = {} THEN phase' = "publish" /\ UNCHANGED vars
                                ELSE phase' = "check" /\ BeginCheck
              /\ UNCHANGED <<inbox, gauges>>

CheckOne(p) == /\ phase = "check"
               /\ Visit(p)
               /\ phase' = IF todo' = {} THEN "publish" ELSE "check"
               /\ UNCHANGED <<inbox, gauges>>

\* Mutant of FailedCountAfter: only recoveries have the failed counted anew.
FailedCountAfterRecovery(e) == IF e.kind = "AgentRecovered"
                               THEN Cardinality(FailedCount) ELSE failedCount

FailedCountAfter(e) == IF e.kind = "AgentDied"
                       THEN Cardinality(FailedCount) ELSE failedCount

\* A death is published three times over (failed, alert, restart), and only
\* then are the failed agents counted anew; a recovery counts nothing.
Publish(e) == /\ phase = "publish"
              /\ Handle(e)
              /\ failedCount' = FailedCountAfter(e)
              /\ UNCHANGED <<phase, inbox, agentCount, aliveCount>>

CountAlive == /\ phase = "publish"
              /\ events = {}
              /\ aliveCount' = Cardinality(AliveCount)
              /\ phase' = "sleep"
              /\ UNCHANGED <<vars, inbox, agentCount, failedCount>>

WakeUp == /\ phase = "sleep"
          /\ phase' = "drain"
          /\ UNCHANGED <<vars, inbox, gauges>>

TaskNext == \/ KernelStep
            \/ \E p \in Pid : Forward(p) \/ Drain(p) \/ CheckOne(p)
            \/ StartCheck \/ CountAlive \/ WakeUp
            \/ \E e \in events : Publish(e)

TaskSpec == TaskInit /\ [][TaskNext]_taskVars

(* The loop never ends.  The channel runs empty again and again, although  *)
(* discovery goes on filling it, since a scan is followed by five seconds  *)
(* of sleep; and a stat file is unreadable only while its process          *)
(* disappears, so that a process that stays is read again and again.       *)
TaskFairness == /\ WF_taskVars(\E p \in Pid : Drain(p))
                /\ SF_taskVars(\E p \in Pid : Drain(p) /\ inbox' = {})
                /\ SF_taskVars(StartCheck)
                /\ \A p \in Pid : /\ WF_taskVars(CheckOne(p))
                                   /\ SF_taskVars(CheckOne(p) /\ SeenAlive(p))
                /\ WF_taskVars(\E e \in events : Publish(e))
                /\ WF_taskVars(CountAlive)
                /\ WF_taskVars(WakeUp)

FairTaskSpec == TaskSpec /\ TaskFairness
-----------------------------------------------------------------------------
(* Between two rounds the failed gauge may be too high, never too low: the *)
(* count taken at the last death of a round already includes every agent   *)
(* that round found dead.                                                  *)
FailedNeverUnderReported ==
  phase = "sleep" => failedCount >= Cardinality(FailedCount)

(* An agent whose pid stays free is reported dead in the end.              *)
GoneIsReported ==
  \A p \in Pid : (p \in agents /\ proc[p] = "free")
                   ~> (proc[p] # "free" \/ report[p] = "died")

(* A process that stops using the CPU is flagged in the end, unless it     *)
(* disappears first.                                                       *)
HungIsFlagged ==
  \A p \in Pid :
    (p \in agents /\ proc[p] = "running" /\ ticks[p] = MaxTicks)
      ~> (proc[p] # "running" \/ [kind |-> "AgentUnhealthy", pid |-> p] \in events)
=============================================================================
