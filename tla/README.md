# Omnisec in TLA+

TLA+ modules of the Omnisec daemon and of the services around it, the TLC configurations that
check them on small instances, and TLAPS proofs for every value of the constants. Paths and lines
are those of the repository; `PROJECT.json` maps each definition to the lines it translates.

## 1. The system

| Component | State | Operations | Interacts with | Hard part | What makes it correct |
|---|---|---|---|---|---|
| Discovery (`crates/discovery`, daemon Task 1) | none | scan `/proc` every 5 s, publish each pid | NATS `AGENT_DISCOVERED` | pids are reused; nothing filters by confidence | every live pid is announced again and again |
| Health monitor (`crates/monitoring`) | status per pid, failure count, CPU readings | register, unregister, set state, `check_health` | the kernel, Task 2 | the check races with processes | no false death, deaths and recoveries alternate, verdict = what was told |
| Health task (daemon Task 2) | gauges, channel of pids | drain, check, publish, sleep | NATS, `/metrics` | events over many awaits | every death and hang is reported; gauges not too low |
| Restart engine (`crates/monitoring`) | attempts, last attempt, cooldown per pid | register, unregister, pending, record, recover | Task 3 | a list that ages while it is worked through; overflow | retry limit, backoff, cooldown |
| Restart orchestrator (daemon Task 3) | cached command lines | three branches of a `select!`, spawn | NATS `AGENT_FAILED`, kernel | lost messages, partial failure, crash of the daemon | only the dead are restarted, within the budget, and they are |
| Operational mode (API handler, daemon listener, runtime gate) | API mode, database row, two atomics | set mode, listen, load | Postgres, NATS, Task 8 | concurrent requests, torn flags, restarts | daemon and row follow the API; a decision is gated as some mode in force says |
| Security pipeline (Task 6; `security`, `network`, `anomaly`, `fingerprint`) | destinations seen, profiles, baseline, risk, fingerprints, last correlation | register, observe, score, correlate | `/proc/net`, NATS, Postgres | learning phases over days of a wall clock; a pid that changes its process | silent while it learns; what is judged was observed; every escalation reported once |
| Decisions and enforcement (Task 7; `decision`, `enforcement`) | policies, recorded decisions, overrides, block lists, incidents | evaluate, execute, override | NATS `DECISION_MADE` | overrides that expire, decisions that are not recorded | the human's order decides |
| Runtime (Task 8; `crates/runtime`) | rules, cgroups, tracked processes, units, recoverable actions, watches, audit | block, contain, quarantine, auto-recover | kernel, systemd | expiry by a wall clock, repeated targets, kernel and record apart, restarts | what is blocked for a time is unblocked after it and not before; no process is stopped and forgotten |
| Kernel stream and identity (Task 9; `ebpf`, `identity`) | ring, previous scan, identities, pid map, known agents | exec, exit, fork, announcement, import | kernel, discovery | two channels in any order, dropped records, records read at wrong offsets, pid reuse | a pid counts as an agent's only while its end will be told |
| Alerts (Task 4, `crates/alerts`) | dedup ring, last send per channel | send with retries | Telegram, Slack, webhook, email | deduplicated before sent; lock held over sleeps | no message taken up twice within the ring's size, each tried until it is answered or the tries are used up |
| Enforcement lists (API, `crates/state`) | memory of the API, table | add, remove, sync, restart | Postgres, Task 7 at its start | two locks, no transaction | a call nobody interferes with takes effect in both |
| Reliability (`crates/reliability`) | samples per detector, incidents, dependency graph | sample, detect; open, resolve, cascade | API | windows, clocks set back, gaps in the readings | a verdict is about the readings it is given |
| Proxy (`services/proxy`) | Redis cache and counters | get, ask, set, count | upstream | concurrent misses, entries that expire | a hit is a recent success |
| Audit (Task 5), policy engine, other API handlers, storage, dashboard, tools | little or none | | | | |

The tasks of the daemon share no memory except the gauges (`DaemonState`), the two mode flags and
the alert manager. Everything else goes through NATS core subjects, which deliver at most once.

## 2. What is modelled

| Module | Models | Relation |
|---|---|---|
| `FailureDetector` | what the health monitor promises: down only while the kernel has no such pid | abstract |
| `HealthMonitor` | `HealthMonitor` of `crates/monitoring`, with the kernel's process table | implements `FailureDetector` |
| `HealthTask` | daemon Task 2 around it | EXTENDS `HealthMonitor`, whose operations it calls |
| `RestartBudget` | what the restart engine promises, without a clock | abstract |
| `RestartEngine` | `RestartState`, `RestartEngine`, with seconds | implements `RestartBudget` |
| `Supervision` | daemon Tasks 1 to 3, NATS, kernel, crash of the daemon | composes `FailureDetector` and `RestartBudget` |
| `SupervisionHistory` | `Supervision` with a history variable | EXTENDS it |
| `ModeGate` | API handler, database row, NATS, listener, gate of Task 8 | |
| `RuntimePipeline` | daemon Task 8: blocks and their recovery, the file monitor, the `select!` | |
| `Containment` | signals, cgroup, tracked processes and audit of `crates/runtime` | |
| `ServiceControl` | `SystemdControlEngine` over the states of units | |
| `DecisionPolicy` | how `crates/decision` judges a context: rules, priorities, default policy | pure operators |
| `Enforcement` | `DecisionEngine`, `EnforcementManager`, daemon Task 7 | EXTENDS `DecisionPolicy` |
| `SecurityPipeline` | daemon Tasks 6, 7 and 8 from a connection to a signal | EXTENDS `DecisionPolicy` |
| `Correlation` | `CorrelationEngine` | |
| `KernelStream` | daemon Task 9: sensor, `/proc` fallback, `AgentIdentityEngine` | |
| `AlertManager` | `crates/alerts` and daemon Task 4 | |
| `ListSync` | the API's dynamic lists in memory and database | |
| `ResponseCache` | the AI proxy's requests and its cache | |
| `Detectors` | the five detectors of `crates/reliability` | |
| `Loops_proofs`, `RestartEngine_proofs`, `SupervisionHistory_proofs`, `ModeGate_proofs`, `Analysis_proofs`, `Stores_proofs`, `Control_proofs` | the theorems (section 6) | EXTEND the modules they are about |
| `InductionTheorems` | induction over numbers, sets and folds, for the proofs | EXTENDED by the proofs that need it |
| `MC*` | constant values and symmetry for TLC; `MCLoops`, `MCEngineAndMode` and `MCPipelines` put parts into one run that share no state, `MCHealthTask` the worlds its liveness is checked in | EXTEND their modules |

`Supervision` uses the two abstract modules and not the concrete ones. That is sound for its
safety properties because the concrete ones are shown to implement them (sections 4 and 6), and
it keeps the composition small: no thresholds, CPU readings or seconds.

### HealthMonitor

A pid is `free`, `running` or `zombie` in the kernel's table. `kill(pid, 0)` succeeds unless it
is free (`ProcessAlive`): the daemon runs as root, for another user EPERM would count as dead, too. `check_health` is split: `BeginCheck` takes the list of pids, and each
`Visit` of one pid is a step, in any order (a `HashMap`), between which processes start, work, exit and
are reaped. `SeenAlive`, `SeenUnreadable` and `SeenGone` are its three outcomes; the
second is the process that vanishes between `kill` and the read of its stat file. `Handle` is the
caller taking one of the returned events; the next check does not begin before that is done,
because the daemon's loop is sequential. `report` is a history variable: the last death or
recovery raised for a pid. `Unregister` leaves the CPU readings behind, as the code does.

### HealthTask

`phase` is the place in the loop, `inbox` the unbounded channel of forwarded pids. `Publish`
handles one event; only a death has the failed agents counted (main.rs:346), a recovery does not
(351-376). The early `continue` on an error of `check_health` is not modelled: it never fails.

### RestartEngine

One state per pid; `now` is a counter of seconds, the resolution of `next_backoff`. The product in
`next_backoff` is taken modulo `Wrap`. `PendingRestarts` fixes the list; `Tick` may come
between it and each `RecordAttempt`. `Hydrated` are the counts that Task 3 replays at its start.
`should_restart` is the membership test of `PendingRestarts`. `Unregister` and `MarkRecovered`,
which the daemon never calls, are modelled as operations of the crate.

### Supervision

A process table with the command each pid runs, the children of the daemon, the two sets of
discovery messages, one per subscriber, and the failures under way. `Lose` drops any message.
`Restart` is the body of the timer's loop: the attempt is counted, then there is a new process or
there is none. It takes a free pid, so that pids are reused. A child that exits becomes a zombie
(`spawn_process` forgets the `Child`); other processes are taken to be reaped by their parents.
`Crash` empties everything in memory; the children survive or die with the daemon, and init reaps
what is left. `Boot` hydrates the engine from the restart table, if it reaches the database (main.rs:430-437): the agents of
`Saved`, with their attempts, their backoff beginning anew. The table is a constant, because nothing calls its writer,
`upsert_restart_state`; what rows it has, of whatever origin, is left open.

### ModeGate

A request holds the API's write lock over `Acquire`, `Persist` and `Publish`. `mailbox` is the
subject as the daemon's subscription sees it: in order, with gaps. The listener's two stores are
`ReceiveMode` and `StoreRec`; the reader's two loads happen in either order, since they are
`Relaxed`. `inForce` and `verdicts` are history: whether the mode in force gates, and the
answers of all modes in force while the current decision is handled; a mode is in force from its
first store on, the old one until the second. `SetConfig` is `POST /api/config/{key}` for the mode's row: it waits for
the lock, writes any value, and neither the API's mode nor the daemon follows. `stored` is history: who wrote the row last.

### RuntimePipeline

`DecideBlock` is a Block decision that passes the gate (`ModeGate`): nft may fail, the record
of the rule and the entry for recovery are made in any case. `Periodic` is the timer's branch: `AutoRecover`,
then the file monitor is drained. `AutoRecover` marks the *first* entry of each destination that has an
expired one, as the code does with its search by type and target, done or not. The timer is made anew in each turn of the
`select!`, so every decision sets `idle` to zero. Blocks expire by the wall clock (`clock`), which goes on with `Tick` and
may be set to any reading (`SetClock`). `DaemonRestart` loses the records and the recovery list and leaves the kernel's chain, to
which a block under way may have been added. An access to a file whose watch descriptor is not in the map, as the
event of a full queue, is reported under the path `wd:N` (`Unmapped`). `lifted` is history: what was published as rolled back
since the last block. `Unblock` lists the chain and deletes nothing. A watch of a file that is replaced ends with it.

### Containment and ServiceControl

A process is stopped by name of the state it is stopped in; a signal to a pid without a process is lost. `tracked` is a list
with several entries per pid, of which updates change the first. `Contain` names a cgroup of the agent's own
and moves the pid into the one that exists; `Release` removes a path nobody makes. `quarantine` is three steps, between
which `StartedByOthers` may come; each command may fail without notice. `confined` and `raced` are history.

### DecisionPolicy, Enforcement, SecurityPipeline

A condition of a rule is the set of values it lets pass, an absent one all values; the first match by descending
priority decides. In `Enforcement` overrides name decisions by their place in the list of recorded ones, 0 for a
decision that was returned and not recorded, which is what an overridden decision is. `HandleAnomaly` is the body of
Task 7: evaluate, record, execute, incident. `standing` is history: the last order a human gave for each agent.

`SecurityPipeline` follows one message through Tasks 6, 7 and 8. `AGENT_DISCOVERED` registers an agent, a turn of the
loop feeds each connection to tracker, profile, fingerprint and anomaly detector and advances the baseline
(`Learning`, `Training`, `Established`). `DECISION_MADE` is built without a destination, as in main.rs:1284,
so that Task 8 never blocks what the daemon itself decides. `days` are the days from a registration to now by the wall
clock, which may be set (`SetClock`); the baseline is given their number cast to an unsigned one of `DayWidth` (`DaysObserved`).
The tracker follows pids that are not registered, too (`CollectOthers`). Bytes are not measured on Linux, so that the
spikes of bytes cannot occur and are left out.

### Correlation, Detectors

`Analyze` compares a snapshot of all agents with the previous one only. Averages are compared by products, without
division. A global alert cannot be raised (`GlobalBranchIsDead`). `Detectors` keeps one list of readings for all five detectors; a reading says how many seconds it comes
after the one before by a clock that may be set back, and a figure that could not be read is 0. Five detectors are modelled, and one, that
of leaks, has a property that is checked; the verdicts of the others are an average or a comparison each.

### KernelStream

Two modes: ring buffers with the fields the eBPF programs really fill, dropping what finds the ring full: no parent at
exec, no child's pid at clone, and for the pid of an exec or exit what is at offset 8 of the record, which is the place of the
file's name or the first bytes of the process's name (any pid, or `Stray`). `OtherRecord` is a record without a change
of the processes: exit fires for each thread, exec for a process that goes over to another program. Or the fallback's scans, whose events come in the order of a
hash set. Discovery's announcements come over a channel of their own. `unseen` is history: pids registered
while the sensor did not watch them, or whose exit the ring had no room for.

### AlertManager, ListSync, ResponseCache

One alert at a time, under the manager's lock, over its sleeps: `Take`, attempts, `Report`. An attempt that fails may have
got through. `effort` is history: the tries of the alert taken up last for each channel. `ListSync`: a call changes memory under one lock and writes rows under another, one by one; calls
may fail and the API may restart in between; a call is `alone` if no other was on the same entry meanwhile.
`ResponseCache`: requests look up, ask, store and count, each step interleaved with those of others; an entry has an age
and the time it has left.

## 3. What each run shows

| Run | Checks | Shows | Bounds |
|---|---|---|---|
| `health_monitor` | `TypeOK`, `VerdictMatchesReports`, `DeathsAndRecoveriesAlternate`, `ImplementsFailureDetector` | the events tell the whole story, under every interleaving of check and kernel | 2 pids, both thresholds 2, 1 CPU tick |
| `health_task` | `TaskTypeOK`, `FailedNeverUnderReported`, `GoneIsReported`, `HungIsFlagged` | the loop uses the monitor properly, reports every death and flags a process that works and then stops | 2 pids, thresholds 2, and either no CPU ticks or one process with 2 |
| `engine_and_mode`, engine | `TypeOK`, `WithinBudget`, `AttemptsAreSpaced`, `CooldownIsRespected`, `ImplementsRestartBudget` | limit, backoff and cooldown hold although the list ages | 2 pids, one hydrated with 2 attempts; backoff 1 to 3 s, cooldown 2 s, 3 retries, 12 s |
| `engine_and_mode`, mode | `ModeTypeOK`, `DaemonFollowsApi`, `DatabaseFollowsApi`, `HeldBackOnlyIfGated` | the changes reach the row and the daemon in the order the API made them, as long as nobody else writes the row; nothing is held back for no reason | 3 modes, 2 requests at a time, 2 messages, `OMNISEC_SAFE_MODE` set |
| `supervision` | `HistoryTypeOK`, `OnlyTheDeadAreRestarted`, `CopiesWithinBudget` | no restart without a death of this daemon's own finding or a row of the restart table, no uncounted copy | 2 pids, 1 program, 2 retries, 1 row |
| `loops` | `RuntimeTypeOK`, `DeadIsReplacedOrGivenUp`, `PeriodicWorkIsDone` | a death that got through is acted upon, through all the backoffs; blocks are reported as lifted after their time, if the decisions pause now and then and the clock is not set back | 1 pid, 3 retries, 1 row; 1 destination, 2 blocks, expiry 1 and timer 2 ticks, clock up to 4 |
| `pipelines` | `TypeOK` and thirteen invariants, listed below | ten parts that share no state | see below |
| `supervision_copies` | `OneReplacementPerAgent`, violated | finding 1 | 3 pids |
| `supervision_zombie` | `CrashIsReported`, violated | finding 2 | 2 pids, 1 retry |
| `mode_gate_torn` | `CarriedOutOnlyIfEnforcing`, violated | finding 3 | as `engine_and_mode` |
| `runtime_unblock` | `LiftedIsUnblocked`, violated | finding 4 | 1 destination, 2 blocks |
| `supervision_counts` | `RestartCountsSurvive`, violated | finding 5 | 2 pids, 2 retries, no row |
| `kernel_ends` | `EndsAreTold`, violated | finding 6 | as `KernelStream` below |

`pipelines`, `loops` and `engine_and_mode` put parts that share no state into one run: the initial state chooses a part, and only
its actions are taken, so that the states are the sum and not the product. What `pipelines` checks:

| Part | Invariant | Hazard it is about | Instance |
|---|---|---|---|
| `Enforcement` | `RecordedOverridesDecide` | an overridden decision is not recorded, and policies get new versions under an order | 2 contexts, 2 overrides, 1 recorded decision |
| `SecurityPipeline` | `SilentWhileLearning`, `EstablishedAfterTraining`, `ProfileWasSeen` | what is on its way while a baseline advances | 1 agent, 2 destinations, 1 day and 2 samples, a clock within 2 days of the registration, days of width 16 |
| `Correlation` | `EscalationsAreReported` | one chance to report | 4 agents, 3 kinds of activity, 2 hours |
| `Containment` | `StoppedIsTracked` | several entries per pid, reused pids | 2 pids, 3 entries |
| `ServiceControl` | `QuarantinedStaysDown` | starts between the three commands, boots | 2 units, 3 actions |
| `AlertManager` | `NoRepeatWithinCapacity`, `TriedUntilAnswered` | retries, failures, requests that come again or come meanwhile | 3 messages, a ring of 2, 3 tries |
| `ResponseCache` | `HitsAreRecentSuccesses` | concurrent misses that overwrite each other | 2 requests, 1 key, time to live 2 |
| `ListSync` | `ListsFollowTheCalls` | calls between the two writes of a call | 2 calls, 1 entry |
| `KernelStream` | `KnownAreWatched` | scans and announcements in any order, reused pids | 2 pids, 2 events, 2 identities |
| `Detectors` | `LeakIsSteadyGrowth` | intervals that are passed over | 4 kinds of reading, window 3 |

Why the bounds are enough. Health: the pids do not influence each other except through the
pending list and the events, so two show every interplay; a threshold of 2 separates the first
failure, which only warns, from the last, and one CPU tick separates a process that works from
one that hangs. `health_task` has two worlds, to keep its liveness graph small: two processes that use no CPU time after
their start, and one that works between idle checks. Restart: 12 s hold all
three attempts with their backoffs, a recovery with its cooldown and the attempts after it.
Supervision: a replacement needs one pid beside the dead one; when the dead one's number is
free it is taken for the replacement itself; `loops` has that case alone, with three retries. Modes: two requests at a time
show every order of assignment, write and publication; two messages are enough for one to overtake
the handling of another. Blocks: with two blocks a destination is blocked again
before or after the first expires. Days: 16 values of the counter hold the two days on either side of a registration and, as
2^32 does, make of a negative number a great one.
Enforcement: one recorded decision is what an override needs to name, two overrides are what a newer and an older
order need. Alerts: three messages are one more than the ring holds. Cache: two requests are enough for one to
overwrite the other's entry while a third hit reads it in the same slot. Lists: entries are independent but for the
order of the rows of one call, so that one entry in two lists shows every order of two calls.
Kernel: with two pids one may be the other's parent, and two events fill the ring.
The bounds in guards are `MaxTicks`, `MaxTime`, `MaxClock`, `MaxDays`, `MaxAttempt`, `MaxMail`, `MaxBlocks`, `MaxTracked`, `MaxActions`,
`MaxDecisions`, `MaxOverrides`, `MaxOpen`, `MaxAnomalies`, `MaxQueue`, `MaxCount`, `MaxDelay`, `MaxEvents` (of the fallback's
channel; of the ring it is the real size), `MaxAnnounced`, `MaxIds`, and two versions of a policy. `engine_and_mode`
runs without the deadlock check because its time ends at `MaxTime`, `pipelines` because some of its parts end at the bounds
of their lists.

Each property of a passing run has a mutant in its module, an operator with the same parameters
marked `Mutant of`, which makes the run fail: a guard dropped, a reset missing, a lock not held.

### Findings

1. A replaced agent is replaced again and again, up to `max_retries`: Task 3 tells the engine of no
   success (main.rs:515-542), so its cooldown (monitoring lib.rs:74) never starts.
2. A replacement that crashes is never reported: it stays a zombie, for which signal 0 succeeds.
3. Between safe and recommendation the gate is open for a moment: two stores and two loads
   make one mode (apps/api main.rs:1184 says that the daemon updates atomically).
4. A block whose time is over is published as rolled back and stays in the kernel (recovery.rs:3 says that
   everything is reversible).
5. A daemon that comes back knows nothing of the attempts before, because the restart table has no writer (the header of
   crates/state says that operational state survives restarts, restart counts included).
6. With the eBPF programs, the end of an agent is told of another pid or of none: the program on `sched_process_exit` reads
   offset 8 of the record, where the process's name is (ebpf-bpf lib.rs:110). The agent is known for ever.

Statements of the documentation, or of what the code is evidently meant to do, that the modules define and that do not hold.
No run and no proof is about them, and the hazards they stand for are not caught:

| Definition | Why it fails |
|---|---|
| `ModeGate!ModeSurvivesApiRestart` | the API starts from its environment, not from the row it stored (apps/api main.rs:1205 says that it survives) |
| `ModeGate!DaemonFollowsApi` without `OMNISEC_SAFE_MODE` | the API then starts in safe mode, the daemon in enforcement |
| `RuntimePipeline!LiftedOnlyAfterExpiry` | a destination that is blocked again is published as rolled back when its first block expires |
| `RuntimePipeline!RoundsRecoverAll` | the first entry of the destination is marked again, the expired one never; it is published in every round |
| `RuntimePipeline!BlocksAreRecoverable` | the rules outlive the daemon in the kernel, the list of recoverable actions does not |
| `SecurityPipeline!TrainingTakesItsDays` | with the clock set back behind a registration the days wrap to a huge number, and two samples later the baseline is established (security lib.rs:338) |
| `Correlation!AllSpikingIsGlobal` | who is above three times the average is among less than a third of the agents (correlation.rs:14, 151 and a test at 567 say otherwise) |
| `Enforcement!OverridesPersist` | an override of a decision that was itself overridden names one that is not recorded |
| `Correlation!ShiftsAreSignificant` | the hours are compared as numbers: from 23 to 0 is a shift of 23 |
| `ServiceControl!QuarantinedIsDown` | the unit may be started between stop and mask; mask stops nothing |
| `RuntimePipeline!PeriodicRecovery` | decisions that come faster than the timer starve it, with all the fairness assumed |
| `AlertManager!SentIsDelivered` | a duplicate of an alert whose tries all failed is reported as sent (alerts lib.rs:98) |
| `ListSync!MemoryIsDatabase` | a failed row or a restart leaves the two apart |
| `KernelStream!ExitedPidsAreInvalid` | `record_exit` keeps the pid's entry |
| `KernelStream!ParentsAreAgents` | pid 0 gets an identity, by the system call number read in place of a pid |
| `Detectors!RunawayIsSustained` | the duration is cast to an unsigned number and wraps when the clock is set back |

Observed while modelling: after a recovery the gauge
`omnisec_agent_failed` stays too high until the next death (main.rs:351-376); discovery announces
every process of the host and Task 3 restarts whichever exits, whatever its confidence, and reads the parent from the
wrong field; without
`OMNISEC_SAFE_MODE` the daemon starts in enforcement (main.rs:116) while the API shows safe and
README.md:89 gives `1` as the default; with unlimited retries the backoff wraps to zero
from attempt 63 on (monitoring lib.rs:114); the Block decisions of the daemon name no destination (main.rs:1284) and block
nothing; a process with the pid of an earlier one inherits its baseline, established or not; an enforcement incident that is open is never resolved and is audited again every five seconds (main.rs:1389);
`release` removes a cgroup nobody creates; watches of replaced files are not renewed; alerts queue without bound while
the manager's lock is held over sleeps; the names of two counters of the proxy hold a number, so that nobody reads them;
an entry added to an empty list in the database replaces the defaults at the daemon's next start; in `crates/reliability`
any transition of an incident is allowed, a recovery that is recorded twice counts the downtime twice, the mean time to
recovery is never computed, and a leak limit above ten can never be reached.

## 4. Refinement

- `HealthMonitor` implements `FailureDetector`: `watched` is the set of registered pids, `down` those
  whose `alive` is false. Checked and proved.
- `RestartEngine` implements `RestartBudget`: an agent rests while its cooldown or backoff runs.
  A tick that ends some of the waits is `Rested`. Checked, and proved for a limited number of retries.

## 5. Fairness

- `TaskFairness` (`HealthTask`): the loop has no exit, so each of its steps is weakly fair. Two
  assumptions are strong. The channel runs empty again and again: a scan is followed by
  five seconds of sleep and draining is a matter of microseconds. And a process that lives on is read
  again and again: `/proc/<pid>/stat` is unreadable only while the process goes away.
- `OrchestratorFairness` (`Supervision`): the orchestrator's loop and the passing of time. The
  two second timer is made anew in each turn of the `select!`, so a steady stream of messages
  would starve it; discovery sends in bursts five seconds apart, between which it fires.
  Nothing is assumed of messages, processes or the daemon: each may be lost, exit or crash.
- `RuntimeFairness` (`RuntimePipeline`): time passes, and the timer's branch, which `select!` may pass over when a decision is
  there at the same moment, is taken in the end if it is due again and again. That it is due at all is the
  hypothesis `Pauses` of `PeriodicWorkIsDone` and not assumed: decisions that come faster starve it.
- `LoopFairness` (`MCLoops`): `OrchestratorFairness` or `RuntimeFairness`, for the loop the initial state has chosen.
- `MonitorFairness`: a monitor that sees a pid free declares it down. Finding 2 is a counterexample
  although this is assumed.

## 6. What is proved

All theorems hold for every set of pids, requests and modes and for every threshold and limit.

| Module | Theorems | Argument |
|---|---|---|
| `Loops_proofs`: `HealthMonitor` | types; verdict = reports; deaths and recoveries alternate; `ImplementsFailureDetector` | The verdict alone is not inductive: the branch for a hung process revives an agent and raises nothing. The strengthening is that an agent that is not alive has no CPU reading left, so that its first reading finds no difference of zero and cannot be taken for a hang. |
| `Loops_proofs`: `HealthTask` | types; `FailedNeverUnderReported` | The gauge holds between rounds because of what holds inside one: if it is too low, a death is still in the list of events, and the list is empty when the round ends. Each step of the loop is one of the monitor or leaves it alone (`StepIsMonitorStep`), so that the monitor's invariant holds in it. |
| `Loops_proofs`: `RuntimePipeline` | types | Marking entries and losing the list keep it a list of at most `MaxBlocks`; what is published are destinations of its entries. |
| `RestartEngine_proofs` | types; `WithinBudget`; `CooldownIsRespected`; `AttemptsAreSpaced`; `ImplementsRestartBudget` | What makes an agent pending stays true until its attempt is recorded: nothing but time changes in between, and time only ends waits. The backoff is exact because `Pow2` grows (`Pow2Grows`, by induction) and its largest product fits. |
| `SupervisionHistory_proofs` | types; `OnlyTheDeadAreRestarted`; `CopiesWithinBudget` | The agents down, the failures under way and the engine's agents are all among those reported or, after a boot, those with a row. The number of copies grows only with an attempt; the finiteness of the set of copies is carried along. |
| `ModeGate_proofs` | types; `DatabaseFollowsApi`; `DaemonFollowsApi`; `HeldBackOnlyIfGated`; `CarriedOutOnlyIfEnforcing` | The lock belongs to exactly the request under way, and that request asks for the API's mode. What was written over the row is told apart by `stored`. The newest mode is the last message, or else the listener's, or else the flags'. A flag that is up was put up for a mode that gates, and the reader counts that mode. |
| `Analysis_proofs`: `Correlation` | types; `GlobalBranchIsDead`; `EscalationsAreReported` | The total of a snapshot is a fold, and each agent above three times the average adds more than three averages to it (`OutliersWeigh`, by induction on the set): *k* of them among *n* need 3*k* < *n*, while a global alert needs 10*k* > 7*n*. What is excused and reported since the entry before covers all high risks. |
| `Analysis_proofs`: `Detectors` | types; `LeakIsSteadyGrowth` | The count of `detect_leak` is a fold over the window; after *m* intervals it is at least *j*, exactly if the last *j* of them were growth (`LeakingIsSteadyGrowth`, by induction on *m*). An interval that starts at 0 is passed over and resets nothing, which is harmless: the interval that led to the 0 was no growth and has reset the count. |
| `Analysis_proofs`: `SecurityPipeline` | types; `SilentWhileLearning`; `EstablishedAfterTraining`; `ProfileWasSeen` | A profile is trained (`ProfilesAreTrained`): without a risk until it is established, and established only with its samples and, if no clock was set since the registration, its days: then they never were negative. The connections of a cycle are a fold in any order (`FeedKeepsProfile`); each of them keeps the profile trained, within what the tracker saw, and established once it was. So whatever is raised, decided or done is about an established agent. |
| `Stores_proofs`: `ResponseCache`, `ListSync` | types; `HitsAreRecentSuccesses`; `ListsFollowTheCalls` | Age and remaining time of an entry add up to at most the time to live and one request's delay. What is counted and what may still be counted stay in bounds (`CountsFit`). The memory is as a call left it, as long as that call is alone (`AloneCallsStand`). |
| `Stores_proofs`: `AlertManager` | types; `NoRepeatWithinCapacity`; `TriedUntilAnswered` | The ring is the newest `Capacity` entries of the channel's log (`RingsAreNewest`), so that a message that is not in it is unlike the `Capacity` entries before it; the log keeps these and the new one. What `send_inner` is at and what it has tried go together: the alert under way is that of `sending`, at its attempt. |
| `Stores_proofs`: `KernelStream` | types; `KnownAreWatched` | The types of the identities rest on the order of the list: ancestors precede their children, so that an identity's depth stays below its index (`IdentitiesSound`). A scan reports every process that is there (`ListingsAreComplete`: a duplicate-free list as long as the set has all its elements), so that with the scans a known agent is found when it is gone; with the ring nothing of the kind holds (finding 6). |
| `Control_proofs`: `Enforcement` | types (no policy twice); `RecordedOverridesDecide` | The standing order of an agent is its latest override in the list (`StandingIsLatest`), overrides name decisions that exist, and expiry ends both at once; `find_override` takes the same one. That `add_policy` leaves no second version is `RetainDropsName`, by induction on the list. |
| `Control_proofs`: `Containment`, `ServiceControl` | types; `StoppedIsTracked`; `QuarantinedStaysDown` | Every stop appends an entry, and updates of the first entry are only made with signals that end the stop. A confined unit is masked, and while a quarantine has succeeded so far its unit is down or was started by others (`QuarantineOnItsWay`). |
| `Control_proofs`: `MCPipelines` | types of all parts | A step of one part leaves the others' variables unchanged, so that the conjunction of the ten invariants is inductive (`StepOfEachPart`). |

Induction. The theorems of the library on induction take a predicate, which the installed backends cannot instantiate.
`InductionTheorems` states them with sets in place of predicates: a set of numbers with 0 and every successor is `Nat`
(`NatSetInduction`), from the well-foundedness of the numbers; with it the greatest element of a bounded set, that a fold of
the community modules exists, stays in its range (`FoldExists`), is unique and can be reasoned about by induction on its set
(`FoldUnique`, `FoldInduction`), and that a recursive function on the numbers satisfies its equation (`NatRecursion`).

Assumptions. Those on the constants are the `ASSUME`s of the modules, which TLC evaluates in the runs.
They say that the sets which the code keeps in memory are finite (destinations, snapshots, pids, the proxy's
requests), that there are at least as many identities as pids are followed, and that `"none"` and `"down"`, which stand for
no process, are no pids.
Some theorems carry hypotheses of their own: `AttemptsSpaced` and `EngineImplementsRestartBudget` that
the largest product of `next_backoff` fits its type (`NothingWraps`), and the latter that the retries are
limited and backoff and cooldown are not zero; `MCEngineAndMode` has TLC check them for its instance, and they
hold for the daemon's configuration (2 s, 300 s, 5 retries, 30 s: 2 * 2^5 is far below 2^64). `DaemonFollows` supposes that
`OMNISEC_SAFE_MODE` is set and `OMNISEC_RECOMMENDATION_ONLY` is not: otherwise daemon and API start
in different modes. `CarriedOutInEnforcement` supposes that only safe and enforcement are used;
finding 3 shows that it fails with the third mode. The proofs about `HealthTask` suppose that the pids are finite
in number.

Only model-checked: the liveness properties (`GoneIsReported`, `HungIsFlagged`, `PeriodicWorkIsDone`,
`DeadIsReplacedOrGivenUp`), because TLAPS has no ENABLED, so that fairness is out of its reach. Every invariant, action property
and refinement of the passing runs is proved.

## 7. What is not modelled, and the plan

Not modelled and not planned: SQL statements, HTTP handlers that read, the dashboard, statistics in floating point, the restart
crate and the policy engine, which nothing uses, and tools that run once. `PROJECT.json` gives the reason
for each. Of the parts modelled partly, what is left out is what no task of the daemon acts upon: the classification of
frameworks, the process tree and the pid history, checks of executables and files nobody calls, spikes of
bytes that are not measured on Linux, incidents and averages of the reliability crate.

Planned, most important first:

1. That `Supervision` takes no step on its engine and its monitor but those of `RestartBudget` and `FailureDetector`, apart
   from a crash and a boot, and that the properties of the history hold of it, as theorems.
2. Action properties of the parts that have only invariants: a policy's version, an established baseline and a listed
   identity are never taken back.
3. An abstract specification of a block for a time, which `RuntimePipeline` would implement if `auto_recover` removed the rule.
4. `IncidentEngine` and `DependencyMonitor` with the API's handlers that resolve incidents.
