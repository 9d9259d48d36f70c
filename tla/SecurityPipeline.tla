--------------------------- MODULE SecurityPipeline ---------------------------
(***************************************************************************)
(* Tasks 6, 7 and 8 of the daemon from a connection to a signal: the       *)
(* security loop (network tracker, profiles, baseline, risk, fingerprints, *)
(* anomalies), the decision on each anomaly and what the runtime does.     *)
(*                                                                         *)
(* Abstractions: a destination is an address with port and protocol, and   *)
(* none is one of the names that are always allowed.  On Linux the tracker *)
(* counts no bytes: the two spikes, which compare bytes, are never found   *)
(* and left out.  One message stands for the equal ones of a cycle.  The   *)
(* hours of the day are two choices: whether the hour is unusual for the   *)
(* agent, and whether it differs from the last cycle's.  The days are those*)
(* of the wall clock, which may be set forward and back.                   *)
(***************************************************************************)
EXTENDS DecisionPolicy, Integers, FiniteSets, SequencesExt

CONSTANTS Dest, RequiredDays, RequiredSamples,
          DayWidth,      \* 2^32: days_observed is an u32
          MaxDays,       \* bound of the days between now and a registration
          MaxAnomalies   \* bound of the queue in front of Task 7

\* Addresses, ports and protocols are of fixed width.
ASSUME SecurityAssumption ==
  /\ {RequiredDays, RequiredSamples, DayWidth, MaxDays, MaxAnomalies} \subseteq Nat
  /\ DayWidth > MaxDays
  /\ IsFiniteSet(Dest)

VARIABLES sockets,    \* destinations each process is connected to
          heard,      \* pids in the channel of AGENT_DISCOVERED
          seen,       \* NetworkTracker.seen_destinations
          agent,      \* AgentProfileManager: baseline, known destinations, risk
          prints,     \* FingerprintManager: destinations of the last entry
          days,       \* days from each pid's registration to now, by the clock
          anomalies,  \* messages on their way to Task 7
          decision,   \* DECISION_MADE on its way to Task 8
          gated,      \* safe mode or recommendation only
          clockSet,   \* history: pids registered when the clock was set
          acted       \* history: pids with a decision other than Allow

calendar == <<days, clockSet>>
secVars  == <<sockets, heard, seen, agent, prints, calendar, anomalies, decision,
              gated, acted>>

States == {"Learning", "Training", "Established"}
Unregistered == [state |-> "none", samples |-> 0, known |-> {}, risk |-> 0]
Fresh == [Unregistered EXCEPT !.state = "Learning"]
Registered == {p \in AgentPid : agent[p].state # "none"}

AtMost(n, bound) == IF n > bound THEN bound ELSE n

Anomaly  == [pid : AgentPid, type : {"NewDestination", "FingerprintDrift"}, risk : 0..100]
Decision == [pid : AgentPid, type : {"NewDestination", "FingerprintDrift"}, risk : 0..100,
             action : Actions]

NoPrint == {"none"}
NoDecision == [pid |-> "none", type |-> "none", risk |-> 0, action |-> "none"]

SecurityTypeOK ==
  /\ sockets \in [AgentPid -> SUBSET Dest] /\ heard \subseteq AgentPid
  /\ seen \in [AgentPid -> SUBSET Dest]
  /\ agent \in [AgentPid -> [state : States \cup {"none"}, samples : 0..RequiredSamples,
                        known : SUBSET Dest, risk : 0..100]]
  /\ prints \in [AgentPid -> (SUBSET Dest) \cup {NoPrint}]
  /\ days \in [AgentPid -> -MaxDays..MaxDays] /\ clockSet \subseteq AgentPid
  /\ anomalies \in Seq(Anomaly) /\ Len(anomalies) <= MaxAnomalies
  /\ decision \in Decision \cup {NoDecision}
  /\ gated \in BOOLEAN /\ acted \subseteq AgentPid

SecurityInit ==
  /\ sockets = [p \in AgentPid |-> {}] /\ heard = {} /\ seen = [p \in AgentPid |-> {}]
  /\ agent = [p \in AgentPid |-> Unregistered]
  /\ prints = [p \in AgentPid |-> NoPrint]
  /\ days = [p \in AgentPid |-> 0] /\ clockSet = {}
  /\ anomalies = <<>> /\ decision = NoDecision
  /\ gated \in BOOLEAN /\ acted = {}

-----------------------------------------------------------------------------
(* The host.                                                               *)

task  == <<heard, seen, agent, prints, calendar, anomalies, decision, acted>>

Connect(p, d) == /\ sockets' = [sockets EXCEPT ![p] = @ \cup {d}]
                 /\ UNCHANGED <<task, gated>>

Disconnect(p, d) == /\ sockets' = [sockets EXCEPT ![p] = @ \ {d}]
                    /\ UNCHANGED <<task, gated>>

\* The process of a pid ends and the kernel gives its pid to another one.
Replace(p) == /\ sockets' = [sockets EXCEPT ![p] = {}]
              /\ UNCHANGED <<task, gated>>

\* The discovery loop announces a pid, be it new or not.
Announce(p) == /\ heard' = heard \cup {p}
               /\ UNCHANGED <<sockets, seen, agent, prints, calendar, anomalies,
                              decision, acted, gated>>

\* The clock moves by n days, on its own or because it is set.
ClockMoves(n) == /\ \A p \in Registered : days[p] + n \in -MaxDays..MaxDays
                 /\ days' = [p \in AgentPid |-> IF p \in Registered THEN days[p] + n ELSE 0]
                 /\ UNCHANGED <<sockets, heard, seen, agent, prints, anomalies,
                                decision, acted, gated>>

NextDay == ClockMoves(1) /\ UNCHANGED clockSet

SetClock(n) == ClockMoves(n) /\ clockSet' = clockSet \cup Registered

\* Task 1 handles a message of the API: see ModeGate.
SetMode == /\ gated' = ~gated
           /\ UNCHANGED <<task, sockets>>

-----------------------------------------------------------------------------
(* AgentProfileManager.                                                    *)

\* num_days() as u32: days before the registration become a great many.
DaysObserved(d) == IF d < 0 THEN d + DayWidth ELSE d

\* Mutant of Learn: a day more than the learning phase is not waited for.
LearnWithoutTraining(state, samples, d) ==
  IF state # "Established" /\ DaysObserved(d) >= RequiredDays /\ samples >= RequiredSamples
  THEN "Established" ELSE state

\* BaselineLearning::record_sample: at most one step at a time.
Learn(state, samples, d) ==
  LET observed == DaysObserved(d)
  IN CASE state = "Learning" /\ observed >= RequiredDays
                             /\ samples >= RequiredSamples -> "Training"
       [] state = "Training" /\ observed >= RequiredDays + 1 -> "Established"
       [] OTHER -> state

\* Mutant of CanAlert: only the learning phase is silent.
CanAlertInTraining(a) == a.state # "Learning"

CanAlert(a) == a.state = "Established"

\* record_destination.
WithDestination(a, d) == [a EXCEPT !.known = @ \cup {d}]

\* is_time_anomaly: it depends on the hours of all the agent's activity.
UnusualHour == BOOLEAN

\* new_destination_found is given the number of all known destinations.
Points(before, after, unusual) ==
  (IF after = before THEN 0 ELSE AtMost(15 * Cardinality(after), 40))
  + (IF unusual THEN 20 ELSE 0)

\* record_network_activity for one connection: destination, baseline, risk.
RecordActivity(a, c) ==
  LET samples == AtMost(a.samples + 1, RequiredSamples)
      b       == [WithDestination(a, c.dest) EXCEPT !.samples = samples,
                                             !.state = Learn(a.state, samples, c.days)]
  IN IF CanAlert(b)
     THEN [b EXCEPT !.risk = AtMost(@ + Points(a.known, b.known, c.unusual), 100)]
     ELSE b

-----------------------------------------------------------------------------
(* FingerprintManager and AnomalyDetector.                                 *)

\* A builder is given one sample a turn: the destinations tell two prints
\* apart, the hour is the turn's, and no bytes are measured.
PrintOf(now) == now

\* The old print is kept in the history; the builder begins anew.
Finalize(p, now) == prints' = [prints EXCEPT ![p] = PrintOf(now)]

\* detect_drift over the last two fingerprints, times the number of the
\* older one's destinations: destinations, port (the tracker's count of
\* destinations stands in for one) and hours.
Drifts(p, now, newHour) ==
  /\ prints[p] # NoPrint
  /\ LET before == prints[p]
         size   == IF before = {} THEN 1 ELSE Cardinality(before)
         port   == IF Cardinality(now) = Cardinality(before) THEN 0 ELSE 20
         hour   == IF newHour THEN 20 ELSE 0
     IN 30 * Cardinality(now \ before) + (port + hour) * size >= 30 * size

\* check_new_destination asks a list of names whether it holds an address:
\* each destination ever seen is new again in each cycle.
NewDestinations(p, a, now) ==
  IF ~CanAlert(a) \/ now = {} THEN <<>>
  ELSE <<[pid |-> p, type |-> "NewDestination", risk |-> a.risk]>>

FingerprintDrift(p, a, now, newHour) ==
  IF ~CanAlert(a) \/ ~Drifts(p, PrintOf(now), newHour) THEN <<>>
  ELSE <<[pid |-> p, type |-> "FingerprintDrift", risk |-> a.risk]>>

Found(p, a, now, newHour) ==
  NewDestinations(p, a, now) \o FingerprintDrift(p, a, now, newHour)

\* A publish that fails is logged, and the next one is tried.
Parts(found) == {<<>>, found} \cup {<<found[i]>> : i \in DOMAIN found}

\* What /proc/net/tcp and the inodes behind the descriptors in /proc give.
Connected(p) == sockets[p]

\* Mutant of Collected: the sockets are read after the profiles are fed.
CollectedLater(p) == seen[p]

\* register_connection: a destination that was seen is never forgotten.
Collected(p) == seen[p] \cup Connected(p)

\* get_connections_for_pid after prune_stale_connections: what is connected,
\* and what was closed within a minute.
Tracked(p, stale) == Connected(p) \cup stale

\* One turn of Task 6 for the agents that are registered: stale connections
\* of the last minute may still be tracked.
Cycle(p, tracked, unusual, newHour) ==
  LET start == IF agent[p] = Unregistered THEN Fresh ELSE agent[p]
      now   == Collected(p)
      feed  == [i \in DOMAIN tracked |->
                  [dest |-> tracked[i], days |-> days[p], unusual |-> unusual]]
      a     == FoldLeft(RecordActivity, start, feed)
      found == Found(p, a, now, newHour)
  IN /\ p \in Registered \cup heard
     /\ heard' = heard \ {p}
     /\ seen' = [seen EXCEPT ![p] = now]
     /\ agent' = [agent EXCEPT ![p] = a]
     /\ Finalize(p, now)
     /\ \E sent \in Parts(found) : /\ Len(anomalies) + Len(sent) <= MaxAnomalies
                                   /\ anomalies' = anomalies \o sent
     /\ UNCHANGED <<sockets, calendar, decision, gated, acted>>

\* The tracker collects the connections of every process, registered or not.
CollectOthers(p) == /\ p \notin Registered
                    /\ seen' = [seen EXCEPT ![p] = Collected(p)]
                    /\ UNCHANGED <<sockets, heard, agent, prints, calendar, anomalies,
                                   decision, gated, acted>>

\* The order in which the connections are fed is that of a hash map.
Orders(S) == {s \in [1..Cardinality(S) -> S] : IsInjective(s)}

Turn == \E p \in AgentPid, unusual \in UnusualHour, newHour \in BOOLEAN :
          \E stale \in SUBSET (seen[p] \ Connected(p)) :
            \E tracked \in Orders(Tracked(p, stale)) :
              Cycle(p, tracked, unusual, newHour)

-----------------------------------------------------------------------------
(* Tasks 7 and 8.                                                          *)

\* The message names no destination.
ContextOf(m) == [risk |-> m.risk, type |-> m.type, dest |-> "none",
                 far |-> FALSE, multi |-> FALSE]

Decide == /\ anomalies # <<>> /\ decision = NoDecision
          /\ LET m == Head(anomalies)
                 action == Evaluate(<<DestinationSecurity>>, ContextOf(m))
             IN /\ decision' = [pid |-> m.pid, type |-> m.type, risk |-> m.risk,
                                action |-> action]
                /\ acted' = IF action = "Allow" THEN acted ELSE acted \cup {m.pid}
          /\ anomalies' = Tail(anomalies)
          /\ UNCHANGED <<sockets, heard, seen, agent, prints, calendar, gated>>

\* Restart kills the process, its restart is Task 3's.  Block needs a
\* destination, and DECISION_MADE has none.
Execute == /\ decision # NoDecision
           /\ decision' = NoDecision
           /\ IF decision.action = "Restart" /\ ~gated
              THEN sockets' = [sockets EXCEPT ![decision.pid] = {}]
              ELSE UNCHANGED sockets
           /\ UNCHANGED <<heard, seen, agent, prints, calendar, anomalies, gated, acted>>

Lost == /\ anomalies # <<>>
        /\ anomalies' = Tail(anomalies)
        /\ UNCHANGED <<sockets, heard, seen, agent, prints, calendar, decision,
                       gated, acted>>

-----------------------------------------------------------------------------
SecurityNext == \/ \E p \in AgentPid, d \in Dest : Connect(p, d) \/ Disconnect(p, d)
                \/ \E p \in AgentPid : Replace(p) \/ Announce(p) \/ CollectOthers(p)
                \/ NextDay \/ SetMode
                \/ \E n \in -MaxDays..MaxDays : SetClock(n)
                \/ Turn \/ Decide \/ Execute \/ Lost

SecuritySpec == SecurityInit /\ [][SecurityNext]_secVars
-----------------------------------------------------------------------------
(* An agent whose baseline is still learned has no risk, is reported by no *)
(* anomaly and judged by no decision, whatever is on its way and in        *)
(* whatever order its connections are fed.                                 *)
SilentWhileLearning ==
  \A p \in AgentPid : agent[p].state # "Established" =>
     /\ agent[p].risk = 0
     /\ \A i \in DOMAIN anomalies : anomalies[i].pid # p
     /\ decision.pid # p
     /\ p \notin acted

(* An agent is established only after its samples, and, unless the clock   *)
(* was set meanwhile, only a day after the learning phase.                 *)
EstablishedAfterTraining ==
  \A p \in AgentPid : agent[p].state = "Established" =>
     /\ agent[p].samples = RequiredSamples
     /\ p \in clockSet \/ days[p] > RequiredDays

(* The learning phase lasts for its days, and training for one more: no    *)
(* baseline is established while the clock is not past both.               *)
TrainingTakesItsDays ==
  [][\A p \in AgentPid : agent[p].state # "Established" /\ agent'[p].state = "Established"
                            => days[p] > RequiredDays]_secVars

(* What is judged was observed: the destinations of a profile are among    *)
(* those the tracker has seen, and the latest fingerprint is what it had   *)
(* seen in the agent's last turn.                                          *)
ProfileWasSeen == \A p \in Registered :
                    agent[p].known \subseteq seen[p] /\ prints[p] = seen[p]
=============================================================================
