----------------------------- MODULE Correlation -----------------------------
(***************************************************************************)
(* CorrelationEngine, which Task 6 feeds with a snapshot of every agent in *)
(* each of its turns.                                                      *)
(*                                                                         *)
(* Abstractions: of the history the last entry is kept, no other is read;  *)
(* the agents of one turn share its hour, which is the peak hour.          *)
(***************************************************************************)
EXTENDS Integers, FiniteSets, FiniteSetsExt

CONSTANTS Agent, Endpoint,
          Snapshots,   \* the snapshots that are enumerated
          Hours

Snapshot == [rateIn : Nat, rateOut : Nat, risk : 0..100, dests : SUBSET Endpoint, active : BOOLEAN]

ASSUME CorrelationAssumption ==
         /\ Hours \subseteq 0..23
         /\ \A S \in Snapshots : /\ DOMAIN S \subseteq Agent /\ IsFiniteSet(DOMAIN S)
                                 /\ Cardinality(DOMAIN S) >= 2
                                 /\ \A a \in DOMAIN S : S[a] \in Snapshot

VARIABLES prior,     \* the last entry of the history: snapshots and hour
          found,     \* the alerts of the last analysis
          reported,  \* history: agents whose risk was reported to escalate
                     \* since it was 50 or less
          excused    \* history: agents that were idle, or the only active
                     \* ones, when their risk rose above 50

corVars == <<prior, found, reported, excused>>

NoEntry == [snap |-> <<>>, hour |-> -1]
AlertTypes == {"GlobalTrafficSpike", "IndividualTrafficSpike", "GlobalOutboundSpike",
               "IndividualOutboundSpike", "MultiAgentRiskEscalation", "RiskEscalation",
               "SharedNewDestination", "GlobalTimePatternShift"}

CorrelationTypeOK ==
  /\ prior = NoEntry \/ (prior.snap \in Snapshots /\ prior.hour \in Hours)
  /\ \A alert \in found : alert.type \in AlertTypes /\ alert.agents \in (SUBSET Agent) \ {{}}
  /\ reported \subseteq Agent /\ excused \subseteq Agent

CorrelationInit == prior = NoEntry /\ found = {} /\ reported = {} /\ excused = {}

-----------------------------------------------------------------------------
Alert(type, agents) == [type |-> type, agents |-> agents]

Active(S) == {a \in DOMAIN S : S[a].active}

\* rate is the name of a field of a snapshot.
Total(S, rate) == MapThenSumSet(LAMBDA a : S[a][rate], Active(S))

Outliers(S, rate, floor) ==
  {a \in Active(S) : /\ S[a][rate] * Cardinality(Active(S)) > 3 * Total(S, rate)
                     /\ S[a][rate] > floor}

IsGlobal(S, agents) == 10 * Cardinality(agents) > 7 * Cardinality(Active(S))

Spikes(S, agents, global, individual) ==
  IF agents # {} /\ IsGlobal(S, agents) THEN {Alert(global, agents)}
  ELSE {Alert(individual, {a}) : a \in agents}

TrafficCorrelation(S) ==
  Spikes(S, Outliers(S, "rateIn", 1000), "GlobalTrafficSpike", "IndividualTrafficSpike")

OutboundCorrelation(S) ==
  IF Total(S, "rateOut") < 100 * Cardinality(Active(S)) THEN {}
  ELSE Spikes(S, Outliers(S, "rateOut", 5000), "GlobalOutboundSpike", "IndividualOutboundSpike")

HighRisk(S) == {a \in DOMAIN S : S[a].risk > 50}

\* An agent the last entry does not have counts with a risk of 0.
Escalated(S) == {a \in Active(S) \cap HighRisk(S) : a \notin HighRisk(prior.snap)}

\* Mutant of RiskCorrelation: the newest entry is taken for the one before.
RiskOfNow(S) ==
  (IF Cardinality(Active(S) \cap HighRisk(S)) < 3 THEN {}
   ELSE {Alert("MultiAgentRiskEscalation", Active(S) \cap HighRisk(S))})
  \cup {Alert("RiskEscalation", {a}) : a \in Escalated(S) \ HighRisk(S)}

RiskCorrelation(S) ==
  (IF Cardinality(Active(S) \cap HighRisk(S)) < 3 THEN {}
   ELSE {Alert("MultiAgentRiskEscalation", Active(S) \cap HighRisk(S))})
  \cup (IF prior = NoEntry THEN {}
        ELSE {Alert("RiskEscalation", {a}) : a \in Escalated(S)})

Visitors(S, d) == {a \in Active(S) : d \in S[a].dests}

SharedDestinations(S) == {Alert("SharedNewDestination", Visitors(S, d)) :
                             d \in {e \in Endpoint : Cardinality(Visitors(S, e)) >= 2}}

\* The hours are compared as numbers, not on the clock.
HourDiff(h, g) == IF h > g THEN h - g ELSE g - h

TimeAnomaly(S, hour) ==
  IF prior # NoEntry /\ HourDiff(hour, prior.hour) >= 6
  THEN {Alert("GlobalTimePatternShift", Active(S))} ELSE {}

AlertsOf(S, hour) ==
  IF Cardinality(Active(S)) < 2 THEN {}
  ELSE TrafficCorrelation(S) \cup OutboundCorrelation(S) \cup RiskCorrelation(S)
       \cup SharedDestinations(S) \cup TimeAnomaly(S, hour)

Rising(S) == HighRisk(S) \ HighRisk(prior.snap)

Unheard(S) == IF prior = NoEntry \/ Cardinality(Active(S)) < 2 THEN Rising(S)
              ELSE Rising(S) \ Active(S)

\* analyze, for the two agents or more the daemon calls it with.
Analyze(S, hour) ==
  /\ prior' = [snap |-> S, hour |-> hour]
  /\ found' = AlertsOf(S, hour)
  /\ reported' = (reported \cap HighRisk(S))
                 \cup UNION {alert.agents : alert \in {f \in found' : f.type = "RiskEscalation"}}
  /\ excused' = (excused \cap HighRisk(S)) \cup Unheard(S)

CorrelationNext == \E S \in Snapshots, hour \in Hours : Analyze(S, hour)

CorrelationSpec == CorrelationInit /\ [][CorrelationNext]_corVars
-----------------------------------------------------------------------------
(* correlation.rs: all agents spiking simultaneously is a global spike, and*)
(* a test expects one of five agents above 1000.                           *)
AllSpikingIsGlobal ==
  (/\ prior # NoEntry /\ Cardinality(Active(prior.snap)) >= 2
   /\ \A a \in Active(prior.snap) : prior.snap[a].rateIn > 1000)
    => \E alert \in found : alert.type = "GlobalTrafficSpike"

(* Why AllSpikingIsGlobal fails: who is three times above the average of   *)
(* all is among less than a third of them, and seven of ten are asked for. *)
GlobalBranchIsDead ==
  \A alert \in found : alert.type \notin {"GlobalTrafficSpike", "GlobalOutboundSpike"}

(* An agent whose risk is above 50 has been reported since it rose, unless *)
(* it was idle at that moment, was the only active agent, or it was the    *)
(* first analysis: the comparison with the entry before is the only chance.*)
EscalationsAreReported ==
  prior # NoEntry => HighRisk(prior.snap) \subseteq reported \cup excused

(* correlation.rs: six hours or more are a significant time shift.  From   *)
(* one turn to the next the hours of the clock are at most one apart.      *)
ClockDiff(h, g) == IF HourDiff(h, g) > 12 THEN 24 - HourDiff(h, g) ELSE HourDiff(h, g)

ShiftsAreSignificant ==
  [][(\E alert \in found' : alert.type = "GlobalTimePatternShift")
     => ClockDiff(prior'.hour, prior.hour) >= 6]_corVars
=============================================================================
