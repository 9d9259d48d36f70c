---------------------------- MODULE DecisionPolicy ----------------------------
(***************************************************************************)
(* crates/decision without its state: the default policy and how a context *)
(* is judged by a list of policies.  The optional conditions of a rule are *)
(* the sets of values they let pass; a condition that is absent lets all   *)
(* pass.  A risk score is a number from 0 to 100.                          *)
(***************************************************************************)
EXTENDS Naturals, Sequences

CONSTANT AgentPid   \* the agents that Tasks 6 and 7 of the daemon share

ASSUME AgentPidAssumption == "none" \notin AgentPid

AnomalyTypes == {"NewDestination", "TrafficSpike", "OutboundSpike",
                 "ActivityTimeAnomaly", "FingerprintDrift", "ConnectionCountSpike"}

Actions == {"Allow", "Flag", "Block", "Restart", "Escalate"}

\* What an anomaly message or a test gives to evaluate.  far: the deviation
\* is given and at least 20; multi: the correlation MultiAgentRiskEscalation.
Contexts == [risk : 0..100, type : AnomalyTypes \cup {"none"},
             dest : {"none", "known", "new"}, far : BOOLEAN, multi : BOOLEAN]

\* is_new_dest is false when there is no destination: it then counts as known.
NotNew == {"none", "known"}

Anything == [risk |-> 0..100, type |-> AnomalyTypes \cup {"none"},
             dest |-> {"none", "known", "new"}, far |-> BOOLEAN, multi |-> BOOLEAN]

Rule(action, priority, conditions) ==
  [action |-> action, priority |-> priority, conditions |-> conditions]

\* default_policies, "destination_security".
DestinationSecurity ==
  { Rule("Allow",    10, [Anything EXCEPT !.risk = 0..20, !.dest = NotNew]),
    Rule("Flag",     50, [Anything EXCEPT !.risk = 21..80, !.dest = {"new"}]),
    Rule("Restart",  70, [Anything EXCEPT !.risk = 41..100, !.type = {"FingerprintDrift"}]),
    Rule("Escalate", 80, [Anything EXCEPT !.risk = 51..100, !.multi = {TRUE}]),
    Rule("Block",    90, [Anything EXCEPT !.risk = 81..100]),
    Rule("Block",    95, [Anything EXCEPT !.risk = 51..100, !.type = {"OutboundSpike"},
                                          !.far = {TRUE}]) }

MatchesRule(conditions, c) == \A k \in DOMAIN c : c[k] \in conditions[k]

Matching(rules, c) == {r \in rules : MatchesRule(r.conditions, c)}

\* The first of the rules when they are sorted by descending priority.
FirstOf(rules) == CHOOSE r \in rules : \A q \in rules : q.priority <= r.priority

\* policies is the list of the active policies' rules in the order in which
\* they were added.
SomeRuleMatches(policies, c) == \E i \in DOMAIN policies : Matching(policies[i], c) # {}

MatchedAction(policies, c) ==
  LET first == CHOOSE i \in DOMAIN policies :
                 /\ Matching(policies[i], c) # {}
                 /\ \A j \in 1..(i - 1) : Matching(policies[j], c) = {}
  IN FirstOf(Matching(policies[first], c)).action

\* evaluate without overrides: the default is to allow.
Evaluate(policies, c) ==
  IF SomeRuleMatches(policies, c) THEN MatchedAction(policies, c) ELSE "Allow"
=============================================================================
