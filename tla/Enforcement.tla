----------------------------- MODULE Enforcement -----------------------------
(***************************************************************************)
(* DecisionEngine and EnforcementManager, which Task 7 of the daemon feeds *)
(* with anomalies: overrides by a human, decisions, the lists of blocked   *)
(* destinations and the incidents.                                        *)
(*                                                                         *)
(* Abstractions: a decision's id is its place in the list of recorded      *)
(* decisions, 0 for one that is not recorded; time passes in ticks and an  *)
(* expiry is the number of ticks left, Forever if there is none; of an     *)
(* override's action only its effect is kept, of the incidents how many    *)
(* are open.                                                               *)
(***************************************************************************)
EXTENDS DecisionPolicy, FiniteSets, SequencesExt

CONSTANTS Domain,         \* destinations by name
          Known,          \* Task 7's known destinations
          Defaults,       \* the default block list
          Samples,        \* the contexts that are enumerated
          Term,           \* ticks a temporary block lasts
          Lifetime,       \* ticks an override lasts that expires
          MaxDecisions, MaxOverrides, MaxOpen   \* bounds of the lists

ASSUME EnforcementAssumption == /\ {Term, Lifetime, MaxDecisions, MaxOverrides, MaxOpen} \subseteq Nat
                                /\ Known \subseteq Domain /\ Defaults \subseteq Domain /\ Defaults # {}
                                /\ Samples \subseteq Contexts

NoDest  == "no destination"   \* unwrap_or_default: the empty string
Targets == Domain \cup {NoDest}
Forever == Lifetime + 1

\* Approve and TemporaryAllow allow, Reject and TemporaryBlock block,
\* Override flags.
OverrideActions == {"Allow", "Block", "Flag"}

VARIABLES policies,    \* names of the policies, in the order they are tried
          version,     \* version of each policy
          decided,     \* decisions: the pids of the recorded decisions
          overrides,   \* decision, action, ticks left
          blockList, tempBlock,   \* NetworkEnforcementEngine
          open,        \* how many enforcement incidents are open
          last,        \* what evaluate was asked and returned at last
          standing     \* history: the order a human gave last for each pid,
                       \* by an override of one of its decisions

enfVars == <<policies, version, decided, overrides, blockList, tempBlock,
             open, last, standing>>

Names == {"destination_security", "flag_all"}
RulesOf(name) == IF name = "destination_security" THEN DestinationSecurity
                 ELSE {Rule("Flag", 1, Anything)}
Rules == [i \in DOMAIN policies |-> RulesOf(policies[i])]

NoOrder == [action |-> "none", left |-> 0, recorded |-> FALSE]

EnforcementTypeOK ==
  /\ policies \in Seq(Names) /\ IsInjective(policies)
  /\ version \in [Names -> Nat]
  /\ decided \in Seq(AgentPid) /\ Len(decided) <= MaxDecisions
  /\ overrides \in Seq([decision : 0..MaxDecisions, action : OverrideActions, left : 0..Forever])
  /\ blockList \subseteq Targets /\ tempBlock \in [Targets -> 0..Term]
  /\ open \in 0..MaxOpen
  /\ standing \in [AgentPid -> [action : OverrideActions \cup {"none"}, left : 0..Forever,
                       recorded : BOOLEAN]]

\* with_lists: an empty list falls back to the defaults.
Recovered(list) == IF list = {} THEN Defaults ELSE list

EnforcementInit ==
  /\ policies = <<"destination_security">>
  /\ version = [n \in Names |-> IF n = "destination_security" THEN 1 ELSE 0]
  /\ decided = <<>> /\ overrides = <<>> /\ open = 0
  /\ \E list \in SUBSET Domain : blockList = Recovered(list)
  /\ tempBlock = [t \in Targets |-> 0]
  /\ last = [pid |-> "none"]
  /\ standing = [p \in AgentPid |-> NoOrder]

-----------------------------------------------------------------------------
(* DecisionEngine.                                                         *)

\* Mutant of AddPolicy: the policy's earlier version stays.
AddPolicyAgain(n) ==
  /\ version' = [version EXCEPT ![n] = IF Contains(policies, n) THEN @ + 1 ELSE 1]
  /\ policies' = Append(policies, n)
  /\ UNCHANGED <<decided, overrides, blockList, tempBlock, open, last, standing>>

Retain(s, n) == FoldLeft(LAMBDA kept, m : IF m = n THEN kept ELSE Append(kept, m), <<>>, s)

AddPolicy(n) ==
  /\ version' = [version EXCEPT ![n] = IF Contains(policies, n) THEN @ + 1 ELSE 1]
  /\ version'[n] <= 2   \* bound
  /\ policies' = Append(Retain(policies, n), n)
  /\ UNCHANGED <<decided, overrides, blockList, tempBlock, open, last, standing>>

Targeted(o, p) == o.decision \in DOMAIN decided /\ decided[o.decision] = p

Unexpired(o) == o.left > 0

InForce(p) == {i \in DOMAIN overrides : Targeted(overrides[i], p) /\ Unexpired(overrides[i])}

\* Mutant of FindOverride: the oldest override is found, not the newest.
FindOldest(p) == overrides[CHOOSE i \in InForce(p) : \A j \in InForce(p) : i <= j]

FindOverride(p) == overrides[CHOOSE i \in InForce(p) : \A j \in InForce(p) : j <= i]

IsOverridden(p, c) == SomeRuleMatches(Rules, c) /\ InForce(p) # {}

Outcome(p, c) == IF IsOverridden(p, c) THEN FindOverride(p).action
                 ELSE Evaluate(Rules, c)

\* A decision that was overridden is returned and not recorded.
Record(p, c) == decided' = IF IsOverridden(p, c) THEN decided ELSE Append(decided, p)

\* The caller has the id of the decision evaluate returned last, or of one
\* that get_decisions lists.
CreateOverride(id, action, left) ==
  /\ Len(overrides) < MaxOverrides
  /\ overrides' = Append(overrides, [decision |-> id, action |-> action, left |-> left])
  /\ LET p == IF id = 0 THEN last.pid ELSE decided[id]
     IN standing' = [standing EXCEPT ![p] = [action |-> action, left |-> left,
                                               recorded |-> id # 0]]
  /\ UNCHANGED <<policies, version, decided, blockList, tempBlock, open, last>>

Override == \E action \in OverrideActions, left \in {Lifetime, Forever} :
              \/ \E id \in DOMAIN decided : CreateOverride(id, action, left)
              \/ last.pid # "none" /\ last.overridden /\ CreateOverride(0, action, left)

-----------------------------------------------------------------------------
(* NetworkEnforcementEngine and the incidents.                          *)

IsBlocked(t) == t \in blockList \/ tempBlock[t] > 0

DestinationsOf(c) == IF c.dest = "none" THEN {NoDest}
             ELSE {d \in Domain : c.dest = IF d \in Known THEN "known" ELSE "new"}

\* enforce_network: the block is temporary and goes into the list as well.
EnforceNetwork(action, t) ==
  IF action = "Block"
  THEN blockList' = blockList \cup {t} /\ tempBlock' = [tempBlock EXCEPT ![t] = Term]
  ELSE UNCHANGED <<blockList, tempBlock>>

\* Task 7 on an anomaly: evaluate and execute.
HandleAnomaly(p, c) ==
  /\ IsOverridden(p, c) \/ Len(decided) < MaxDecisions
  /\ open < MaxOpen
  /\ Record(p, c)
  /\ \E t \in DestinationsOf(c) : EnforceNetwork(Outcome(p, c), t)
  /\ open' = open + 1
  /\ last' = [pid |-> p, outcome |-> Outcome(p, c), order |-> standing[p],
              matched |-> SomeRuleMatches(Rules, c), overridden |-> IsOverridden(p, c)]
  /\ UNCHANGED <<policies, version, overrides, standing>>

ResolveIncident == /\ open > 0
                   /\ open' = open - 1
                   /\ UNCHANGED <<policies, version, decided, overrides, blockList,
                                  tempBlock, last, standing>>

RemoveFromBlockList(t) ==
  /\ blockList' = blockList \ {t}
  /\ UNCHANGED <<policies, version, decided, overrides, tempBlock, open, last, standing>>

RemoveTempBlock(t) ==
  /\ tempBlock' = [tempBlock EXCEPT ![t] = 0]
  /\ UNCHANGED <<policies, version, decided, overrides, blockList, open, last, standing>>

Sooner(left) == IF left \in 1..Lifetime THEN left - 1 ELSE left

EnforcementTick ==
  /\ tempBlock' = [t \in Targets |-> IF tempBlock[t] > 0 THEN tempBlock[t] - 1 ELSE 0]
  /\ overrides' = [i \in DOMAIN overrides |-> [overrides[i] EXCEPT !.left = Sooner(@)]]
  /\ standing' = [p \in AgentPid |-> [standing[p] EXCEPT !.left = Sooner(@)]]
  /\ UNCHANGED <<policies, version, decided, blockList, open, last>>

EnforcementNext ==
  \/ \E n \in Names : AddPolicy(n)
  \/ Override
  \/ \E p \in AgentPid, c \in Samples : HandleAnomaly(p, c)
  \/ ResolveIncident
  \/ \E t \in Targets : RemoveFromBlockList(t) \/ RemoveTempBlock(t)
  \/ EnforcementTick

EnforcementSpec == EnforcementInit /\ [][EnforcementNext]_enfVars
-----------------------------------------------------------------------------
Ordered == last.pid # "none" /\ last.matched /\ last.order.left > 0

(* While an override that names a recorded decision of an agent has not    *)
(* expired and is the latest for that agent, each decision a policy makes  *)
(* on the agent is the human's: it persists over decisions that are        *)
(* themselves not recorded, and over new versions of the policies.         *)
RecordedOverridesDecide ==
  Ordered /\ last.order.recorded => last.outcome = last.order.action

(* The comment in find_override: overrides persist across re-evaluations,  *)
(* whichever of the agent's decisions the human has overridden.            *)
OverridesPersist == Ordered => last.outcome = last.order.action
=============================================================================
