--------------------------- MODULE Control_proofs ---------------------------
(***************************************************************************)
(* Proofs about what is decided and done about agents, for any pids, agents*)
(* and units and any bounds; and that all the parts of MCPipelines are well*)
(* typed together.                                                         *)
(*                                                                         *)
(* Enforcement: that a standing order decides rests on its being the latest*)
(* override that names a decision about its agent (StandingIsLatest).      *)
(* Containment: that a stopped process has a record is inductive with the  *)
(* types. That a unit under quarantine stays down is not: it rests on the  *)
(* mask, and on what the commands of a quarantine that is still running    *)
(* have reached (QuarantineOnItsWay).                                      *)
(***************************************************************************)
EXTENDS MCPipelines, Analysis_proofs, Stores_proofs

-----------------------------------------------------------------------------
(* Policies, decisions and overrides.                                      *)

(* The list of policies without one name keeps its elements distinct.      *)
Distinct(s) == \A i, j \in DOMAIN s : s[i] = s[j] => i = j

LEMMA RetainDropsName ==
  ASSUME NEW T, NEW s \in Seq(T), Distinct(s), NEW n
  PROVE  /\ Retain(s, n) \in Seq(T) /\ Distinct(Retain(s, n))
         /\ \A i \in DOMAIN Retain(s, n) : Retain(s, n)[i] # n
<1> DEFINE D == 1..Len(s)
           V == Seq(T)
           Keep(kept, m) == IF m = n THEN kept ELSE Append(kept, m)
           pick == [x \in SUBSET D |-> Max(x)]
           step == [x \in D \X V |-> Keep(x[2], s[x[1]])]
           iter == CHOOSE g : g = [x \in SUBSET DOMAIN s |->
                     IF x = {} THEN <<>> ELSE Keep(g[x \ {Max(x)}], s[Max(x)])]
<1>1. IsFiniteSet(D) /\ DOMAIN s = D /\ Len(s) \in Nat /\ s \in [D -> T]
  BY FS_Interval
<1>2. \A x \in SUBSET D : x # {} => Max(x) \in x /\ \A y \in x : y <= Max(x)
  BY <1>1, MaxOfBounded
<1>3. Picks(D, pick) /\ \A x \in SUBSET D : pick[x] = Max(x)
  BY <1>2 DEF Picks
<1>4. step \in [D \X V -> V]
  <2>1. \A q \in V, i \in D : Keep(q, s[i]) \in V
    <3> HIDE DEF D
    <3> QED BY <1>1
  <2> HIDE DEF V, Keep
  <2> QED BY <2>1
<1>5. Retain(s, n) = iter[D]
  BY <1>1 DEF Retain, FoldLeft, MapThenFoldSet
<1>6. PICK g \in [SUBSET D -> V] : IsFold(g, D, <<>>, pick, step)
  <2>1. <<>> \in V
    OBVIOUS
  <2> HIDE DEF D, V, pick, step, iter
  <2> QED BY <1>1, <1>3, <1>4, <2>1, FoldExists
<1> HIDE DEF Keep
<1>7. g = [x \in SUBSET D |-> IF x = {} THEN <<>> ELSE Keep(g[x \ {Max(x)}], s[Max(x)])]
  <2>1. ASSUME NEW x \in SUBSET D, x # {} PROVE g[x] = Keep(g[x \ {Max(x)}], s[Max(x)])
    <3>1. pick[x] = Max(x) /\ Max(x) \in D /\ g[x \ {Max(x)}] \in V
      BY <1>2, <1>3, <1>6, <2>1
    <3>2. g[x] = step[<<Max(x), g[x \ {Max(x)}]>>]
      BY <1>6, <2>1, <3>1 DEF IsFold
    <3> HIDE DEF V
    <3> QED BY <3>1, <3>2
  <2>2. g[{}] = <<>>
    BY <1>6 DEF IsFold
  <2>3. g = [x \in SUBSET D |-> g[x]]
    BY <1>6
  <2> HIDE DEF D
  <2> QED BY <2>1, <2>2, <2>3
<1>8. iter = [x \in SUBSET D |-> IF x = {} THEN <<>> ELSE Keep(iter[x \ {Max(x)}], s[Max(x)])]
  <2> HIDE DEF D
  <2> QED BY <1>1, <1>7
<1> HIDE DEF iter, D, pick
<1>9. Agree(D, iter, g)
  <2>1. iter[{}] = g[{}]
    BY <1>7, <1>8
  <2>2. ASSUME NEW x \in SUBSET D, x # {}, g[x \ {pick[x]}] = iter[x \ {pick[x]}]
        PROVE  iter[x] = g[x]
    <3>1. pick[x] = Max(x)
      BY <1>3
    <3>2. /\ g[x] = Keep(g[x \ {Max(x)}], s[Max(x)])
          /\ iter[x] = Keep(iter[x \ {Max(x)}], s[Max(x)])
      BY <1>7, <1>8, <2>2
    <3> QED BY <2>2, <3>1, <3>2
  <2>3. SameStep(D, iter, g, pick)
    BY <2>2 DEF SameStep
  <2> QED BY <1>1, <1>3, <2>1, <2>3, FoldUnique
<1>10. Retain(s, n) = g[D] /\ g[D] \in V
  BY <1>5, <1>6, <1>9 DEF Agree
<1> DEFINE F == {x \in SUBSET D : /\ Distinct(g[x])
                                  /\ \A i \in DOMAIN g[x] : /\ g[x][i] # n
                                                            /\ \E k \in x : g[x][i] = s[k]}
<1>11. {} \in F
  <2>1. g[{}] = <<>>
    BY <1>7
  <2> QED BY <2>1 DEF Distinct
<1>12. ASSUME NEW x \in SUBSET D, x # {}, x \ {pick[x]} \in F PROVE x \in F
  <2> DEFINE k == Max(x)
             q == g[x \ {k}]
  <2>1. k \in x /\ k \in D /\ pick[x] = k /\ q \in Seq(T)
    BY <1>2, <1>3, <1>6, <1>12
  <2>2. g[x] = Keep(q, s[k])
    BY <1>7, <1>12
  <2>3. /\ Distinct(q)
        /\ \A i \in DOMAIN q : q[i] # n /\ \E j \in x \ {k} : q[i] = s[j]
    BY <1>12, <2>1
  <2> HIDE DEF k, q
  <2>4. CASE s[k] = n
    <3>1. g[x] = q
      BY <2>2, <2>4 DEF Keep
    <3> QED BY <2>3, <3>1
  <2>5. CASE s[k] # n
    <3>1. g[x] = Append(q, s[k])
      BY <2>2, <2>5 DEF Keep
    <3>2. \A i \in DOMAIN q : q[i] # s[k]
      BY <1>1, <2>1, <2>3 DEF Distinct
    <3>3. s[k] \in T
      BY <1>1, <2>1
    <3>4. /\ DOMAIN g[x] = 1..(Len(q) + 1) /\ DOMAIN q = 1..Len(q) /\ Len(q) \in Nat
          /\ g[x][Len(q) + 1] = s[k]
          /\ \A i \in 1..Len(q) : g[x][i] = q[i]
      BY <2>1, <3>1, <3>3
    <3>5. Distinct(g[x])
      <4>1. ASSUME NEW i \in DOMAIN g[x], NEW j \in DOMAIN g[x], g[x][i] = g[x][j] PROVE i = j
        <5>1. CASE i \in DOMAIN q /\ j \in DOMAIN q
          BY <2>3, <3>4, <4>1, <5>1 DEF Distinct
        <5>2. CASE i \in DOMAIN q /\ j \notin DOMAIN q
          <6>1. j = Len(q) + 1
            BY <3>4, <5>2
          <6> QED BY <3>2, <3>4, <4>1, <5>2, <6>1
        <5>3. CASE i \notin DOMAIN q /\ j \in DOMAIN q
          <6>1. i = Len(q) + 1
            BY <3>4, <5>3
          <6> QED BY <3>2, <3>4, <4>1, <5>3, <6>1
        <5>4. CASE i \notin DOMAIN q /\ j \notin DOMAIN q
          BY <3>4, <5>4
        <5> QED BY <5>1, <5>2, <5>3, <5>4
      <4> QED BY <4>1 DEF Distinct
    <3>6. ASSUME NEW i \in DOMAIN g[x] PROVE g[x][i] # n /\ \E j \in x : g[x][i] = s[j]
      <4>1. CASE i = Len(q) + 1
        BY <2>1, <2>5, <3>4, <4>1
      <4>2. CASE i \in 1..Len(q)
        BY <2>3, <3>4, <4>2
      <4> QED BY <3>4, <4>1, <4>2
    <3> QED BY <3>5, <3>6
  <2> QED BY <2>4, <2>5
<1>13. SUBSET D \subseteq F
  <2>1. Closed(D, F, pick)
    <3> HIDE DEF F
    <3> QED BY <1>12 DEF Closed
  <2> HIDE DEF F
  <2> QED BY <1>1, <1>3, <1>11, <2>1, FoldInduction
<1>14. D \in F
  BY <1>13
<1> QED BY <1>10, <1>14

-----------------------------------------------------------------------------
OverrideRecord == [decision : 0..MaxDecisions, action : OverrideActions, left : 0..Forever]
Order == [action : OverrideActions \cup {"none"}, left : 0..Forever, recorded : BOOLEAN]

(* An override names a decision that is recorded, or none.                 *)
OverridesAreOfDecisions ==
  \A i \in DOMAIN overrides : overrides[i].decision \in DOMAIN decided \cup {0}

(* The order that stands for an agent is its latest override's, as long as *)
(* it is in force and names a recorded decision.                           *)
AimedAt(p, o, ds) == o.decision \in DOMAIN ds /\ ds[o.decision] = p

LatestFor(i, p, os, ds) == /\ i \in DOMAIN os /\ AimedAt(p, os[i], ds)
                           /\ \A j \in DOMAIN os : j > i => ~AimedAt(p, os[j], ds)

StandingIsLatest ==
  \A p \in AgentPid :
    standing[p].recorded /\ standing[p].left > 0
    => \E i \in DOMAIN overrides : /\ LatestFor(i, p, overrides, decided)
                                   /\ overrides[i].action = standing[p].action
                                   /\ overrides[i].left = standing[p].left

EnforcementInv == /\ EnforcementTypeOK /\ OverridesAreOfDecisions /\ StandingIsLatest
                  /\ RecordedOverridesDecide

LEMMA EnforcementBounds ==
  /\ Term \in Nat /\ Lifetime \in Nat /\ MaxDecisions \in Nat /\ MaxOverrides \in Nat /\ MaxOpen \in Nat
  /\ Forever \in Nat /\ Forever = Lifetime + 1 /\ Defaults \subseteq Domain /\ Domain \subseteq Targets
BY EnforcementAssumption DEF Forever, Targets

LEMMA EnforcementInitInv == EnforcementInit => EnforcementInv
<1> SUFFICES ASSUME EnforcementInit PROVE EnforcementInv
  OBVIOUS
<1> USE EnforcementBounds
<1>1. /\ policies = <<"destination_security">>
      /\ version = [n \in Names |-> IF n = "destination_security" THEN 1 ELSE 0]
      /\ decided = <<>> /\ overrides = <<>> /\ open = 0
      /\ tempBlock = [t \in Targets |-> 0] /\ last = [pid |-> "none"]
      /\ standing = [p \in AgentPid |-> NoOrder]
  BY DEF EnforcementInit
<1>2. policies \in Seq(Names) /\ IsInjective(policies)
  BY <1>1 DEF Names, IsInjective
<1>3. blockList \subseteq Targets
  BY DEF EnforcementInit, Recovered
<1>4. standing \in [AgentPid -> Order]
  BY <1>1 DEF NoOrder, Order
<1>5. EnforcementTypeOK
  BY <1>1, <1>2, <1>3, <1>4 DEF EnforcementTypeOK, Order
<1>6. OverridesAreOfDecisions /\ StandingIsLatest
  BY <1>1 DEF OverridesAreOfDecisions, StandingIsLatest, NoOrder
<1>7. RecordedOverridesDecide
  BY <1>1 DEF RecordedOverridesDecide, Ordered
<1> QED BY <1>5, <1>6, <1>7 DEF EnforcementInv

(* What evaluate returns while an order stands is the order.               *)
LEMMA OrdersDecide ==
  ASSUME EnforcementInv, NEW p \in AgentPid, NEW c, SomeRuleMatches(Rules, c),
         standing[p].recorded, standing[p].left > 0
  PROVE  Outcome(p, c) = standing[p].action
<1>1. PICK i \in DOMAIN overrides : /\ LatestFor(i, p, overrides, decided)
                                    /\ overrides[i].action = standing[p].action
                                    /\ overrides[i].left = standing[p].left
  BY DEF EnforcementInv, StandingIsLatest
<1>2. i \in InForce(p)
  BY <1>1 DEF InForce, Targeted, LatestFor, AimedAt, Unexpired
<1>3. overrides \in Seq(OverrideRecord)
  BY DEF EnforcementInv, EnforcementTypeOK, OverrideRecord
<1>4. \A j \in InForce(p) : j \in Nat /\ j <= i
  BY <1>1, <1>3 DEF InForce, Targeted, LatestFor, AimedAt
<1>5. \A k \in InForce(p) : (\A j \in InForce(p) : j <= k) => k = i
  BY <1>2, <1>4
<1>6. FindOverride(p) = overrides[i]
  BY <1>2, <1>4, <1>5 DEF FindOverride
<1>7. IsOverridden(p, c)
  BY <1>2 DEF IsOverridden
<1> QED BY <1>1, <1>6, <1>7 DEF Outcome

LEMMA EnforcementNextInv == EnforcementInv /\ [EnforcementNext]_enfVars => EnforcementInv'
<1> SUFFICES ASSUME EnforcementInv, [EnforcementNext]_enfVars PROVE EnforcementInv'
  OBVIOUS
<1> USE EnforcementBounds
<1>1. /\ policies \in Seq(Names) /\ IsInjective(policies) /\ version \in [Names -> Nat]
      /\ decided \in Seq(AgentPid) /\ Len(decided) <= MaxDecisions
      /\ overrides \in Seq(OverrideRecord) /\ blockList \subseteq Targets
      /\ tempBlock \in [Targets -> 0..Term] /\ open \in 0..MaxOpen
      /\ standing \in [AgentPid -> Order]
  BY DEF EnforcementInv, EnforcementTypeOK, OverrideRecord, Order
<1>2. ASSUME UNCHANGED <<decided, overrides, last, standing>>, EnforcementTypeOK'
      PROVE  EnforcementInv'
  BY <1>2 DEF EnforcementInv, OverridesAreOfDecisions, StandingIsLatest, LatestFor, AimedAt,
              RecordedOverridesDecide, Ordered
<1>3. ASSUME NEW n \in Names, AddPolicy(n) PROVE EnforcementInv'
  <2>1. /\ version' = [version EXCEPT ![n] = IF Contains(policies, n) THEN @ + 1 ELSE 1]
        /\ policies' = Append(Retain(policies, n), n)
        /\ UNCHANGED <<decided, overrides, blockList, tempBlock, open, last, standing>>
    BY <1>3 DEF AddPolicy
  <2>2. version' \in [Names -> Nat]
    BY <1>1, <2>1
  <2> DEFINE q == Retain(policies, n)
  <2>3. /\ q \in Seq(Names) /\ Distinct(q) /\ \A i \in DOMAIN q : q[i] # n
    BY <1>1, RetainDropsName DEF Distinct, IsInjective
  <2> HIDE DEF q
  <2>4. /\ policies' \in Seq(Names) /\ DOMAIN policies' = 1..(Len(q) + 1)
        /\ DOMAIN q = 1..Len(q) /\ Len(q) \in Nat
        /\ policies'[Len(q) + 1] = n
        /\ \A i \in 1..Len(q) : policies'[i] = q[i]
    BY <2>1, <2>3 DEF q
  <2>5. IsInjective(policies')
    <3>1. ASSUME NEW i \in DOMAIN policies', NEW j \in DOMAIN policies', policies'[i] = policies'[j]
          PROVE  i = j
      <4>1. CASE i \in 1..Len(q) /\ j \in 1..Len(q)
        BY <2>3, <2>4, <3>1, <4>1 DEF Distinct
      <4>2. CASE i \in 1..Len(q) /\ j = Len(q) + 1
        BY <2>3, <2>4, <3>1, <4>2
      <4>3. CASE i = Len(q) + 1 /\ j \in 1..Len(q)
        BY <2>3, <2>4, <3>1, <4>3
      <4>4. CASE i = Len(q) + 1 /\ j = Len(q) + 1
        BY <4>4
      <4> QED BY <2>4, <4>1, <4>2, <4>3, <4>4
    <3> QED BY <3>1 DEF IsInjective
  <2>6. EnforcementTypeOK'
    BY <1>1, <2>1, <2>2, <2>4, <2>5 DEF EnforcementTypeOK, OverrideRecord, Order
  <2> QED BY <1>2, <2>1, <2>6
<1>4. ASSUME NEW action \in OverrideActions, NEW left \in {Lifetime, Forever},
             NEW id \in DOMAIN decided \cup {0}, CreateOverride(id, action, left)
      PROVE  EnforcementInv'
  <2> DEFINE o == [decision |-> id, action |-> action, left |-> left]
             r == [action |-> action, left |-> left, recorded |-> id # 0]
             p == IF id = 0 THEN last.pid ELSE decided[id]
  <2>1. /\ overrides' = Append(overrides, o) /\ standing' = [standing EXCEPT ![p] = r]
        /\ UNCHANGED <<policies, version, decided, blockList, tempBlock, open, last>>
    BY <1>4 DEF CreateOverride
  <2>2. o \in OverrideRecord /\ r \in Order /\ o.decision = id /\ o.action = action /\ o.left = left
        /\ id \in Nat
    BY <1>1 DEF OverrideRecord, Order
  <2>3. r.action = action /\ r.left = left /\ r.recorded = (id # 0)
    OBVIOUS
  <2>4. /\ standing' \in [AgentPid -> Order]
        /\ \A q \in AgentPid : standing'[q] = IF q = p THEN r ELSE standing[q]
    <3> HIDE DEF r, p
    <3> QED BY <1>1, <2>1, <2>2
  <2>5. id # 0 => p = decided[id]
    OBVIOUS
  <2> HIDE DEF o, r, p
  <2>6. /\ overrides' \in Seq(OverrideRecord) /\ DOMAIN overrides' = 1..(Len(overrides) + 1)
        /\ DOMAIN overrides = 1..Len(overrides) /\ Len(overrides) \in Nat
        /\ overrides'[Len(overrides) + 1] = o
        /\ \A i \in 1..Len(overrides) : overrides'[i] = overrides[i]
    BY <1>1, <2>1, <2>2
  <2>7. EnforcementTypeOK'
    BY <1>1, <2>1, <2>4, <2>6 DEF EnforcementTypeOK, OverrideRecord, Order
  <2>8. OverridesAreOfDecisions'
    BY <2>1, <2>2, <2>6 DEF EnforcementInv, OverridesAreOfDecisions
  <2>9. StandingIsLatest'
    <3>1. SUFFICES ASSUME NEW q \in AgentPid, standing'[q].recorded, standing'[q].left > 0
                   PROVE  \E i \in DOMAIN overrides' : /\ LatestFor(i, q, overrides', decided')
                                                       /\ overrides'[i].action = standing'[q].action
                                                       /\ overrides'[i].left = standing'[q].left
      BY DEF StandingIsLatest
    <3>2. 0 \notin DOMAIN decided
      BY <1>1
    <3>3. CASE q = p
      <4>1. id # 0 /\ id \in DOMAIN decided /\ decided[id] = q
        BY <2>3, <2>4, <2>5, <3>1, <3>3
      <4>2. AimedAt(q, overrides'[Len(overrides) + 1], decided')
        BY <2>1, <2>2, <2>6, <4>1 DEF AimedAt
      <4>3. LatestFor(Len(overrides) + 1, q, overrides', decided')
        BY <2>6, <4>2 DEF LatestFor
      <4> QED BY <2>2, <2>3, <2>4, <2>6, <3>3, <4>3
    <3>4. CASE q # p
      <4>1. standing'[q] = standing[q]
        BY <2>4, <3>4
      <4>2. PICK i \in DOMAIN overrides : /\ LatestFor(i, q, overrides, decided)
                                          /\ overrides[i].action = standing[q].action
                                          /\ overrides[i].left = standing[q].left
        BY <3>1, <4>1 DEF EnforcementInv, StandingIsLatest
      <4>3. ~AimedAt(q, o, decided)
        BY <2>2, <2>5, <3>2, <3>4 DEF AimedAt
      <4>4. i \in DOMAIN overrides' /\ overrides'[i] = overrides[i] /\ AimedAt(q, overrides[i], decided)
        BY <2>6, <4>2 DEF LatestFor
      <4>5. ASSUME NEW j \in DOMAIN overrides', j > i PROVE ~AimedAt(q, overrides'[j], decided)
        <5>1. CASE j = Len(overrides) + 1
          BY <2>6, <4>3, <5>1
        <5>2. CASE j \in 1..Len(overrides)
          BY <2>6, <4>2, <4>5, <5>2 DEF LatestFor
        <5> QED BY <2>6, <5>1, <5>2
      <4>6. LatestFor(i, q, overrides', decided')
        BY <2>1, <4>4, <4>5 DEF LatestFor
      <4> QED BY <4>1, <4>2, <4>4, <4>6
    <3> QED BY <3>3, <3>4
  <2>10. RecordedOverridesDecide'
    BY <2>1 DEF EnforcementInv, RecordedOverridesDecide, Ordered
  <2> QED BY <2>7, <2>8, <2>9, <2>10 DEF EnforcementInv
<1>5. CASE Override
  BY <1>4, <1>5 DEF Override
<1>6. ASSUME NEW p \in AgentPid, NEW c \in Samples, HandleAnomaly(p, c) PROVE EnforcementInv'
  <2>1. /\ decided' = decided \/ (Len(decided) < MaxDecisions /\ decided' = Append(decided, p))
        /\ open < MaxOpen /\ open' = open + 1
        /\ UNCHANGED <<policies, version, overrides, standing>>
    BY <1>6 DEF HandleAnomaly, Record
  <2>2. last' = [pid |-> p, outcome |-> Outcome(p, c), order |-> standing[p],
                 matched |-> SomeRuleMatches(Rules, c), overridden |-> IsOverridden(p, c)]
    BY <1>6 DEF HandleAnomaly
  <2>3. blockList' \subseteq Targets /\ tempBlock' \in [Targets -> 0..Term]
    <3>1. PICK t \in DestinationsOf(c) : EnforceNetwork(Outcome(p, c), t)
      BY <1>6 DEF HandleAnomaly
    <3>2. t \in Targets
      BY DEF DestinationsOf, Targets
    <3>3. CASE Outcome(p, c) = "Block"
      <4>1. blockList' = blockList \cup {t} /\ tempBlock' = [tempBlock EXCEPT ![t] = Term]
        BY <3>1, <3>3 DEF EnforceNetwork
      <4> QED BY <1>1, <3>2, <4>1
    <3>4. CASE Outcome(p, c) # "Block"
      <4>1. blockList' = blockList /\ tempBlock' = tempBlock
        BY <3>1, <3>4 DEF EnforceNetwork
      <4> QED BY <1>1, <4>1
    <3> QED BY <3>3, <3>4
  <2>4. /\ decided' \in Seq(AgentPid) /\ Len(decided') <= MaxDecisions
        /\ DOMAIN decided \subseteq DOMAIN decided' /\ \A i \in DOMAIN decided : decided'[i] = decided[i]
        /\ 0 \notin DOMAIN decided'
    <3>1. CASE decided' = decided
      BY <1>1, <3>1
    <3>2. CASE Len(decided) < MaxDecisions /\ decided' = Append(decided, p)
      BY <1>1, <3>2
    <3> QED BY <2>1, <3>1, <3>2
  <2>5. EnforcementTypeOK'
    BY <1>1, <2>1, <2>3, <2>4 DEF EnforcementTypeOK, OverrideRecord, Order
  <2>6. OverridesAreOfDecisions'
    BY <2>1, <2>4 DEF EnforcementInv, OverridesAreOfDecisions
  <2>7. \A i \in DOMAIN overrides, q \in AgentPid :
           AimedAt(q, overrides[i], decided') <=> AimedAt(q, overrides[i], decided)
    BY <2>4 DEF EnforcementInv, OverridesAreOfDecisions, AimedAt
  <2>8. StandingIsLatest'
    <3>1. \A i \in DOMAIN overrides, q \in AgentPid : 
             LatestFor(i, q, overrides, decided) => LatestFor(i, q, overrides', decided')
      BY <2>1, <2>7 DEF LatestFor
    <3> QED BY <2>1, <3>1 DEF EnforcementInv, StandingIsLatest
  <2>9. RecordedOverridesDecide'
    <3>1. /\ last'.pid = p /\ last'.outcome = Outcome(p, c) /\ last'.order = standing[p]
          /\ last'.matched = SomeRuleMatches(Rules, c)
      BY <2>2
    <3> QED BY <3>1, OrdersDecide DEF RecordedOverridesDecide, Ordered
  <2> QED BY <2>5, <2>6, <2>8, <2>9 DEF EnforcementInv
<1>7. CASE ResolveIncident
  <2>1. EnforcementTypeOK'
    BY <1>1, <1>7 DEF ResolveIncident, EnforcementTypeOK, OverrideRecord, Order
  <2> QED BY <1>2, <1>7, <2>1 DEF ResolveIncident
<1>8. ASSUME NEW t \in Targets, RemoveFromBlockList(t) \/ RemoveTempBlock(t) PROVE EnforcementInv'
  <2>1. /\ blockList' \subseteq Targets /\ tempBlock' \in [Targets -> 0..Term]
        /\ UNCHANGED <<policies, version, decided, overrides, open, last, standing>>
    BY <1>1, <1>8 DEF RemoveFromBlockList, RemoveTempBlock
  <2>2. EnforcementTypeOK'
    BY <1>1, <2>1 DEF EnforcementTypeOK, OverrideRecord, Order
  <2> QED BY <1>2, <2>1, <2>2
<1>9. CASE EnforcementTick
  <2>1. /\ tempBlock' = [t \in Targets |-> IF tempBlock[t] > 0 THEN tempBlock[t] - 1 ELSE 0]
        /\ overrides' = [i \in DOMAIN overrides |-> [overrides[i] EXCEPT !.left = Sooner(@)]]
        /\ standing' = [p \in AgentPid |-> [standing[p] EXCEPT !.left = Sooner(@)]]
        /\ UNCHANGED <<policies, version, decided, blockList, open, last>>
    BY <1>9 DEF EnforcementTick
  <2>2. \A n \in 0..Forever : Sooner(n) \in 0..Forever /\ (Sooner(n) > 0 => n > 0)
    BY DEF Sooner
  <2>3. tempBlock' \in [Targets -> 0..Term]
    BY <1>1, <2>1
  <2>4. ASSUME NEW i \in DOMAIN overrides
        PROVE  /\ overrides'[i] \in OverrideRecord /\ overrides'[i].decision = overrides[i].decision
               /\ overrides'[i].action = overrides[i].action
               /\ overrides'[i].left = Sooner(overrides[i].left)
    <3>1. overrides[i] \in OverrideRecord
      BY <1>1
    <3>2. overrides'[i] = [overrides[i] EXCEPT !.left = Sooner(overrides[i].left)]
      BY <2>1
    <3> QED BY <2>2, <3>1, <3>2 DEF OverrideRecord
  <2>5. ASSUME NEW p \in AgentPid
        PROVE  /\ standing'[p] \in Order /\ standing'[p].recorded = standing[p].recorded
               /\ standing'[p].action = standing[p].action
               /\ standing'[p].left = Sooner(standing[p].left) /\ standing[p].left \in 0..Forever
    <3>1. standing[p] \in Order
      BY <1>1
    <3>2. standing'[p] = [standing[p] EXCEPT !.left = Sooner(standing[p].left)]
      BY <2>1
    <3> QED BY <2>2, <3>1, <3>2 DEF Order
  <2>6. DOMAIN overrides' = DOMAIN overrides /\ overrides' \in Seq(OverrideRecord)
    <3>1. DOMAIN overrides = 1..Len(overrides) /\ Len(overrides) \in Nat
      BY <1>1
    <3>2. DOMAIN overrides' = 1..Len(overrides)
      BY <2>1, <3>1
    <3>3. overrides' \in [1..Len(overrides) -> OverrideRecord]
      BY <2>1, <2>4, <3>1
    <3> QED BY <3>1, <3>2, <3>3
  <2>7. EnforcementTypeOK'
    <3>1. standing' \in [AgentPid -> Order]
      BY <2>1, <2>5
    <3> QED BY <1>1, <2>1, <2>3, <2>6, <3>1 DEF EnforcementTypeOK, OverrideRecord, Order
  <2>8. OverridesAreOfDecisions'
    BY <2>1, <2>4, <2>6 DEF EnforcementInv, OverridesAreOfDecisions
  <2>9. StandingIsLatest'
    <3>1. SUFFICES ASSUME NEW q \in AgentPid, standing'[q].recorded, standing'[q].left > 0
                   PROVE  \E i \in DOMAIN overrides' : /\ LatestFor(i, q, overrides', decided')
                                                       /\ overrides'[i].action = standing'[q].action
                                                       /\ overrides'[i].left = standing'[q].left
      BY DEF StandingIsLatest
    <3>2. PICK i \in DOMAIN overrides : /\ LatestFor(i, q, overrides, decided)
                                        /\ overrides[i].action = standing[q].action
                                        /\ overrides[i].left = standing[q].left
      <4>1. standing[q].recorded /\ standing[q].left > 0
        BY <2>2, <2>5, <3>1
      <4> QED BY <4>1 DEF EnforcementInv, StandingIsLatest
    <3>3. \A j \in DOMAIN overrides : 
             AimedAt(q, overrides'[j], decided') <=> AimedAt(q, overrides[j], decided)
      BY <2>1, <2>4 DEF AimedAt
    <3>4. LatestFor(i, q, overrides', decided')
      BY <2>6, <3>2, <3>3 DEF LatestFor
    <3> QED BY <2>4, <2>5, <2>6, <3>2, <3>4
  <2>10. RecordedOverridesDecide'
    BY <2>1 DEF EnforcementInv, RecordedOverridesDecide, Ordered
  <2> QED BY <2>7, <2>8, <2>9, <2>10 DEF EnforcementInv
<1>10. CASE UNCHANGED enfVars
  <2>1. EnforcementTypeOK'
    BY <1>1, <1>10 DEF enfVars, EnforcementTypeOK, OverrideRecord, Order
  <2> QED BY <1>2, <1>10, <2>1 DEF enfVars
<1> QED BY <1>3, <1>5, <1>6, <1>7, <1>8, <1>9, <1>10 DEF EnforcementNext

LEMMA EnforcementInvHolds == EnforcementSpec => []EnforcementInv
BY EnforcementInitInv, EnforcementNextInv, PTL DEF EnforcementSpec

(* Type correctness of the decision engine and the enforcement; in it, that *)
(* no policy is in the list in two versions.                               *)
THEOREM EnforcementTypes == EnforcementSpec => []EnforcementTypeOK
<1>1. EnforcementInv => EnforcementTypeOK
  BY DEF EnforcementInv
<1> QED BY <1>1, EnforcementInvHolds, PTL

(* For any number of agents, decisions and overrides: the order of a human *)
(* that stands for an agent decides, whatever the policies are by now.     *)
THEOREM StandingOrdersDecide == EnforcementSpec => []RecordedOverridesDecide
<1>1. EnforcementInv => RecordedOverridesDecide
  BY DEF EnforcementInv
<1> QED BY <1>1, EnforcementInvHolds, PTL

-----------------------------------------------------------------------------
(* Containment and the control of units.                                   *)

TrackedProcess == [pid : TargetPid, state : ContainmentState]

ContainmentInv == ContainmentTypeOK /\ StoppedIsTracked

-----------------------------------------------------------------------------
LEMMA FunctionIsSeq ==
  ASSUME NEW S, NEW n \in Nat, NEW f \in [1..n -> S]
  PROVE  f \in Seq(S) /\ Len(f) = n /\ DOMAIN f = 1..n
<1>1. f \in Seq(S)
  BY SeqDef
<1> QED BY <1>1, LenProperties

(* An entry that is appended is there, and so are all the others.          *)
LEMMA Appended ==
  ASSUME ContainmentTypeOK, NEW p \in TargetPid, NEW s \in ContainmentState, Track(p, s),
         Len(tracked) < MaxTracked
  PROVE  /\ tracked' \in Seq(TrackedProcess) /\ Len(tracked') <= MaxTracked
         /\ DOMAIN tracked' = 1..(Len(tracked) + 1) /\ DOMAIN tracked = 1..Len(tracked)
         /\ \A i \in 1..Len(tracked) : tracked'[i] = tracked[i]
         /\ tracked'[Len(tracked) + 1] = [pid |-> p, state |-> s]
<1> DEFINE new == [pid |-> p, state |-> s]
<1>1. new \in TrackedProcess
  BY DEF TrackedProcess
<1>2. tracked \in Seq(TrackedProcess) /\ tracked' = Append(tracked, new)
  BY DEF ContainmentTypeOK, TrackedProcess, Track
<1>3. /\ tracked' \in Seq(TrackedProcess) /\ Len(tracked') = Len(tracked) + 1
      /\ \A i \in 1..Len(tracked) : tracked'[i] = tracked[i]
      /\ tracked'[Len(tracked) + 1] = new
  BY <1>1, <1>2, AppendProperties
<1> QED BY <1>2, <1>3, LenProperties, ContainmentAssumption

(* An update changes entries of its pid alone.                             *)
LEMMA Updated ==
  ASSUME ContainmentTypeOK, NEW p \in TargetPid, NEW s \in ContainmentState,
         UpdateState(p, s)
  PROVE  /\ tracked' \in Seq(TrackedProcess) /\ Len(tracked') = Len(tracked)
         /\ DOMAIN tracked' = DOMAIN tracked
         /\ \A i \in DOMAIN tracked : tracked[i].pid # p => tracked'[i] = tracked[i]
<1>1. /\ Len(tracked) \in Nat /\ DOMAIN tracked = 1..Len(tracked)
      /\ tracked \in [1..Len(tracked) -> TrackedProcess]
  BY LenProperties DEF ContainmentTypeOK, TrackedProcess
<1> DEFINE first(i) == tracked[i].pid = p /\ \A j \in 1..(i - 1) : tracked[j].pid # p
           entry(i) == IF first(i) THEN [tracked[i] EXCEPT !.state = s] ELSE tracked[i]
<1>2. tracked' = [i \in DOMAIN tracked |-> entry(i)]
  BY DEF UpdateState
<1>3. ASSUME NEW i \in DOMAIN tracked
      PROVE  entry(i) \in TrackedProcess /\ (tracked[i].pid # p => entry(i) = tracked[i])
  <2>1. tracked[i] \in TrackedProcess
    BY <1>1
  <2>2. tracked[i].pid # p => ~first(i)
    OBVIOUS
  <2> HIDE DEF first
  <2> QED BY <2>1, <2>2 DEF TrackedProcess
<1> HIDE DEF entry
<1>4. tracked' \in [1..Len(tracked) -> TrackedProcess]
  BY <1>1, <1>2, <1>3
<1> QED BY <1>1, <1>2, <1>3, <1>4, FunctionIsSeq

(* Processes that are stopped as before, or not at all, stay tracked.      *)
LEMMA StillTracked ==
  ASSUME StoppedIsTracked, NEW p \in TargetPid,
         DOMAIN tracked \subseteq DOMAIN tracked',
         \A i \in DOMAIN tracked : tracked[i].pid # p => tracked'[i] = tracked[i],
         \A q \in TargetPid \ {p} : proc'[q] = proc[q],
         proc'[p] \notin Stops
  PROVE  StoppedIsTracked'
<1> SUFFICES ASSUME NEW q \in TargetPid, proc'[q] \in Stops
             PROVE  \E i \in DOMAIN tracked' : tracked'[i] = [pid |-> q, state |-> proc'[q]]
  BY DEF StoppedIsTracked
<1>1. q # p /\ proc'[q] = proc[q]
  OBVIOUS
<1>2. PICK i \in DOMAIN tracked : tracked[i] = [pid |-> q, state |-> proc[q]]
  BY <1>1 DEF StoppedIsTracked
<1>3. tracked'[i] = tracked[i]
  BY <1>1, <1>2
<1> QED BY <1>1, <1>2, <1>3

(* A stop that is entered.                                                 *)
LEMMA StopIsTracked ==
  ASSUME ContainmentInv, NEW p \in TargetPid, NEW how \in Stops,
         Len(tracked) < MaxTracked, Stop(p, how), Track(p, how)
  PROVE  /\ tracked' \in Seq(TrackedProcess) /\ Len(tracked') <= MaxTracked
         /\ proc' \in [TargetPid -> {"none", "running"} \cup Stops]
         /\ StoppedIsTracked'
<1>1. how \in ContainmentState
  BY DEF ContainmentState
<1>2. /\ tracked' \in Seq(TrackedProcess) /\ Len(tracked') <= MaxTracked
      /\ DOMAIN tracked' = 1..(Len(tracked) + 1) /\ DOMAIN tracked = 1..Len(tracked)
      /\ \A i \in 1..Len(tracked) : tracked'[i] = tracked[i]
  BY <1>1, Appended DEF ContainmentInv
<1>3. tracked'[Len(tracked) + 1] = [pid |-> p, state |-> how]
  BY <1>1, Appended DEF ContainmentInv
<1>4. Len(tracked) \in Nat
  BY LenProperties DEF ContainmentInv, ContainmentTypeOK
<1>5. proc' = [proc EXCEPT ![p] = IF proc[p] = "none" THEN proc[p] ELSE how]
  BY DEF Stop
<1>6. proc' \in [TargetPid -> {"none", "running"} \cup Stops]
  BY <1>5 DEF ContainmentInv, ContainmentTypeOK
<1>7. ASSUME NEW q \in TargetPid, proc'[q] \in Stops
      PROVE  \E i \in DOMAIN tracked' : tracked'[i] = [pid |-> q, state |-> proc'[q]]
  <2>1. proc'[q] = proc[q] \/ (q = p /\ proc'[q] = how)
    BY <1>5 DEF ContainmentInv, ContainmentTypeOK
  <2>2. CASE proc'[q] = proc[q]
    <3>1. PICK i \in DOMAIN tracked : tracked[i] = [pid |-> q, state |-> proc[q]]
      BY <1>7, <2>2 DEF ContainmentInv, StoppedIsTracked
    <3>2. i \in DOMAIN tracked' /\ tracked'[i] = tracked[i]
      BY <1>2, <1>4, <3>1
    <3> QED BY <2>2, <3>1, <3>2
  <2>3. CASE q = p /\ proc'[q] = how
    <3>1. Len(tracked) + 1 \in DOMAIN tracked'
      BY <1>2, <1>4
    <3> QED BY <1>3, <2>3, <3>1
  <2> QED BY <2>1, <2>2, <2>3
<1>8. StoppedIsTracked'
  BY <1>7 DEF StoppedIsTracked
<1> QED BY <1>2, <1>6, <1>8

-----------------------------------------------------------------------------
LEMMA ContainmentInitInv == ContainmentInit => ContainmentInv
<1> SUFFICES ASSUME ContainmentInit PROVE ContainmentInv
  OBVIOUS
<1>1. tracked = <<>> /\ Len(tracked) = 0 /\ tracked \in Seq(TrackedProcess)
  BY EmptySeq DEF ContainmentInit
<1>2. \A p \in TargetPid : proc[p] \notin Stops
  BY DEF ContainmentInit, Stops
<1> QED BY <1>1, <1>2, ContainmentAssumption
        DEF ContainmentInit, ContainmentInv, ContainmentTypeOK, StoppedIsTracked, TrackedProcess

LEMMA ContainmentNextInv ==
  ContainmentInv /\ [ContainmentNext]_containVars => ContainmentInv'
<1> SUFFICES ASSUME ContainmentInv, [ContainmentNext]_containVars PROVE ContainmentInv'
  OBVIOUS
<1>1. /\ proc \in [TargetPid -> {"none", "running"} \cup Stops]
      /\ tracked \in Seq(TrackedProcess) /\ Len(tracked) <= MaxTracked
      /\ jailed \subseteq TargetPid /\ cgroups \subseteq AgentName \X TargetPid
      /\ audited \subseteq AuditedActions \X TargetPid
      /\ ContainmentTypeOK /\ StoppedIsTracked
  BY DEF ContainmentInv, ContainmentTypeOK, TrackedProcess
<1>2. ASSUME proc' \in [TargetPid -> {"none", "running"} \cup Stops],
             tracked' \in Seq(TrackedProcess), Len(tracked') <= MaxTracked,
             jailed' \subseteq TargetPid, cgroups' \subseteq AgentName \X TargetPid,
             audited' \subseteq AuditedActions \X TargetPid,
             StoppedIsTracked'
      PROVE  ContainmentInv'
  BY <1>2 DEF ContainmentInv, ContainmentTypeOK, TrackedProcess
<1>3. ASSUME NEW p \in TargetPid, Spawn(p) \/ Die(p) PROVE ContainmentInv'
  <2>1. /\ proc' \in [TargetPid -> {"none", "running"} \cup Stops]
        /\ \A q \in TargetPid \ {p} : proc'[q] = proc[q]
        /\ proc'[p] \notin Stops
        /\ tracked' = tracked /\ jailed' \subseteq jailed
        /\ UNCHANGED <<cgroups, audited>>
    BY <1>1, <1>3 DEF Spawn, Die, Stops
  <2>2. StoppedIsTracked'
    BY <1>1, <2>1, StillTracked
  <2> QED BY <1>1, <1>2, <2>1, <2>2
<1>4. ASSUME NEW p \in TargetPid, Suspend(p) PROVE ContainmentInv'
  <2>1. /\ tracked' \in Seq(TrackedProcess) /\ Len(tracked') <= MaxTracked
        /\ proc' \in [TargetPid -> {"none", "running"} \cup Stops]
        /\ StoppedIsTracked'
    BY <1>4, StopIsTracked DEF Suspend, Stops
  <2> QED BY <1>1, <1>2, <1>4, <2>1 DEF Suspend
<1>5. ASSUME NEW p \in TargetPid, Resume(p) \/ Kill(p) \/ RestartProcess(p)
      PROVE  ContainmentInv'
  <2>1. /\ proc' \in [TargetPid -> {"none", "running"} \cup Stops]
        /\ \A q \in TargetPid \ {p} : proc'[q] = proc[q]
        /\ proc'[p] \notin Stops
    BY <1>1, <1>5 DEF Resume, Kill, RestartProcess, Continue, SigKill, Stops
  <2>2. PICK s \in ContainmentState : UpdateState(p, s)
    BY <1>5 DEF Resume, Kill, RestartProcess, ContainmentState
  <2>3. /\ tracked' \in Seq(TrackedProcess) /\ Len(tracked') = Len(tracked)
        /\ DOMAIN tracked' = DOMAIN tracked
        /\ \A i \in DOMAIN tracked : tracked[i].pid # p => tracked'[i] = tracked[i]
    BY <1>1, <2>2, Updated
  <2>4. StoppedIsTracked'
    BY <1>1, <2>1, <2>3, StillTracked
  <2>5. /\ jailed' \subseteq TargetPid /\ cgroups' \subseteq AgentName \X TargetPid
        /\ audited' \subseteq AuditedActions \X TargetPid
    BY <1>1, <1>5 DEF Resume, Kill, RestartProcess, SigKill, AuditedActions
  <2> QED BY <1>1, <1>2, <2>1, <2>3, <2>4, <2>5
<1>6. ASSUME NEW p \in TargetPid, NEW name \in AgentName, Escalate(p, name)
      PROVE  ContainmentInv'
  <2>1. /\ tracked' \in Seq(TrackedProcess) /\ Len(tracked') <= MaxTracked
        /\ proc' \in [TargetPid -> {"none", "running"} \cup Stops]
        /\ StoppedIsTracked'
    BY <1>6, StopIsTracked DEF Escalate, Stops
  <2>2. jailed' \subseteq TargetPid /\ cgroups' \subseteq AgentName \X TargetPid
    BY <1>1, <1>6 DEF Escalate, Contain
  <2>3. audited' \subseteq AuditedActions \X TargetPid
    BY <1>1, <1>6 DEF Escalate, AuditedActions
  <2> QED BY <1>2, <2>1, <2>2, <2>3
<1>7. ASSUME NEW name \in AgentName, Release(name) PROVE ContainmentInv'
  <2>1. StoppedIsTracked'
    BY <1>1, <1>7 DEF Release, StoppedIsTracked
  <2> QED BY <1>1, <1>2, <1>7, <2>1 DEF Release
<1>8. CASE UNCHANGED containVars
  <2>1. StoppedIsTracked'
    BY <1>1, <1>8 DEF containVars, StoppedIsTracked
  <2> QED BY <1>1, <1>2, <1>8, <2>1 DEF containVars
<1> QED BY <1>3, <1>4, <1>5, <1>6, <1>7, <1>8 DEF ContainmentNext

LEMMA ContainmentInvHolds == ContainmentSpec => []ContainmentInv
BY ContainmentInitInv, ContainmentNextInv, PTL DEF ContainmentSpec

(* Type correctness of the containment engines.                            *)
THEOREM ContainmentTypeCorrectness == ContainmentSpec => []ContainmentTypeOK
<1>1. ContainmentInv => ContainmentTypeOK
  BY DEF ContainmentInv
<1> QED BY <1>1, ContainmentInvHolds, PTL

(* No process is stopped and forgotten, whatever pids are used again.      *)
THEOREM StoppedAreRecorded == ContainmentSpec => []StoppedIsTracked
<1>1. ContainmentInv => StoppedIsTracked
  BY DEF ContainmentInv
<1> QED BY <1>1, ContainmentInvHolds, PTL

-----------------------------------------------------------------------------
(* Services.                                                               *)

ConfinedAreMasked == \A u \in confined : unit[u].masked

QuarantineOnItsWay ==
  (pending # Idle /\ pending.ok /\ pending.left < 3 /\ unit[pending.unit].active)
     => pending.unit \in raced

ServiceInv == /\ ServiceTypeOK
              /\ ConfinedAreMasked
              /\ QuarantineOnItsWay
              /\ QuarantinedStaysDown

UnitState == [active : BOOLEAN, enabled : BOOLEAN, masked : BOOLEAN]

LEMMA PendingIsTyped ==
  ASSUME ServiceTypeOK, pending # Idle
  PROVE  pending \in [unit : Unit, left : 1..3, ok : BOOLEAN]
BY DEF ServiceTypeOK

LEMMA ServiceInitInv == ServiceInit => ServiceInv
<1> SUFFICES ASSUME ServiceInit PROVE ServiceInv
  OBVIOUS
<1>1. /\ unit \in [Unit -> UnitState]
      /\ pending = Idle /\ actions = 0 /\ confined = {} /\ raced = {}
  BY DEF ServiceInit, UnitState
<1>2. ServiceTypeOK
  BY <1>1, ServiceAssumption DEF ServiceTypeOK, UnitState
<1> QED BY <1>1, <1>2
        DEF ServiceInv, ConfinedAreMasked, QuarantineOnItsWay, QuarantinedStaysDown

(* What a command does: to its unit alone, and no mask is taken away.      *)
LEMMA CommandEffect ==
  ASSUME ServiceTypeOK, NEW u \in Unit, NEW k \in {"restart", "stop", "disable", "mask"},
         Command(u, k)
  PROVE  /\ unit' \in [Unit -> UnitState]
         /\ \A v \in Unit \ {u} : unit'[v] = unit[v]
         /\ unit[u].masked => unit'[u].masked
         /\ unit'[u].active => unit[u].active \/ (k = "restart" /\ ~unit[u].masked)
         /\ k = "stop" => ~unit'[u].active
         /\ k = "mask" => unit'[u].masked
<1>1. unit \in [Unit -> UnitState]
  BY DEF ServiceTypeOK, UnitState
<1>2. unit[u] \in UnitState
  BY <1>1
<1>3. CASE k = "restart"
  BY <1>1, <1>2, <1>3 DEF Command, Started, UnitState
<1>4. CASE k = "stop"
  BY <1>1, <1>2, <1>4 DEF Command, UnitState
<1>5. CASE k = "disable"
  BY <1>1, <1>2, <1>5 DEF Command, UnitState
<1>6. CASE k = "mask"
  BY <1>1, <1>2, <1>6 DEF Command, UnitState
<1> QED BY <1>3, <1>4, <1>5, <1>6

LEMMA ServiceNextInv == ServiceInv /\ [ServiceNext]_serviceVars => ServiceInv'
<1> SUFFICES ASSUME ServiceInv, [ServiceNext]_serviceVars PROVE ServiceInv'
  OBVIOUS
<1>1. /\ unit \in [Unit -> UnitState] /\ confined \subseteq Unit /\ raced \subseteq Unit
      /\ ServiceTypeOK
  BY DEF ServiceInv, ServiceTypeOK, UnitState
<1>2. ASSUME NEW u \in Unit, StartedByOthers(u) PROVE ServiceInv'
  <2>1. /\ unit' \in [Unit -> UnitState]
        /\ \A v \in Unit \ {u} : unit'[v] = unit[v]
        /\ unit'[u].masked = unit[u].masked
    BY <1>1, <1>2 DEF StartedByOthers, Started, UnitState
  <2>2. /\ raced \subseteq raced' /\ raced' \subseteq Unit
        /\ unit'[u].active => u \in raced'
        /\ UNCHANGED <<pending, actions, confined>>
    BY <1>1, <1>2 DEF StartedByOthers
  <2>3. ServiceTypeOK'
    BY <1>1, <2>1, <2>2 DEF ServiceTypeOK, UnitState
  <2>4. QuarantineOnItsWay'
    <3>1. pending # Idle => pending.unit \in Unit
      BY <1>1, PendingIsTyped
    <3> QED BY <2>1, <2>2, <3>1 DEF ServiceInv, QuarantineOnItsWay
  <2> QED BY <1>1, <2>1, <2>2, <2>3, <2>4
          DEF ServiceInv, ConfinedAreMasked, QuarantinedStaysDown
<1>3. ASSUME NEW u \in Unit, Exited(u) PROVE ServiceInv'
  <2>1. /\ unit' \in [Unit -> UnitState]
        /\ \A v \in Unit : /\ unit'[v].masked = unit[v].masked
                           /\ unit'[v].active => unit[v].active
        /\ UNCHANGED <<pending, actions, confined, raced>>
    BY <1>1, <1>3 DEF Exited, UnitState
  <2>2. pending # Idle => pending.unit \in Unit
    BY <1>1, PendingIsTyped
  <2> QED BY <1>1, <2>1, <2>2
          DEF ServiceInv, ServiceTypeOK, UnitState, ConfinedAreMasked, QuarantineOnItsWay,
              QuarantinedStaysDown
<1>4. CASE Boot
  <2>1. /\ unit' \in [Unit -> UnitState]
        /\ \A v \in Unit : /\ unit'[v].masked = unit[v].masked
                           /\ unit[v].masked => ~unit'[v].active
        /\ pending = Idle /\ UNCHANGED <<pending, actions, confined, raced>>
    BY <1>1, <1>4 DEF Boot, UnitState
  <2> QED BY <1>1, <2>1
          DEF ServiceInv, ServiceTypeOK, UnitState, ConfinedAreMasked, QuarantineOnItsWay,
              QuarantinedStaysDown
<1>5. ASSUME NEW u \in Unit, NEW k \in {"restart", "stop", "disable"}, Simple(u, k)
      PROVE  ServiceInv'
  <2>1. /\ unit' \in [Unit -> UnitState]
        /\ \A v \in Unit : /\ unit[v].masked => unit'[v].masked
                           /\ unit[v].masked /\ unit'[v].active => unit[v].active
    BY <1>1, <1>5, CommandEffect DEF Simple
  <2>2. pending = Idle /\ UNCHANGED <<pending, confined, raced>> /\ actions' \in 0..MaxActions
    BY <1>5, ServiceAssumption DEF Simple, Recorded, ServiceInv, ServiceTypeOK
  <2> QED BY <1>1, <2>1, <2>2
          DEF ServiceInv, ServiceTypeOK, UnitState, ConfinedAreMasked, QuarantineOnItsWay,
              QuarantinedStaysDown
<1>6. ASSUME NEW u \in Unit, Quarantine(u) PROVE ServiceInv'
  <2>1. /\ pending' = [unit |-> u, left |-> 3, ok |-> TRUE]
        /\ confined' = confined \ {u} /\ raced' = raced \ {u}
        /\ UNCHANGED <<unit, actions>>
    BY <1>6 DEF Quarantine
  <2>2. pending' \in [unit : Unit, left : 1..3, ok : BOOLEAN] /\ pending'.left = 3
    BY <2>1
  <2> QED BY <2>1, <2>2
          DEF ServiceInv, ServiceTypeOK, ConfinedAreMasked, QuarantineOnItsWay,
              QuarantinedStaysDown
<1>7. CASE QuarantineStep
  <2> DEFINE w == pending.unit
  <2>1. PICK ok \in BOOLEAN :
          /\ IF ok THEN Command(w, Step(pending.left)) ELSE UNCHANGED unit
          /\ IF pending.left > 1
             THEN /\ pending' = [pending EXCEPT !.left = @ - 1, !.ok = @ /\ ok]
                  /\ UNCHANGED <<actions, confined>>
             ELSE /\ pending' = Idle
                  /\ Recorded
                  /\ confined' = IF ok /\ pending.ok THEN confined \cup {w} ELSE confined
    BY <1>7 DEF QuarantineStep
  <2>2. /\ pending \in [unit : Unit, left : 1..3, ok : BOOLEAN]
        /\ pending # Idle /\ raced' = raced
    BY <1>1, <1>7, PendingIsTyped DEF QuarantineStep
  <2>3. w \in Unit /\ pending.left \in 1..3 /\ pending.ok \in BOOLEAN
    BY <2>2
  <2>4. /\ unit' \in [Unit -> UnitState]
        /\ \A v \in Unit : /\ unit[v].masked => unit'[v].masked
                           /\ unit'[v].active => unit[v].active
        /\ ok /\ pending.left = 3 => ~unit'[w].active
        /\ ok /\ pending.left = 1 => unit'[w].masked
    <3>1. CASE ~ok
      BY <1>1, <2>1, <3>1
    <3>2. CASE ok
      <4>1. Command(w, Step(pending.left))
        BY <2>1, <3>2
      <4>2. /\ Step(pending.left) \in {"stop", "disable", "mask"}
            /\ pending.left = 3 => Step(pending.left) = "stop"
            /\ pending.left = 1 => Step(pending.left) = "mask"
        BY <2>3 DEF Step
      <4> HIDE DEF w
      <4> QED BY <1>1, <2>3, <4>1, <4>2, CommandEffect
    <3> QED BY <3>1, <3>2
  <2>5. QuarantinedStaysDown
    BY DEF ServiceInv
  <2>6. CASE pending.left > 1
    <3>1. /\ pending' = [pending EXCEPT !.left = pending.left - 1, !.ok = pending.ok /\ ok]
          /\ UNCHANGED <<actions, confined>>
      BY <2>1, <2>6
    <3>2. /\ pending' \in [unit : Unit, left : 1..3, ok : BOOLEAN]
          /\ pending'.unit = w /\ pending'.ok = (pending.ok /\ ok)
          /\ pending'.left = pending.left - 1
      <4> DEFINE left == pending.left - 1
                 good == pending.ok /\ ok
      <4>1. left \in 1..3
        BY <2>3, <2>6
      <4>2. good \in BOOLEAN
        OBVIOUS
      <4>3. pending' = [pending EXCEPT !.left = left, !.ok = good]
        BY <3>1
      <4>4. pending'.left = left /\ pending'.ok = good
        <5> HIDE DEF left, good
        <5> QED BY <2>2, <4>3
      <4> HIDE DEF left, good
      <4>5. pending' \in [unit : Unit, left : 1..3, ok : BOOLEAN] /\ pending'.unit = w
        BY <2>2, <4>1, <4>2, <4>3
      <4> QED BY <4>4, <4>5 DEF left, good
    <3>3. QuarantineOnItsWay'
      <4>1. SUFFICES ASSUME pending.ok, ok, unit'[w].active PROVE w \in raced
        BY <2>2, <3>2 DEF QuarantineOnItsWay
      <4>2. pending.left # 3 /\ unit[w].active
        BY <2>3, <2>4, <4>1
      <4> QED BY <2>2, <2>3, <4>1, <4>2 DEF ServiceInv, QuarantineOnItsWay
    <3> QED BY <1>1, <2>2, <2>4, <2>5, <3>1, <3>2, <3>3
            DEF ServiceInv, ServiceTypeOK, UnitState, ConfinedAreMasked, QuarantinedStaysDown
  <2>7. CASE pending.left = 1
    <3>1. /\ pending' = Idle /\ actions' \in 0..MaxActions
          /\ confined' = IF ok /\ pending.ok THEN confined \cup {w} ELSE confined
      BY <2>1, <2>7, ServiceAssumption DEF Recorded, ServiceInv, ServiceTypeOK
    <3>2. ASSUME ok, pending.ok PROVE unit'[w].masked /\ (unit'[w].active => w \in raced)
      BY <2>2, <2>3, <2>4, <2>7, <3>2 DEF ServiceInv, QuarantineOnItsWay
    <3>3. ConfinedAreMasked' /\ QuarantinedStaysDown'
      BY <1>1, <2>2, <2>4, <3>1, <3>2 DEF ServiceInv, ConfinedAreMasked, QuarantinedStaysDown
    <3> QED BY <1>1, <2>2, <2>3, <2>4, <3>1, <3>3
            DEF ServiceInv, ServiceTypeOK, UnitState, QuarantineOnItsWay
  <2> QED BY <2>3, <2>6, <2>7
<1>8. CASE Isolate
  <2>1. actions' \in 0..MaxActions /\ UNCHANGED <<unit, pending, confined, raced>>
    BY <1>8, ServiceAssumption DEF Isolate, Recorded, ServiceInv, ServiceTypeOK
  <2> QED BY <2>1 DEF ServiceInv, ServiceTypeOK, ConfinedAreMasked, QuarantineOnItsWay,
                      QuarantinedStaysDown
<1>9. CASE UNCHANGED serviceVars
  BY <1>9 DEF serviceVars, ServiceInv, ServiceTypeOK, ConfinedAreMasked, QuarantineOnItsWay,
              QuarantinedStaysDown
<1> QED BY <1>2, <1>3, <1>4, <1>5, <1>6, <1>7, <1>8, <1>9 DEF ServiceNext

LEMMA ServiceInvHolds == ServiceSpec => []ServiceInv
BY ServiceInitInv, ServiceNextInv, PTL DEF ServiceSpec

(* Type correctness of the systemd control engine.                         *)
THEOREM ServiceTypeCorrectness == ServiceSpec => []ServiceTypeOK
<1>1. ServiceInv => ServiceTypeOK
  BY DEF ServiceInv
<1> QED BY <1>1, ServiceInvHolds, PTL

(* A unit whose quarantine succeeded stays down, unless others started it  *)
(* before it was masked.                                                   *)
THEOREM QuarantineHolds == ServiceSpec => []QuarantinedStaysDown
<1>1. ServiceInv => QuarantinedStaysDown
  BY DEF ServiceInv
<1> QED BY <1>1, ServiceInvHolds, PTL

-----------------------------------------------------------------------------
(* The parts together.  A step of one part leaves the variables of all the *)
(* others unchanged, so that each invariant holds of the whole.            *)

PartsInv == /\ EnforcementInv /\ SecurityInv /\ CorrelationInv /\ ContainmentInv
            /\ ServiceInv /\ AlertInv /\ CacheStateInv /\ ListInv /\ KernelInv
            /\ DetectorInv

LEMMA PartsInitInv == Init => PartsInv
BY EnforcementInitInv, SecurityInitInv, CorrelationInitInv, ContainmentInitInv, ServiceInitInv, AlertInitInv, CacheStateInit, ListInitInv, KernelInitInv, DetectorInitInv DEF Init, PartsInv

LEMMA StepOfEachPart ==
  ASSUME [Next]_vars
  PROVE  /\ [EnforcementNext]_enfVars
         /\ [SecurityNext]_secVars
         /\ [CorrelationNext]_corVars
         /\ [ContainmentNext]_containVars
         /\ [ServiceNext]_serviceVars
         /\ [AlertNext]_alertVars
         /\ [CacheNext]_cacheVars
         /\ [ListNext]_listVars
         /\ [KernelNext]_kernelVars
         /\ [DetectorNext]_detectorVars
<1>1. CASE EnforcementPart
  BY <1>1 DEF EnforcementPart
<1>2. CASE SecurityPart
  BY <1>2 DEF SecurityPart
<1>3. CASE CorrelationPart
  BY <1>3 DEF CorrelationPart
<1>4. CASE ContainmentPart
  BY <1>4 DEF ContainmentPart
<1>5. CASE ServicePart
  BY <1>5 DEF ServicePart
<1>6. CASE AlertPart
  BY <1>6 DEF AlertPart
<1>7. CASE CachePart
  BY <1>7 DEF CachePart
<1>8. CASE ListPart
  BY <1>8 DEF ListPart
<1>9. CASE KernelPart
  BY <1>9 DEF KernelPart
<1>10. CASE DetectorPart
  BY <1>10 DEF DetectorPart
<1>11. CASE UNCHANGED vars
  BY <1>11 DEF vars
<1> QED BY <1>1, <1>2, <1>3, <1>4, <1>5, <1>6, <1>7, <1>8, <1>9, <1>10, <1>11 DEF Next

LEMMA PartsNextInv == PartsInv /\ [Next]_vars => PartsInv'
BY StepOfEachPart, EnforcementNextInv, SecurityNextInv, CorrelationNextInv, ContainmentNextInv, ServiceNextInv, AlertNextInv, CacheStateNext, ListNextInv, KernelNextInv, DetectorNextInv
   DEF PartsInv

(* Whatever part takes steps, the state of all of them is well typed.      *)
THEOREM PartsAreTyped == Spec => []TypeOK
<1>1. PartsInv => TypeOK
  BY CacheStateIsTyped, KernelInvIsTyped
     DEF PartsInv, TypeOK, EnforcementInv, SecurityInv, CorrelationInv, ContainmentInv,
         ServiceInv, AlertInv, ListInv, DetectorInv
<1> QED BY <1>1, PartsInitInv, PartsNextInv, PTL DEF Spec
=============================================================================
