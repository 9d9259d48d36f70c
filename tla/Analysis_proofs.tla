-------------------------- MODULE Analysis_proofs ---------------------------
(***************************************************************************)
(* Proofs about what judges the agents: the correlation of their network   *)
(* activity, the detectors of the reliability engine and the learning of   *)
(* the security pipeline, for any numbers of agents, destinations, readings*)
(* and days.                                                               *)
(*                                                                         *)
(* What is computed over a set, a sequence or a run of cycles is reasoned  *)
(* about by induction (InductionTheorems): the totals of a snapshot as a   *)
(* fold, of which the agents far above the average have more than their    *)
(* share (OutliersWeigh); the count of growing readings by its equation    *)
(* (CounterEquation); a profile through the connections of one cycle       *)
(* (FeedKeepsProfile), which keep it trained for as long as it claims to be*)
(* (ProfilesAreTrained).                                                   *)
(***************************************************************************)
EXTENDS SecurityPipeline, Correlation, Detectors, InductionTheorems, SequenceTheorems

-----------------------------------------------------------------------------
(* The correlation of agents.                                              *)

LEMMA SnapshotFacts ==
  ASSUME NEW S \in Snapshots
  PROVE  /\ IsFiniteSet(Active(S)) /\ Cardinality(Active(S)) \in Nat
         /\ \A a \in Active(S) : a \in Agent /\ S[a].rateIn \in Nat /\ S[a].rateOut \in Nat
<1>1. IsFiniteSet(DOMAIN S) /\ DOMAIN S \subseteq Agent /\ \A a \in DOMAIN S : S[a] \in Snapshot
  BY CorrelationAssumption
<1>2. Active(S) \in SUBSET (DOMAIN S)
  BY DEF Active
<1>3. IsFiniteSet(Active(S)) /\ Cardinality(Active(S)) \in Nat
  BY <1>1, <1>2, FS_Subset, FS_CardinalityType
<1> QED BY <1>1, <1>2, <1>3 DEF Snapshot

(* A total is what is left of it without one of the agents, and that       *)
(* agent's rate.                                                           *)
LEMMA TotalEquation ==
  ASSUME NEW S \in Snapshots, NEW rate \in {"rateIn", "rateOut"}
  PROVE  \E sum, pick :
            /\ sum \in [SUBSET Active(S) -> Nat]
            /\ Picks(Active(S), pick)
            /\ sum[{}] = 0
            /\ \A s \in SUBSET Active(S) :
                 s # {} => sum[s] = S[pick[s]][rate] + sum[s \ {pick[s]}]
            /\ Total(S, rate) = sum[Active(S)]
<1> DEFINE A == Active(S)
           any(s) == CHOOSE x \in s : TRUE
           pick == [s \in SUBSET A |-> any(s)]
           step == [e \in A \X Nat |-> S[e[1]][rate] + e[2]]
           iter == CHOOSE g : g = [s \in SUBSET A |->
                                     IF s = {} THEN 0 ELSE S[any(s)][rate] + g[s \ {any(s)}]]
<1>1. Picks(A, pick) /\ \A s \in SUBSET A : pick[s] = any(s)
  BY DEF Picks
<1>2. IsFiniteSet(A) /\ \A a \in A : S[a][rate] \in Nat
  BY SnapshotFacts
<1>3. step \in [A \X Nat -> Nat]
  BY <1>2
<1>4. PICK g \in [SUBSET A -> Nat] : IsFold(g, A, 0, pick, step)
  <2>1. 0 \in Nat /\ Picks(A, pick)
    BY <1>1
  <2> HIDE DEF A, pick, step, iter
  <2> QED BY <1>2, <1>3, <2>1, FoldExists
<1> HIDE DEF A
<1>5. g = [s \in SUBSET A |-> IF s = {} THEN 0 ELSE S[any(s)][rate] + g[s \ {any(s)}]]
  BY <1>1, <1>4 DEF IsFold, Picks
<1>6. iter = [s \in SUBSET A |-> IF s = {} THEN 0 ELSE S[any(s)][rate] + iter[s \ {any(s)}]]
  BY <1>5
<1>7. Total(S, rate) = iter[A]
  BY DEF Total, MapThenSumSet, MapThenFoldSet, A
<1>8. iter[{}] = 0 /\ \A s \in SUBSET A : s # {} => iter[s] = S[pick[s]][rate] + iter[s \ {pick[s]}]
  <2> HIDE DEF iter
  <2> QED BY <1>1, <1>6
<1>9. g[{}] = 0 /\ \A s \in SUBSET A : s # {} => g[s] = S[pick[s]][rate] + g[s \ {pick[s]}]
  <2> HIDE DEF iter
  <2> QED BY <1>1, <1>5
<1> HIDE DEF iter, pick
<1>10. Agree(A, iter, g)
  <2>1. SameStep(A, iter, g, pick) /\ iter[{}] = g[{}]
    BY <1>8, <1>9 DEF SameStep
  <2> QED BY <1>1, <1>2, <2>1, FoldUnique
<1>11. Total(S, rate) = g[A]
  BY <1>7, <1>10 DEF Agree
<1> QED BY <1>1, <1>9, <1>11 DEF A

(* Times the number of active agents, a total is more than three times     *)
(* itself for each outlier.                                                *)
LEMMA OutliersWeigh ==
  ASSUME NEW S \in Snapshots, NEW rate \in {"rateIn", "rateOut"}, NEW floor \in Nat
  PROVE  LET O == Outliers(S, rate, floor)
             n == Cardinality(Active(S))
         IN /\ Cardinality(O) \in Nat /\ (O # {} => Cardinality(O) > 0)
            /\ Total(S, rate) \in Nat
            /\ n * Total(S, rate) >= Cardinality(O) * (3 * Total(S, rate) + 1)
<1> DEFINE A == Active(S)
           O == Outliers(S, rate, floor)
           n == Cardinality(A)
           T == Total(S, rate)
<1>1. IsFiniteSet(A) /\ n \in Nat /\ \A a \in A : S[a][rate] \in Nat
  BY SnapshotFacts
<1>2. PICK sum, pick :
            /\ sum \in [SUBSET A -> Nat]
            /\ Picks(A, pick)
            /\ sum[{}] = 0
            /\ \A s \in SUBSET A : s # {} => sum[s] = S[pick[s]][rate] + sum[s \ {pick[s]}]
            /\ T = sum[A]
  BY TotalEquation
<1>3. T \in Nat
  BY <1>2
<1>4. O \in SUBSET A /\ \A a \in O : S[a][rate] * n > 3 * T
  BY DEF Outliers
<1> HIDE DEF A, O, n, T
<1>5. \A s \in SUBSET A : IsFiniteSet(s \cap O) /\ Cardinality(s \cap O) \in Nat
  BY <1>1, FS_Subset, FS_CardinalityType
<1> DEFINE F == {s \in SUBSET A : n * sum[s] >= Cardinality(s \cap O) * (3 * T + 1)}
<1>6. {} \in F
  <2>1. {} \cap O = {} /\ Cardinality({}) = 0 /\ sum[{}] = 0
    BY <1>2, FS_EmptySet
  <2> QED BY <1>1, <1>3, <2>1
<1>7. ASSUME NEW s \in SUBSET A, s # {}, s \ {pick[s]} \in F PROVE s \in F
  <2> DEFINE x == pick[s]
             r == s \ {x}
             c == Cardinality(r \cap O)
  <2>1. x \in s /\ x \in A /\ S[x][rate] \in Nat /\ r \in SUBSET A /\ sum[r] \in Nat /\ sum[s] \in Nat
    BY <1>1, <1>2, <1>7 DEF Picks
  <2>2. sum[s] = S[x][rate] + sum[r]
    BY <1>2, <1>7
  <2>3. n * sum[r] >= c * (3 * T + 1) /\ c \in Nat
    BY <1>5, <1>7, <2>1
  <2>4. n * sum[s] = n * S[x][rate] + n * sum[r]
    BY <1>1, <2>1, <2>2
  <2>5. CASE x \in O
    <3>1. s \cap O = (r \cap O) \cup {x} /\ x \notin r \cap O
      BY <2>1, <2>5
    <3>2. Cardinality(s \cap O) = c + 1
      BY <1>5, <2>1, <3>1, FS_AddElement
    <3>3. n * S[x][rate] >= 3 * T + 1
      <4>1. S[x][rate] * n > 3 * T
        BY <1>4, <2>5
      <4> HIDE DEF x
      <4> QED BY <1>1, <1>3, <2>1, <4>1
    <3>4. (c + 1) * (3 * T + 1) = c * (3 * T + 1) + (3 * T + 1)
      BY <1>3, <2>3
    <3>5. n * sum[s] >= (c + 1) * (3 * T + 1)
      <4> DEFINE u == n * sum[s]
                 v == n * S[x][rate]
                 w == n * sum[r]
                 y == c * (3 * T + 1)
                 z == 3 * T + 1
      <4>1. u \in Nat /\ v \in Nat /\ w \in Nat /\ y \in Nat /\ z \in Nat
        BY <1>1, <1>3, <2>1, <2>3
      <4>2. u = v + w /\ w >= y /\ v >= z /\ (c + 1) * (3 * T + 1) = y + z
        BY <2>3, <2>4, <3>3, <3>4
      <4> HIDE DEF u, v, w, y, z
      <4>3. u >= (c + 1) * (3 * T + 1)
        BY <4>1, <4>2
      <4> QED BY <4>3 DEF u
    <3> QED BY <3>2, <3>5
  <2>6. CASE x \notin O
    <3>1. s \cap O = r \cap O
      BY <2>6
    <3>2. n * sum[s] >= c * (3 * T + 1)
      <4> DEFINE u == n * sum[s]
                 v == n * S[x][rate]
                 w == n * sum[r]
                 y == c * (3 * T + 1)
      <4>1. u \in Nat /\ v \in Nat /\ w \in Nat /\ y \in Nat
        BY <1>1, <1>3, <2>1, <2>3
      <4>2. u = v + w /\ w >= y
        BY <2>3, <2>4
      <4> HIDE DEF u, v, w, y
      <4>3. u >= y
        BY <4>1, <4>2
      <4> QED BY <4>3 DEF u, y
    <3> QED BY <3>1, <3>2
  <2> QED BY <2>5, <2>6
<1>8. SUBSET A \subseteq F
  <2>1. Closed(A, F, pick)
    <3> HIDE DEF F
    <3> QED BY <1>7 DEF Closed
  <2> HIDE DEF F
  <2> QED BY <1>1, <1>2, <1>6, <2>1, FoldInduction
<1>9. A \in F /\ A \cap O = O
  BY <1>4, <1>8
<1>10. n * T >= Cardinality(O) * (3 * T + 1)
  BY <1>2, <1>9
<1>11. IsFiniteSet(O) /\ Cardinality(O) \in Nat
  BY <1>4, <1>5, <1>9
<1>12. O # {} => Cardinality(O) > 0
  BY <1>11, FS_EmptySet
<1> QED BY <1>3, <1>10, <1>11, <1>12 DEF A, O, n, T

(* Outliers are never more than seven of ten active agents.                *)
LEMMA OutliersAreFew ==
  ASSUME NEW S \in Snapshots, NEW rate \in {"rateIn", "rateOut"}, NEW floor \in Nat,
         Outliers(S, rate, floor) # {}
  PROVE  ~IsGlobal(S, Outliers(S, rate, floor))
<1> DEFINE k == Cardinality(Outliers(S, rate, floor))
           n == Cardinality(Active(S))
           T == Total(S, rate)
<1>1. k \in Nat /\ k > 0 /\ T \in Nat /\ n * T >= k * (3 * T + 1)
  BY OutliersWeigh
<1>2. n \in Nat
  BY SnapshotFacts
<1> HIDE DEF k, n, T
<1>3. SUFFICES ASSUME 10 * k > 7 * n PROVE FALSE
  BY DEF IsGlobal, k, n
<1> DEFINE P == n * T
           Q == k * T
<1>4. P \in Nat /\ Q \in Nat
  BY <1>1, <1>2
<1>5. P >= 3 * Q + k
  BY <1>1, <1>2
<1>6. 10 * Q >= 7 * P
  <2>1. 10 * k - 7 * n \in Nat
    BY <1>1, <1>2, <1>3
  <2>2. (10 * k - 7 * n) * T >= 0
    BY <1>1, <2>1
  <2>3. (10 * k - 7 * n) * T = 10 * Q - 7 * P
    BY <1>1, <1>2
  <2> HIDE DEF P, Q
  <2> QED BY <1>4, <2>2, <2>3
<1> HIDE DEF P, Q
<1> QED BY <1>1, <1>4, <1>5, <1>6

LEMMA NoGlobalSpike ==
  ASSUME NEW S \in Snapshots, NEW hour, NEW alert \in AlertsOf(S, hour)
  PROVE  alert.type \notin {"GlobalTrafficSpike", "GlobalOutboundSpike"}
<1>1. CASE alert \in TrafficCorrelation(S)
  <2>1. PICK a : alert = Alert("IndividualTrafficSpike", {a})
    BY <1>1, OutliersAreFew DEF TrafficCorrelation, Spikes
  <2> QED BY <2>1 DEF Alert
<1>2. CASE alert \in OutboundCorrelation(S)
  <2>1. PICK a : alert = Alert("IndividualOutboundSpike", {a})
    <3> DEFINE agents == Outliers(S, "rateOut", 5000)
    <3>1. ~(agents # {} /\ IsGlobal(S, agents))
      BY OutliersAreFew
    <3>2. alert \in Spikes(S, agents, "GlobalOutboundSpike", "IndividualOutboundSpike")
      BY <1>2 DEF OutboundCorrelation
    <3> HIDE DEF agents
    <3> QED BY <3>1, <3>2 DEF Spikes
  <2> QED BY <2>1 DEF Alert
<1>3. CASE alert \in RiskCorrelation(S) \cup SharedDestinations(S) \cup TimeAnomaly(S, hour)
  BY <1>3 DEF RiskCorrelation, SharedDestinations, TimeAnomaly, Alert
<1> QED BY <1>1, <1>2, <1>3 DEF AlertsOf

(* An alert names an agent, and agents only.                               *)
LEMMA AlertsAreTyped ==
  ASSUME NEW S \in Snapshots, NEW hour, NEW alert \in AlertsOf(S, hour)
  PROVE  alert.type \in AlertTypes /\ alert.agents \in (SUBSET Agent) \ {{}}
<1> DEFINE Typed(set) == \A x \in set : x.type \in AlertTypes /\ x.agents \in (SUBSET Agent) \ {{}}
<1>1. Active(S) \in SUBSET Agent
  BY SnapshotFacts
<1>2. Cardinality({}) = 0
  BY FS_EmptySet
<1>3. ASSUME NEW agents \in SUBSET Active(S), NEW global \in AlertTypes, NEW individual \in AlertTypes
      PROVE  Typed(Spikes(S, agents, global, individual))
  BY <1>1 DEF Spikes, Alert
<1>4. Typed(TrafficCorrelation(S))
  <2>1. Outliers(S, "rateIn", 1000) \in SUBSET Active(S)
    BY DEF Outliers
  <2> QED BY <1>3, <2>1 DEF TrafficCorrelation, AlertTypes
<1>5. Typed(OutboundCorrelation(S))
  <2>1. Outliers(S, "rateOut", 5000) \in SUBSET Active(S)
    BY DEF Outliers
  <2> QED BY <1>3, <2>1 DEF OutboundCorrelation, AlertTypes
<1>6. Typed(RiskCorrelation(S))
  <2>1. Cardinality(Active(S) \cap HighRisk(S)) >= 3 => Active(S) \cap HighRisk(S) # {}
    BY <1>2
  <2>2. Active(S) \cap HighRisk(S) \in SUBSET Agent /\ Escalated(S) \in SUBSET Agent
    BY <1>1 DEF Escalated
  <2>3. IsFiniteSet(Active(S) \cap HighRisk(S))
    BY SnapshotFacts, FS_Intersection
  <2>4. Cardinality(Active(S) \cap HighRisk(S)) \in Nat
    BY <2>3, FS_CardinalityType
  <2> QED BY <2>1, <2>2, <2>4 DEF RiskCorrelation, Alert, AlertTypes
<1>7. Typed(SharedDestinations(S))
  <2>1. ASSUME NEW d \in Endpoint, Cardinality(Visitors(S, d)) >= 2
        PROVE  Visitors(S, d) \in (SUBSET Agent) \ {{}}
    BY <1>1, <1>2, <2>1 DEF Visitors
  <2> QED BY <2>1 DEF SharedDestinations, Alert, AlertTypes
<1>8. Cardinality(Active(S)) >= 2 => Typed(TimeAnomaly(S, hour))
  BY <1>1, <1>2 DEF TimeAnomaly, Alert, AlertTypes
<1>9. Cardinality(Active(S)) \in Nat
  BY SnapshotFacts
<1> HIDE DEF Typed
<1>10. Typed(AlertsOf(S, hour))
  <2>1. CASE Cardinality(Active(S)) < 2
    BY <2>1 DEF AlertsOf, Typed
  <2>2. CASE Cardinality(Active(S)) >= 2
    BY <2>2, <1>4, <1>5, <1>6, <1>7, <1>8, <1>9 DEF AlertsOf, Typed
  <2> QED BY <1>9, <2>1, <2>2
<1> QED BY <1>10 DEF Typed

CorrelationInv == CorrelationTypeOK /\ GlobalBranchIsDead /\ EscalationsAreReported

LEMMA CorrelationInitInv == CorrelationInit => CorrelationInv
BY DEF CorrelationInit, CorrelationInv, CorrelationTypeOK, GlobalBranchIsDead,
       EscalationsAreReported

LEMMA CorrelationNextInv == CorrelationInv /\ [CorrelationNext]_corVars => CorrelationInv'
<1> SUFFICES ASSUME CorrelationInv, [CorrelationNext]_corVars PROVE CorrelationInv'
  OBVIOUS
<1>1. ASSUME NEW S \in Snapshots, NEW hour \in Hours, Analyze(S, hour) PROVE CorrelationInv'
  <2>1. /\ prior' = [snap |-> S, hour |-> hour] /\ found' = AlertsOf(S, hour)
        /\ reported' = (reported \cap HighRisk(S))
                 \cup UNION {alert.agents : alert \in {f \in found' : f.type = "RiskEscalation"}}
        /\ excused' = (excused \cap HighRisk(S)) \cup Unheard(S)
    BY <1>1 DEF Analyze
  <2>2. HighRisk(S) \in SUBSET Agent
    BY CorrelationAssumption DEF HighRisk
  <2>3. CorrelationTypeOK'
    <3>1. \A alert \in found' : alert.type \in AlertTypes /\ alert.agents \in (SUBSET Agent) \ {{}}
      BY <2>1, AlertsAreTyped
    <3>2. Unheard(S) \in SUBSET Agent
      BY <2>2 DEF Unheard, Rising
    <3>3. prior'.snap \in Snapshots /\ prior'.hour \in Hours
      BY <2>1
    <3>4. reported' \in SUBSET Agent /\ excused' \in SUBSET Agent
      BY <2>1, <2>2, <3>1, <3>2
    <3> QED BY <3>1, <3>3, <3>4 DEF CorrelationTypeOK
  <2>4. GlobalBranchIsDead'
    BY <2>1, NoGlobalSpike DEF GlobalBranchIsDead
  <2>5. EscalationsAreReported'
    <3>1. SUFFICES ASSUME NEW a \in HighRisk(S) PROVE a \in reported' \cup excused'
      BY <2>1 DEF EscalationsAreReported, HighRisk
    <3>2. CASE a \in HighRisk(prior.snap)
      <4>1. prior # NoEntry
        BY <3>2 DEF NoEntry, HighRisk
      <4>2. a \in reported \cup excused
        BY <3>2, <4>1 DEF CorrelationInv, EscalationsAreReported
      <4> QED BY <2>1, <4>2
    <3>3. CASE a \in Rising(S) /\ a \in Unheard(S)
      BY <2>1, <3>3
    <3>4. CASE a \in Rising(S) /\ a \notin Unheard(S)
      <4>1. prior # NoEntry /\ ~(Cardinality(Active(S)) < 2) /\ a \in Active(S)
        BY <3>4 DEF Unheard
      <4>2. a \in Escalated(S)
        BY <3>4, <4>1 DEF Escalated, Rising
      <4>3. Alert("RiskEscalation", {a}) \in found'
        BY <2>1, <4>1, <4>2 DEF AlertsOf, RiskCorrelation
      <4>4. /\ Alert("RiskEscalation", {a}).type = "RiskEscalation"
            /\ a \in Alert("RiskEscalation", {a}).agents
        BY DEF Alert
      <4> QED BY <2>1, <4>3, <4>4
    <3> QED BY <3>2, <3>3, <3>4 DEF Rising
  <2> QED BY <2>3, <2>4, <2>5 DEF CorrelationInv
<1>2. CASE UNCHANGED corVars
  BY <1>2 DEF corVars, CorrelationInv, CorrelationTypeOK, GlobalBranchIsDead,
              EscalationsAreReported, HighRisk
<1> QED BY <1>1, <1>2 DEF CorrelationNext

LEMMA CorrelationInvHolds == CorrelationSpec => []CorrelationInv
BY CorrelationInitInv, CorrelationNextInv, PTL DEF CorrelationSpec

(* Each alert is of a known type and names agents.                         *)
THEOREM CorrelationTypes == CorrelationSpec => []CorrelationTypeOK
<1>1. CorrelationInv => CorrelationTypeOK
  BY DEF CorrelationInv
<1> QED BY <1>1, CorrelationInvHolds, PTL

(* The average includes the outliers: however many agents there are and    *)
(* whatever their rates, those three times above it are never most of them *)
(* and the alert of a global spike is never raised.                        *)
THEOREM GlobalSpikesCannotBe == CorrelationSpec => []GlobalBranchIsDead
<1>1. CorrelationInv => GlobalBranchIsDead
  BY DEF CorrelationInv
<1> QED BY <1>1, CorrelationInvHolds, PTL

(* Comparing with the entry before alone, no escalation of an active agent *)
(* is missed.                                                              *)
THEOREM NoEscalationIsMissed == CorrelationSpec => []EscalationsAreReported
<1>1. CorrelationInv => EscalationsAreReported
  BY DEF CorrelationInv
<1> QED BY <1>1, CorrelationInvHolds, PTL

-----------------------------------------------------------------------------
(* The leak detector.                                                      *)

DetectorNumbers == /\ Window \in Nat \ {0} /\ GrowthLimit \in 1..Window /\ GrowthPct \in Nat
                   /\ HangAfter \in Nat
                   /\ \A r \in Readings : r.rss \in Nat

LEMMA DetectorBounds == DetectorNumbers
BY DetectorAssumption DEF DetectorNumbers

Steady(i) == readings[i - 1].rss # 0 /\ Grew(i)

(* count[m] is detect_leak's counter after m intervals.                    *)
LEMMA CounterEquation ==
  ASSUME readings \in Seq(Readings), Len(readings) = Window + 1
  PROVE  \E count \in [0..Window -> Nat] :
            /\ count[0] = 0
            /\ \A m \in 1..Window : count[m] = CountGrowth(count[m - 1], m + 1)
            /\ FoldLeft(CountGrowth, 0, [k \in 1..Window |-> k + 1]) = count[Window]
<1> DEFINE D == 1..Window
           seq == [k \in 1..Window |-> k + 1]
           pick == [s \in SUBSET D |-> Max(s)]
           step == [e \in D \X Nat |-> CountGrowth(e[2], seq[e[1]])]
           iter == CHOOSE g : g = [s \in SUBSET DOMAIN seq |->
                     IF s = {} THEN 0 ELSE CountGrowth(g[s \ {Max(s)}], seq[Max(s)])]
<1>1. Window \in Nat /\ IsFiniteSet(D) /\ DOMAIN seq = D
  BY DetectorBounds, FS_Interval DEF DetectorNumbers
<1>2. \A s \in SUBSET D : s # {} => Max(s) \in s /\ \A y \in s : y <= Max(s)
  BY <1>1, MaxOfBounded
<1>3. Picks(D, pick) /\ \A s \in SUBSET D : pick[s] = Max(s)
  BY <1>2 DEF Picks
<1>4. step \in [D \X Nat -> Nat]
  BY DEF CountGrowth
<1>5. FoldLeft(CountGrowth, 0, seq) = iter[D]
  BY <1>1 DEF FoldLeft, MapThenFoldSet
<1>6. PICK g \in [SUBSET D -> Nat] : IsFold(g, D, 0, pick, step)
  <2>1. 0 \in Nat
    OBVIOUS
  <2> HIDE DEF D, pick, step, iter
  <2> QED BY <1>1, <1>3, <1>4, <2>1, FoldExists
<1>7. g = [s \in SUBSET D |-> IF s = {} THEN 0 ELSE CountGrowth(g[s \ {Max(s)}], seq[Max(s)])]
  <2>1. ASSUME NEW s \in SUBSET D, s # {}
        PROVE  g[s] = CountGrowth(g[s \ {Max(s)}], seq[Max(s)])
    <3>1. pick[s] = Max(s) /\ Max(s) \in D /\ g[s \ {Max(s)}] \in Nat
      BY <1>2, <1>3, <1>6, <2>1
    <3>2. g[s] = step[<<Max(s), g[s \ {Max(s)}]>>]
      BY <1>6, <2>1, <3>1 DEF IsFold
    <3> QED BY <3>1, <3>2
  <2>2. g[{}] = 0
    BY <1>6 DEF IsFold
  <2>3. g = [s \in SUBSET D |-> g[s]]
    BY <1>6
  <2> HIDE DEF D, seq
  <2> QED BY <2>1, <2>2, <2>3
<1>8. iter = [s \in SUBSET D |-> IF s = {} THEN 0 ELSE CountGrowth(iter[s \ {Max(s)}], seq[Max(s)])]
  <2> HIDE DEF seq, D
  <2> QED BY <1>1, <1>7
<1> HIDE DEF iter, D, seq, pick
<1>9. Agree(D, iter, g)
  <2>1. iter[{}] = g[{}]
    BY <1>7, <1>8
  <2>2. ASSUME NEW s \in SUBSET D, s # {}, g[s \ {pick[s]}] = iter[s \ {pick[s]}]
        PROVE  iter[s] = g[s]
    <3>1. pick[s] = Max(s)
      BY <1>3
    <3>2. /\ g[s] = CountGrowth(g[s \ {Max(s)}], seq[Max(s)])
          /\ iter[s] = CountGrowth(iter[s \ {Max(s)}], seq[Max(s)])
      BY <1>7, <1>8, <2>2
    <3> QED BY <2>2, <3>1, <3>2
  <2>3. SameStep(D, iter, g, pick)
    BY <2>2 DEF SameStep
  <2> QED BY <1>1, <1>3, <2>1, <2>3, FoldUnique
<1> DEFINE count == [m \in 0..Window |-> g[1..m]]
<1>10. \A m \in 0..Window : 1..m \in SUBSET D
  BY <1>1 DEF D
<1>11. count \in [0..Window -> Nat] /\ count[0] = 0
  <2>1. 1..0 = {}
    OBVIOUS
  <2>2. g[{}] = 0
    BY <1>7
  <2>3. count[0] = g[1..0]
    BY <1>1
  <2>4. \A m \in 0..Window : g[1..m] \in Nat
    BY <1>6, <1>10
  <2> QED BY <2>1, <2>2, <2>3, <2>4
<1>12. ASSUME NEW m \in 1..Window PROVE count[m] = CountGrowth(count[m - 1], m + 1)
  <2>1. 1..m \in SUBSET D /\ 1..m # {}
    <3>1. m \in 0..Window /\ m \in 1..m
      BY <1>1
    <3> QED BY <1>10, <3>1
  <2>2. Max(1..m) = m
    <3>1. Max(1..m) \in 1..m /\ \A y \in 1..m : y <= Max(1..m)
      BY <1>2, <2>1
    <3>2. m \in 1..m
      BY <1>1
    <3> HIDE DEF count
    <3> QED BY <3>1, <3>2
  <2>3. (1..m) \ {m} = 1..(m - 1)
    BY <1>1
  <2>4. seq[m] = m + 1
    BY DEF seq
  <2>5. g[1..m] = CountGrowth(g[1..(m - 1)], m + 1)
    <3>1. g[1..m] = CountGrowth(g[(1..m) \ {Max(1..m)}], seq[Max(1..m)])
      BY <1>7, <2>1
    <3> QED BY <2>2, <2>3, <2>4, <3>1
  <2> QED BY <1>1, <2>5
<1>13. FoldLeft(CountGrowth, 0, seq) = count[Window]
  <2>1. D \in SUBSET D /\ D = 1..Window
    BY DEF D
  <2> QED BY <1>1, <1>5, <1>9, <2>1 DEF Agree
<1> QED BY <1>11, <1>12, <1>13 DEF seq

LEMMA LeakingIsSteadyGrowth ==
  ASSUME readings \in Seq(Readings), Len(readings) = Window + 1
  PROVE  Leaking <=> \A i \in (Len(readings) - GrowthLimit + 1)..Len(readings) : Steady(i)
<1> USE DetectorBounds DEF DetectorNumbers
<1>1. PICK count \in [0..Window -> Nat] :
            /\ count[0] = 0
            /\ \A m \in 1..Window : count[m] = CountGrowth(count[m - 1], m + 1)
            /\ FoldLeft(CountGrowth, 0, [k \in 1..Window |-> k + 1]) = count[Window]
  BY CounterEquation
<1>2. \A i \in 1..(Window + 1) : readings[i].rss \in Nat
  BY DEF DetectorNumbers
<1>3. ASSUME NEW i \in 2..(Window + 1), Steady(i) PROVE readings[i].rss # 0
  <2> DEFINE a == readings[i].rss
             b == readings[i - 1].rss
  <2>1. a \in Nat /\ b \in Nat
    BY <1>2
  <2>2. a * 100 > b * (100 + GrowthPct)
    BY <1>3 DEF Steady, Grew
  <2>3. b * (100 + GrowthPct) >= 0
    <3> HIDE DEF b
    <3> QED BY <2>1
  <2> HIDE DEF a, b
  <2>4. a # 0
    BY <2>1, <2>2, <2>3
  <2> QED BY <2>4 DEF a
<1> DEFINE H(m) == /\ count[m] <= m
                   /\ readings[m + 1].rss = 0 => count[m] = 0
                   /\ \A j \in 1..m : j <= count[m] <=> \A i \in (m + 2 - j)..(m + 1) : Steady(i)
           K == {m \in Nat : m <= Window => H(m)}
<1>4. 0 \in K
  BY <1>1
<1>5. ASSUME NEW m \in K PROVE m + 1 \in K
  <2> SUFFICES ASSUME m + 1 <= Window PROVE H(m + 1)
    OBVIOUS
  <2> DEFINE c == count[m]
             d == count[m + 1]
  <2>1. m \in Nat /\ c \in Nat /\ d \in Nat /\ H(m)
    BY <1>1
  <2>6. m \in Nat /\ c \in Nat /\ d \in Nat
    BY <2>1
  <2>2. d = IF readings[m + 1].rss = 0 THEN c ELSE IF Grew(m + 2) THEN c + 1 ELSE 0
    <3>1. m + 1 \in 1..Window /\ (m + 1) - 1 = m /\ (m + 1) + 1 = m + 2 /\ (m + 2) - 1 = m + 1
      BY <2>1
    <3>2. d = CountGrowth(c, m + 2)
      BY <1>1, <3>1
    <3> HIDE DEF c, d
    <3> QED BY <3>1, <3>2 DEF CountGrowth
  <2>3. Steady(m + 2) <=> readings[m + 1].rss # 0 /\ Grew(m + 2)
    BY <2>1 DEF Steady
  <2>4. CASE Steady(m + 2)
    <3>1. d = c + 1 /\ readings[m + 2].rss # 0
      BY <1>3, <2>1, <2>2, <2>3, <2>4
    <3>2. ASSUME NEW j \in 1..(m + 1)
          PROVE  j <= d <=> \A i \in (m + 3 - j)..(m + 2) : Steady(i)
      <4>1. CASE j = 1
        BY <2>1, <2>4, <3>1, <4>1
      <4>2. CASE j # 1
        <5>1. j - 1 \in 1..m
          BY <2>1, <4>2
        <5>2. j - 1 <= c <=> \A i \in (m + 2 - (j - 1))..(m + 1) : Steady(i)
          BY <2>1, <5>1
        <5>3. (\A i \in (m + 3 - j)..(m + 2) : Steady(i))
              <=> (\A i \in (m + 2 - (j - 1))..(m + 1) : Steady(i)) /\ Steady(m + 2)
          BY <2>1, <5>1
        <5>4. j <= d <=> j - 1 <= c
          <6> HIDE DEF c, d, H
          <6> QED BY <2>6, <3>1
        <5> HIDE DEF c, d, H
        <5> QED BY <2>4, <5>2, <5>3, <5>4
      <4> QED BY <4>1, <4>2
    <3>3. d <= m + 1
      BY <2>1, <3>1
    <3>4. (m + 1) + 1 = m + 2 /\ (m + 1) + 2 = m + 3
      BY <2>1
    <3>5. readings[(m + 1) + 1].rss = 0 => d = 0
      BY <3>1, <3>4
    <3>6. \A j \in 1..(m + 1) :
             j <= d <=> \A i \in ((m + 1) + 2 - j)..((m + 1) + 1) : Steady(i)
      BY <3>2, <3>4
    <3> QED BY <3>3, <3>5, <3>6
  <2>5. CASE ~Steady(m + 2)
    <3>1. d = 0
      BY <2>1, <2>2, <2>3, <2>5
    <3>2. \A j \in 1..(m + 1) : ~ \A i \in (m + 3 - j)..(m + 2) : Steady(i)
      <4>1. \A j \in 1..(m + 1) : m + 2 \in (m + 3 - j)..(m + 2)
        BY <2>6
      <4> QED BY <2>5, <4>1
    <3>3. (m + 1) + 1 = m + 2 /\ (m + 1) + 2 = m + 3
      BY <2>6
    <3>4. ASSUME NEW j \in 1..(m + 1)
          PROVE  j <= d <=> \A i \in ((m + 1) + 2 - j)..((m + 1) + 1) : Steady(i)
      <4>1. ~(j <= d)
        <5> HIDE DEF d
        <5> QED BY <3>1
      <4>2. ~ \A i \in (m + 3 - j)..(m + 2) : Steady(i)
        BY <3>2
      <4>3. (m + 1) + 2 - j = m + 3 - j
        BY <2>6
      <4> HIDE DEF c, d, H
      <4>4. ((m + 1) + 2 - j)..((m + 1) + 1) = (m + 3 - j)..(m + 2)
        BY <3>3, <4>3, Zenon
      <4>5. ~ \A i \in ((m + 1) + 2 - j)..((m + 1) + 1) : Steady(i)
        BY <4>2, <4>4, Zenon
      <4> QED BY <4>1, <4>5, Zenon
    <3>5. d <= m + 1
      <4> HIDE DEF d
      <4> QED BY <2>6, <3>1
    <3>6. readings[(m + 1) + 1].rss = 0 => d = 0
      BY <3>1
    <3>7. \A j \in 1..(m + 1) :
             j <= d <=> \A i \in ((m + 1) + 2 - j)..((m + 1) + 1) : Steady(i)
      BY <3>4, Zenon
    <3> QED BY <3>5, <3>6, <3>7
  <2> QED BY <2>4, <2>5
<1>6. K = Nat
  <2>1. K \in SUBSET Nat
    OBVIOUS
  <2> HIDE DEF K
  <2> QED BY <1>4, <1>5, <2>1, NatSetInduction
<1>7. H(Window)
  <2>1. Window \in K
    BY <1>6
  <2> QED BY <2>1
<1>8. GrowthLimit \in 1..Window /\ count[Window] \in Nat
  BY <1>1
<1>9. GrowthLimit <= count[Window]
      <=> \A i \in (Window + 2 - GrowthLimit)..(Window + 1) : Steady(i)
  BY <1>7, <1>8
<1>10. Leaking <=> count[Window] >= GrowthLimit
  BY <1>1 DEF Leaking
<1>11. Len(readings) - GrowthLimit + 1 = Window + 2 - GrowthLimit
  BY <1>8
<1> QED BY <1>8, <1>9, <1>10, <1>11

(* Before the window is full no verdict has been that the process leaks.   *)
NoLeakTooSoon == Len(readings) <= Window => ~flags.leaking

DetectorInv == DetectorTypeOK /\ NoLeakTooSoon /\ LeakIsSteadyGrowth

LEMMA DetectorInitInv == DetectorInit => DetectorInv
<1> SUFFICES ASSUME DetectorInit PROVE DetectorInv
  OBVIOUS
<1> USE DetectorBounds DEF DetectorNumbers
<1>1. readings = <<>> /\ quiet = 0 /\ flags = NoFlags /\ judged = TRUE
  BY DEF DetectorInit
<1>2. NoFlags \in [DOMAIN NoFlags -> BOOLEAN]
  <2>1. \A k \in DOMAIN NoFlags : NoFlags[k] \in BOOLEAN
    <3>1. DOMAIN NoFlags = {"leaking", "runaway", "exhausted", "exploded", "hung"}
      BY DEF NoFlags
    <3>2. /\ NoFlags["leaking"] = FALSE /\ NoFlags["runaway"] = FALSE
          /\ NoFlags["exhausted"] = FALSE /\ NoFlags["exploded"] = FALSE
          /\ NoFlags["hung"] = FALSE
      BY DEF NoFlags
    <3> QED BY <3>1, <3>2
  <2>2. NoFlags = [k \in DOMAIN NoFlags |-> NoFlags[k]]
    BY DEF NoFlags
  <2> QED BY <2>1, <2>2
<1>3. NoFlags.leaking = FALSE
  BY DEF NoFlags
<1> QED BY <1>1, <1>2, <1>3 DEF DetectorInv, DetectorTypeOK, NoLeakTooSoon, LeakIsSteadyGrowth

LEMMA DetectorNextInv == DetectorInv /\ [DetectorNext]_detectorVars => DetectorInv'
<1> SUFFICES ASSUME DetectorInv, [DetectorNext]_detectorVars PROVE DetectorInv'
  OBVIOUS
<1> USE DetectorBounds DEF DetectorNumbers
<1>1. /\ readings \in Seq(Readings) /\ Len(readings) <= Window + 1
      /\ quiet \in 0..(HangAfter + 1)
      /\ flags \in [DOMAIN NoFlags -> BOOLEAN] /\ judged \in BOOLEAN
      /\ NoLeakTooSoon
  BY DEF DetectorInv, DetectorTypeOK
<1>2. ASSUME NEW r \in Readings, RecordSample(r) PROVE DetectorInv'
  <2>1. /\ readings' = IF Len(readings) > Window THEN Append(Tail(readings), r) ELSE Append(readings, r)
        /\ quiet' \in {0, HangAfter + 1} /\ judged' = FALSE /\ flags' = flags
    BY <1>2 DEF RecordSample, Size
  <2>2. /\ readings' \in Seq(Readings) /\ Len(readings') <= Window + 1
        /\ Len(readings') <= Window => Len(readings) <= Window
    BY <1>1, <2>1
  <2>3. DetectorTypeOK'
    <3>1. flags' \in [DOMAIN NoFlags -> BOOLEAN]
      BY <1>1, <2>1
    <3>2. quiet' \in 0..(HangAfter + 1)
      BY <2>1
    <3>3. judged' \in BOOLEAN
      BY <2>1
    <3> QED BY <2>2, <3>1, <3>2, <3>3 DEF DetectorTypeOK
  <2>4. NoLeakTooSoon' /\ LeakIsSteadyGrowth'
    BY <1>1, <2>1, <2>2 DEF NoLeakTooSoon, LeakIsSteadyGrowth
  <2> QED BY <2>3, <2>4 DEF DetectorInv
<1>3. CASE Pause
  <2>1. quiet' \in 0..(HangAfter + 1) /\ UNCHANGED <<readings, flags, judged>>
    BY <1>1, <1>3 DEF Pause
  <2> QED BY <1>1, <2>1 DEF DetectorInv, DetectorTypeOK, NoLeakTooSoon, LeakIsSteadyGrowth, Grew
<1>4. CASE Detect
  <2>1. /\ flags' = [leaking |-> DetectLeak, runaway |-> DetectRunaway, exploded |-> DetectExplosion,
                     exhausted |-> DetectExhaustion, hung |-> DetectHang]
        /\ judged' = TRUE /\ UNCHANGED <<readings, quiet>>
    BY <1>4 DEF Detect
  <2>2. \A k \in DOMAIN NoFlags : flags[k] \in BOOLEAN
    BY <1>1
  <2>3. flags.leaking \in BOOLEAN /\ flags.runaway \in BOOLEAN /\ flags.exploded \in BOOLEAN
        /\ flags.exhausted \in BOOLEAN /\ flags.hung \in BOOLEAN
    BY <2>2 DEF NoFlags
  <2>4. DetectLeak \in BOOLEAN /\ DetectRunaway \in BOOLEAN /\ DetectExplosion \in BOOLEAN
        /\ DetectExhaustion \in BOOLEAN /\ DetectHang \in BOOLEAN
    <3>1. Leaking \in BOOLEAN /\ Runaway \in BOOLEAN /\ Exploded \in BOOLEAN
          /\ Exhausted \in BOOLEAN /\ Hung \in BOOLEAN
      <4>1. Leaking \in BOOLEAN
        BY DEF Leaking
      <4>2. Runaway \in BOOLEAN
        BY DEF Runaway
      <4>3. Exploded \in BOOLEAN
        BY DEF Exploded
      <4>4. Exhausted \in BOOLEAN
        BY DEF Exhausted
      <4>5. Hung \in BOOLEAN
        BY DEF Hung
      <4> QED BY <4>1, <4>2, <4>3, <4>4, <4>5
    <3> QED BY Zenon, <2>3, <3>1
            DEF DetectLeak, DetectRunaway, DetectExplosion, DetectExhaustion, DetectHang
  <2>5. flags' \in [DOMAIN NoFlags -> BOOLEAN]
    BY <2>1, <2>4 DEF NoFlags
  <2>6. flags'.leaking = DetectLeak
    BY <2>1
  <2>7. CASE Len(readings) > Window
    <3>1. Len(readings) = Window + 1
      BY <1>1, <2>7
    <3>2. flags'.leaking = Leaking
      BY <2>6, <2>7 DEF DetectLeak, Size
    <3>3. LeakIsSteadyGrowth'
      BY <1>1, <2>1, <2>7, <3>1, <3>2, LeakingIsSteadyGrowth DEF LeakIsSteadyGrowth, Steady, Grew
    <3> QED BY <1>1, <2>1, <2>5, <2>7, <3>3 DEF DetectorInv, DetectorTypeOK, NoLeakTooSoon
  <2>8. CASE Len(readings) <= Window
    <3>1. ~flags'.leaking
      BY <1>1, <2>6, <2>8 DEF DetectLeak, Size, NoLeakTooSoon
    <3> QED BY <1>1, <2>1, <2>5, <2>8, <3>1
            DEF DetectorInv, DetectorTypeOK, NoLeakTooSoon, LeakIsSteadyGrowth
  <2>9. Len(readings) \in Nat
    BY <1>1
  <2> QED BY <2>7, <2>8, <2>9
<1>5. CASE UNCHANGED detectorVars
  BY <1>1, <1>5 DEF detectorVars, DetectorInv, DetectorTypeOK, NoLeakTooSoon,
                    LeakIsSteadyGrowth, Grew
<1> QED BY <1>2, <1>3, <1>4, <1>5 DEF DetectorNext

LEMMA DetectorInvHolds == DetectorSpec => []DetectorInv
BY DetectorInitInv, DetectorNextInv, PTL DEF DetectorSpec

(* Type correctness of the detectors.                                      *)
THEOREM DetectorTypes == DetectorSpec => []DetectorTypeOK
<1>1. DetectorInv => DetectorTypeOK
  BY DEF DetectorInv
<1> QED BY <1>1, DetectorInvHolds, PTL

(* The loop of detect_leak, which counts over the whole window and passes  *)
(* over readings of 0, decides whether the last GrowthLimit intervals all  *)
(* show growth, for every window and every limit.                          *)
THEOREM LeakVerdictIsExact == DetectorSpec => []LeakIsSteadyGrowth
<1>1. DetectorInv => LeakIsSteadyGrowth
  BY DEF DetectorInv
<1> QED BY <1>1, DetectorInvHolds, PTL

-----------------------------------------------------------------------------
(* The security pipeline.                                                  *)

(* The first of the rules that match is one of them, and what it orders is *)
(* one of the actions.                                                     *)
WellFormed(rules) == \A r \in rules : r.priority \in 1..100 /\ r.action \in Actions

LEMMA FirstOfRules ==
  ASSUME NEW rules, WellFormed(rules), rules # {}
  PROVE  FirstOf(rules) \in rules
<1> DEFINE P == {r.priority : r \in rules}
<1>1. P \in SUBSET (1..100) /\ P # {}
  BY DEF WellFormed
<1>2. Max(P) \in P /\ \A y \in P : y <= Max(P)
  <2> HIDE DEF P
  <2> QED BY <1>1, MaxOfBounded
<1>3. PICK r \in rules : r.priority = Max(P)
  BY <1>2
<1>4. \A q \in rules : q.priority <= r.priority
  BY <1>2, <1>3
<1> QED BY <1>4 DEF FirstOf

LEMMA DefaultPolicyActs ==
  ASSUME NEW c PROVE Evaluate(<<DestinationSecurity>>, c) \in Actions
<1> DEFINE ps == <<DestinationSecurity>>
<1>1. CASE ~SomeRuleMatches(ps, c)
  BY <1>1 DEF Evaluate, Actions
<1>2. CASE SomeRuleMatches(ps, c)
  <2>1. DOMAIN ps = {1} /\ ps[1] = DestinationSecurity
    OBVIOUS
  <2> HIDE DEF ps
  <2>2. Matching(ps[1], c) # {}
    BY <1>2, <2>1 DEF SomeRuleMatches
  <2> DEFINE first == CHOOSE i \in DOMAIN ps : /\ Matching(ps[i], c) # {}
                                               /\ \A j \in 1..(i - 1) : Matching(ps[j], c) = {}
  <2>3. first = 1
    <3>1. 1..(1 - 1) = {}
      OBVIOUS
    <3> QED BY <2>1, <2>2, <3>1
  <2>4. WellFormed(DestinationSecurity)
    BY DEF WellFormed, DestinationSecurity, Rule, Actions
  <2>5. WellFormed(Matching(ps[1], c)) /\ Matching(ps[1], c) \in SUBSET DestinationSecurity
    BY <2>1, <2>4 DEF WellFormed, Matching
  <2>6. FirstOf(Matching(ps[1], c)).action \in Actions
    <3>1. FirstOf(Matching(ps[1], c)) \in Matching(ps[1], c)
      BY <2>2, <2>5, FirstOfRules
    <3> QED BY <2>5, <3>1 DEF WellFormed
  <2> HIDE DEF first
  <2>7. MatchedAction(ps, c) \in Actions
    BY <2>3, <2>6 DEF MatchedAction, first
  <2> QED BY <1>2, <2>7 DEF Evaluate, ps
<1> QED BY <1>1, <1>2

-----------------------------------------------------------------------------
(* The profiles an agent may have when the tracker has seen now, d days    *)
(* after it was registered; moved says that the clock was set since then,  *)
(* and e that the agent is established.                                    *)
Profile == [state : States, samples : 0..RequiredSamples, known : SUBSET Dest, risk : 0..100]

Trained(a, d, moved) ==
  /\ a.state # "Established" => a.risk = 0
  /\ a.state \in {"Training", "Established"} => a.samples = RequiredSamples
  /\ a.state = "Established" => moved \/ d > RequiredDays

Profiles(now, d, moved, e) ==
  {a \in Profile : a.known \subseteq now /\ Trained(a, d, moved) /\ (e => a.state = "Established")}

LEMMA SecurityBounds ==
  /\ RequiredDays \in Nat /\ RequiredSamples \in Nat /\ MaxAnomalies \in Nat /\ IsFiniteSet(Dest)
  /\ MaxDays \in Nat
BY SecurityAssumption

LEMMA PointsAreNatural ==
  ASSUME NEW before, NEW after \in SUBSET Dest, NEW unusual
  PROVE  Points(before, after, unusual) \in Nat
<1>1. Cardinality(after) \in Nat
  BY SecurityBounds, FS_Subset, FS_CardinalityType
<1>2. AtMost(15 * Cardinality(after), 40) \in Nat
  BY <1>1 DEF AtMost
<1> QED BY <1>2 DEF Points

LEMMA ActivityKeepsProfile ==
  ASSUME NEW now \in SUBSET Dest, NEW d \in Int, NEW moved \in BOOLEAN, NEW e \in BOOLEAN,
         d < 0 => moved, NEW a \in Profiles(now, d, moved, e),
         NEW c \in [dest : now, days : {d}, unusual : BOOLEAN]
  PROVE  RecordActivity(a, c) \in Profiles(now, d, moved, e)
<1> USE SecurityBounds
<1> DEFINE samples == AtMost(a.samples + 1, RequiredSamples)
           state == Learn(a.state, samples, d)
           known == a.known \cup {c.dest}
           b == [state |-> state, samples |-> samples, known |-> known, risk |-> a.risk]
           r == AtMost(a.risk + Points(a.known, known, c.unusual), 100)
<1>1. /\ a.state \in States /\ a.samples \in 0..RequiredSamples /\ a.risk \in 0..100
      /\ a.known \in SUBSET now /\ Trained(a, d, moved) /\ (e => a.state = "Established")
      /\ a = [state |-> a.state, samples |-> a.samples, known |-> a.known, risk |-> a.risk]
  BY DEF Profiles, Profile
<1>2. c.dest \in now /\ c.days = d
  OBVIOUS
<1>3. samples \in 0..RequiredSamples /\ (a.samples = RequiredSamples => samples = RequiredSamples)
      /\ (samples >= RequiredSamples => samples = RequiredSamples)
  BY <1>1 DEF AtMost
<1>4. known \in SUBSET now
  BY <1>1, <1>2
<1>5. r \in 0..100
  <2>1. Points(a.known, known, c.unusual) \in Nat
    BY <1>4, PointsAreNatural
  <2> HIDE DEF known
  <2> QED BY <1>1, <2>1 DEF AtMost
<1>6. /\ state \in States
      /\ state \in {"Training", "Established"} => samples = RequiredSamples
      /\ state = "Established" => moved \/ d > RequiredDays
      /\ a.state = "Established" => state = "Established"
      /\ state # "Established" => a.risk = 0
  <2> HIDE DEF samples
  <2> QED BY <1>1, <1>3 DEF Learn, DaysObserved, States, Trained
<1> DEFINE w == WithDestination(a, c.dest)
<1>7. w = [state |-> a.state, samples |-> a.samples, known |-> known, risk |-> a.risk]
  <2> QED BY <1>1 DEF WithDestination
<1>8. RecordActivity(a, c) = IF state = "Established" THEN [b EXCEPT !.risk = r] ELSE b
  <2>1. [w EXCEPT !.samples = samples, !.state = Learn(a.state, samples, c.days)] = b
    <3>1. Learn(a.state, samples, c.days) = state
      BY <1>2
    <3> DEFINE v == [w EXCEPT !.samples = samples]
    <3> HIDE DEF samples, known, state, w, v
    <3>2. v = [state |-> a.state, samples |-> samples, known |-> known, risk |-> a.risk]
      BY <1>7 DEF v
    <3>3. [v EXCEPT !.state = state] = b
      BY <3>2
    <3>4. [w EXCEPT !.samples = samples, !.state = state] = [v EXCEPT !.state = state]
      BY DEF v
    <3> QED BY <3>1, <3>3, <3>4
  <2>2. b.state = state /\ b.known = known /\ b.risk = a.risk
    OBVIOUS
  <2> HIDE DEF b, samples, w
  <2> DEFINE u == [w EXCEPT !.samples = samples, !.state = Learn(a.state, samples, c.days)]
  <2>3. RecordActivity(a, c)
        = IF CanAlert(b)
          THEN [b EXCEPT !.risk = AtMost(b.risk + Points(a.known, b.known, c.unusual), 100)]
          ELSE b
    <3>1. RecordActivity(a, c)
          = IF CanAlert(u)
            THEN [u EXCEPT !.risk = AtMost(u.risk + Points(a.known, u.known, c.unusual), 100)]
            ELSE u
      BY Zenon DEF RecordActivity, samples, w
    <3> HIDE DEF u
    <3> QED BY <2>1, <3>1 DEF u
  <2> HIDE DEF state, known
  <2> QED BY <2>2, <2>3 DEF CanAlert
<1> HIDE DEF samples, state, known, r
<1>9. CASE state = "Established"
  <2>1. RecordActivity(a, c) = [state |-> state, samples |-> samples, known |-> known, risk |-> r]
    BY <1>8, <1>9
  <2> QED BY <1>1, <1>3, <1>4, <1>5, <1>6, <1>9, <2>1 DEF Profiles, Profile, Trained
<1>10. CASE state # "Established"
  <2>1. RecordActivity(a, c) = b
    BY <1>8, <1>10
  <2> QED BY <1>1, <1>3, <1>4, <1>6, <1>10, <2>1 DEF Profiles, Profile, Trained
<1> QED BY <1>9, <1>10

(* What the connections of one turn make of a profile.                     *)
LEMMA FeedKeepsProfile ==
  ASSUME NEW now \in SUBSET Dest, NEW d \in Int, NEW moved \in BOOLEAN, NEW e \in BOOLEAN,
         d < 0 => moved, NEW start \in Profiles(now, d, moved, e),
         NEW n \in Nat, NEW feed \in [1..n -> [dest : now, days : {d}, unusual : BOOLEAN]]
  PROVE  FoldLeft(RecordActivity, start, feed) \in Profiles(now, d, moved, e)
<1> DEFINE D == 1..n
           V == Profiles(now, d, moved, e)
           pick == [s \in SUBSET D |-> Max(s)]
           step == [x \in D \X V |-> RecordActivity(x[2], feed[x[1]])]
           iter == CHOOSE g : g = [s \in SUBSET DOMAIN feed |->
                     IF s = {} THEN start ELSE RecordActivity(g[s \ {Max(s)}], feed[Max(s)])]
<1>1. IsFiniteSet(D) /\ DOMAIN feed = D
  BY FS_Interval
<1>2. \A s \in SUBSET D : s # {} => Max(s) \in s /\ \A y \in s : y <= Max(s)
  BY MaxOfBounded
<1>3. Picks(D, pick) /\ \A s \in SUBSET D : pick[s] = Max(s)
  BY <1>2 DEF Picks
<1>4. step \in [D \X V -> V]
  <2> HIDE DEF V
  <2>1. \A x \in D \X V : RecordActivity(x[2], feed[x[1]]) \in V
    BY ActivityKeepsProfile DEF V
  <2> QED BY <2>1
<1>5. FoldLeft(RecordActivity, start, feed) = iter[D]
  BY <1>1 DEF FoldLeft, MapThenFoldSet
<1>6. PICK g \in [SUBSET D -> V] : IsFold(g, D, start, pick, step)
  <2>1. start \in V
    OBVIOUS
  <2> HIDE DEF D, V, pick, step, iter
  <2> QED BY <1>1, <1>3, <1>4, <2>1, FoldExists
<1> HIDE DEF V
<1>7. g = [s \in SUBSET D |-> IF s = {} THEN start ELSE RecordActivity(g[s \ {Max(s)}], feed[Max(s)])]
  <2>1. ASSUME NEW s \in SUBSET D, s # {}
        PROVE  g[s] = RecordActivity(g[s \ {Max(s)}], feed[Max(s)])
    <3>1. pick[s] = Max(s) /\ Max(s) \in D /\ g[s \ {Max(s)}] \in V
      BY <1>2, <1>3, <1>6, <2>1
    <3>2. g[s] = step[<<Max(s), g[s \ {Max(s)}]>>]
      BY <1>6, <2>1, <3>1 DEF IsFold
    <3> QED BY <3>1, <3>2
  <2>2. g[{}] = start
    BY <1>6 DEF IsFold
  <2>3. g = [s \in SUBSET D |-> g[s]]
    BY <1>6
  <2> HIDE DEF D
  <2> QED BY <2>1, <2>2, <2>3
<1>8. iter = [s \in SUBSET D |-> IF s = {} THEN start
                                 ELSE RecordActivity(iter[s \ {Max(s)}], feed[Max(s)])]
  <2> HIDE DEF D
  <2> QED BY <1>1, <1>7
<1> HIDE DEF iter, D, pick
<1>9. Agree(D, iter, g)
  <2>1. iter[{}] = g[{}]
    BY <1>7, <1>8
  <2>2. ASSUME NEW s \in SUBSET D, s # {}, g[s \ {pick[s]}] = iter[s \ {pick[s]}]
        PROVE  iter[s] = g[s]
    <3>1. pick[s] = Max(s)
      BY <1>3
    <3>2. /\ g[s] = RecordActivity(g[s \ {Max(s)}], feed[Max(s)])
          /\ iter[s] = RecordActivity(iter[s \ {Max(s)}], feed[Max(s)])
      BY <1>7, <1>8, <2>2
    <3> QED BY <2>2, <3>1, <3>2
  <2>3. SameStep(D, iter, g, pick)
    BY <2>2 DEF SameStep
  <2> QED BY <1>1, <1>3, <2>1, <2>3, FoldUnique
<1>10. iter[D] = g[D] /\ g[D] \in V
  BY <1>6, <1>9 DEF Agree
<1> QED BY <1>5, <1>10 DEF V

-----------------------------------------------------------------------------
(* The inductive invariant: a process that is not registered has no entry, *)
(* and a profile is one its destinations and days allow.                   *)
NewcomersAreUnknown == \A p \in AgentPid : agent[p].state = "none" => agent[p] = Unregistered

ProfilesAreTrained == \A p \in AgentPid : Trained(agent[p], days[p], p \in clockSet)

\* Only a clock that was set reads a time before a registration.
BehindIsSet == \A p \in AgentPid : days[p] < 0 => p \in clockSet

SpokenOfAreEstablished ==
  /\ \A i \in DOMAIN anomalies : agent[anomalies[i].pid].state = "Established"
  /\ decision # NoDecision => agent[decision.pid].state = "Established"
  /\ \A p \in acted : agent[p].state = "Established"

SecurityInv == /\ SecurityTypeOK /\ NewcomersAreUnknown /\ ProfilesAreTrained /\ BehindIsSet
               /\ SpokenOfAreEstablished /\ ProfileWasSeen

LEMMA SecurityInvImplies == SecurityInv => SilentWhileLearning /\ EstablishedAfterTraining
<1> SUFFICES ASSUME SecurityInv PROVE SilentWhileLearning /\ EstablishedAfterTraining
  OBVIOUS
<1>1. /\ anomalies \in Seq(Anomaly) /\ decision \in Decision \cup {NoDecision}
      /\ ProfilesAreTrained /\ SpokenOfAreEstablished
  BY DEF SecurityInv, SecurityTypeOK
<1>2. SilentWhileLearning
  <2>1. ASSUME NEW p \in AgentPid, agent[p].state # "Established"
        PROVE  /\ agent[p].risk = 0 /\ decision.pid # p /\ p \notin acted
               /\ \A i \in DOMAIN anomalies : anomalies[i].pid # p
    <3>1. agent[p].risk = 0
      BY <1>1, <2>1 DEF ProfilesAreTrained, Trained
    <3>2. decision.pid # p
      <4>1. CASE decision = NoDecision
        BY <4>1, AgentPidAssumption DEF NoDecision
      <4>2. CASE decision # NoDecision
        BY <1>1, <2>1, <4>2 DEF SpokenOfAreEstablished
      <4> QED BY <4>1, <4>2
    <3> QED BY <1>1, <2>1, <3>1, <3>2 DEF SpokenOfAreEstablished
  <2> QED BY <2>1 DEF SilentWhileLearning
<1>3. EstablishedAfterTraining
  BY <1>1 DEF EstablishedAfterTraining, ProfilesAreTrained, Trained
<1> QED BY <1>2, <1>3

LEMMA SecurityInitInv == SecurityInit => SecurityInv
<1> SUFFICES ASSUME SecurityInit PROVE SecurityInv
  OBVIOUS
<1> USE SecurityBounds
<1>1. /\ sockets = [p \in AgentPid |-> {}] /\ heard = {} /\ seen = [p \in AgentPid |-> {}]
      /\ agent = [p \in AgentPid |-> Unregistered]
      /\ prints = [p \in AgentPid |-> NoPrint] /\ days = [p \in AgentPid |-> 0] /\ clockSet = {}
      /\ anomalies = <<>> /\ decision = NoDecision
      /\ gated \in BOOLEAN /\ acted = {}
  BY DEF SecurityInit
<1>2. SecurityTypeOK
  <2>1. Unregistered \in [state : States \cup {"none"}, samples : 0..RequiredSamples,
                          known : SUBSET Dest, risk : 0..100]
    BY DEF Unregistered
  <2> HIDE DEF Unregistered
  <2>2. agent \in [AgentPid -> [state : States \cup {"none"}, samples : 0..RequiredSamples,
                                known : SUBSET Dest, risk : 0..100]]
    BY <1>1, <2>1
  <2>3. prints \in [AgentPid -> (SUBSET Dest) \cup {NoPrint}]
        /\ days \in [AgentPid -> -MaxDays..MaxDays]
    BY <1>1
  <2>4. anomalies \in Seq(Anomaly) /\ Len(anomalies) <= MaxAnomalies
    BY <1>1
  <2> QED BY <1>1, <2>2, <2>3, <2>4 DEF SecurityTypeOK
<1>3. \A p \in AgentPid : agent[p] = Unregistered
  BY <1>1
<1>4. NewcomersAreUnknown /\ ProfilesAreTrained /\ BehindIsSet /\ ProfileWasSeen
  <2>1. Unregistered.state = "none" /\ Unregistered.risk = 0
    BY DEF Unregistered
  <2> QED BY <1>1, <1>3, <2>1
          DEF NewcomersAreUnknown, ProfilesAreTrained, BehindIsSet, Trained, ProfileWasSeen, Registered
<1>5. SpokenOfAreEstablished
  BY <1>1 DEF SpokenOfAreEstablished
<1> QED BY <1>2, <1>4, <1>5 DEF SecurityInv

(* What a turn finds is about its own agent, if that is established.       *)
LEMMA FindingsAreAboutEstablished ==
  ASSUME NEW p \in AgentPid, NEW now, NEW newHour, NEW a, a.risk \in 0..100,
         NEW sent \in Parts(Found(p, a, now, newHour))
  PROVE  /\ sent \in Seq(Anomaly)
         /\ \A i \in DOMAIN sent : sent[i].pid = p /\ a.state = "Established"
<1> DEFINE new == [pid |-> p, type |-> "NewDestination", risk |-> a.risk]
           drift == [pid |-> p, type |-> "FingerprintDrift", risk |-> a.risk]
           finds == Found(p, a, now, newHour)
<1>1. new \in Anomaly /\ drift \in Anomaly /\ new.pid = p /\ drift.pid = p
  BY DEF Anomaly
<1> HIDE DEF new, drift
<1>2. finds \in Seq({new, drift}) /\ (finds # <<>> => CanAlert(a))
  <2>1. NewDestinations(p, a, now) \in {<<>>, <<new>>}
        /\ (NewDestinations(p, a, now) # <<>> => CanAlert(a))
    BY DEF NewDestinations, new
  <2>2. FingerprintDrift(p, a, now, newHour) \in {<<>>, <<drift>>}
        /\ (FingerprintDrift(p, a, now, newHour) # <<>> => CanAlert(a))
    BY DEF FingerprintDrift, drift
  <2>3. <<>> \o <<>> = <<>>
    OBVIOUS
  <2>4. finds \in Seq({new, drift})
    <3>1. {<<>>, <<new>>, <<drift>>} \subseteq Seq({new, drift})
      OBVIOUS
    <3> QED BY <2>1, <2>2, <3>1, ConcatProperties DEF Found
  <2> QED BY <2>1, <2>2, <2>3, <2>4 DEF Found
<1> HIDE DEF finds
<1>3. sent = <<>> \/ sent = finds \/ \E i \in DOMAIN finds : sent = <<finds[i]>>
  BY DEF Parts, finds
<1>4. \A i \in DOMAIN finds : finds[i] \in {new, drift} /\ finds # <<>>
  BY <1>2
<1>5. sent \in Seq({new, drift}) /\ (sent # <<>> => CanAlert(a))
  <2>1. CASE sent = <<>>
    BY <2>1
  <2>2. CASE sent = finds
    BY <1>2, <2>2
  <2>3. ASSUME NEW i \in DOMAIN finds, sent = <<finds[i]>>
        PROVE  sent \in Seq({new, drift}) /\ CanAlert(a)
    BY <1>2, <1>4, <2>3
  <2> QED BY <1>3, <2>1, <2>2, <2>3
<1>6. \A i \in DOMAIN sent : sent[i] \in {new, drift} /\ sent # <<>>
  BY <1>5
<1>7. sent \in Seq(Anomaly)
  BY <1>1, <1>5
<1> QED BY <1>1, <1>5, <1>6, <1>7 DEF CanAlert

LEMMA CycleKeepsInv ==
  ASSUME SecurityInv, NEW p \in AgentPid, NEW stale \in SUBSET seen[p],
         NEW tracked \in Orders(Tracked(p, stale)), NEW unusual \in BOOLEAN, NEW newHour \in BOOLEAN,
         Cycle(p, tracked, unusual, newHour)
  PROVE  SecurityInv'
<1> USE SecurityBounds
<1> DEFINE start == IF agent[p] = Unregistered THEN Fresh ELSE agent[p]
           now == Collected(p)
           feed == [i \in DOMAIN tracked |->
                      [dest |-> tracked[i], days |-> days[p], unusual |-> unusual]]
           a == FoldLeft(RecordActivity, start, feed)
           finds == Found(p, a, now, newHour)
           d == days[p]
           set == p \in clockSet
           e == agent[p].state = "Established"
           n == Cardinality(Tracked(p, stale))
           Agents == [state : States \cup {"none"}, samples : 0..RequiredSamples,
                      known : SUBSET Dest, risk : 0..100]
<1>1. /\ sockets[p] \in SUBSET Dest /\ seen[p] \in SUBSET Dest /\ d \in Int /\ (d < 0 => set)
      /\ agent[p] \in Agents /\ seen \in [AgentPid -> SUBSET Dest] /\ agent \in [AgentPid -> Agents]
      /\ prints \in [AgentPid -> (SUBSET Dest) \cup {NoPrint}] /\ anomalies \in Seq(Anomaly)
  BY DEF SecurityInv, SecurityTypeOK, BehindIsSet
<1>2. now \in SUBSET Dest /\ Tracked(p, stale) \in SUBSET now
  BY <1>1 DEF Collected, Tracked, Connected
<1>3. n \in Nat /\ tracked \in [1..n -> Tracked(p, stale)]
  BY <1>2, FS_Subset, FS_CardinalityType DEF Orders
<1>4. feed \in [1..n -> [dest : now, days : {d}, unusual : BOOLEAN]]
  <2> HIDE DEF n, now, d
  <2> QED BY <1>2, <1>3 DEF d
<1>5. start \in Profiles(now, d, set, e)
  <2>1. CASE agent[p] = Unregistered
    <3>1. start = [state |-> "Learning", samples |-> 0, known |-> {}, risk |-> 0]
      BY <2>1 DEF Fresh, Unregistered
    <3>2. agent[p].state # "Established"
      BY <2>1 DEF Unregistered
    <3> HIDE DEF start, now
    <3> QED BY <3>1, <3>2 DEF Profiles, Profile, Trained, States
  <2>2. CASE agent[p] # Unregistered
    <3>1. agent[p].state # "none"
      BY <2>2 DEF SecurityInv, NewcomersAreUnknown
    <3>2. agent[p] \in Profile
      BY <1>1, <3>1 DEF Profile
    <3>3. agent[p].known \in SUBSET now /\ Trained(agent[p], d, set)
      BY <3>1 DEF SecurityInv, ProfilesAreTrained, ProfileWasSeen, Registered, Collected
    <3>4. start = agent[p]
      BY <2>2
    <3> HIDE DEF start, now, d
    <3> QED BY <3>2, <3>3, <3>4 DEF Profiles
  <2> QED BY <2>1, <2>2
<1>6. a \in Profiles(now, d, set, e)
  <2>1. e \in BOOLEAN /\ set \in BOOLEAN
    OBVIOUS
  <2> HIDE DEF start, now, feed, d, set, e, n
  <2> QED BY <1>1, <1>2, <1>3, <1>4, <1>5, <2>1, FeedKeepsProfile
<1> HIDE DEF a, now, start, feed
<1>7. /\ a \in Profile /\ a.known \subseteq now /\ Trained(a, d, set) /\ (e => a.state = "Established")
      /\ a.state # "none" /\ a.risk \in 0..100 /\ a \in Agents
  BY <1>6 DEF Profiles, Profile, States
<1>8. PICK sent \in Parts(finds) : /\ Len(anomalies) + Len(sent) <= MaxAnomalies
                                   /\ anomalies' = anomalies \o sent
  BY DEF Cycle, a, now, start, feed
<1>9. /\ heard' = heard \ {p} /\ seen' = [seen EXCEPT ![p] = now] /\ agent' = [agent EXCEPT ![p] = a]
      /\ prints' = [prints EXCEPT ![p] = now]
      /\ UNCHANGED <<sockets, calendar, decision, gated, acted>>
  BY DEF Cycle, Finalize, PrintOf, a, now, start, feed
<1>10. /\ sent \in Seq(Anomaly)
       /\ \A i \in DOMAIN sent : sent[i].pid = p /\ a.state = "Established"
  BY <1>7, <1>8, FindingsAreAboutEstablished
<1> HIDE DEF finds, e
<1>11. /\ agent' \in [AgentPid -> Agents] /\ agent'[p] = a
       /\ \A q \in AgentPid \ {p} : agent'[q] = agent[q] /\ seen'[q] = seen[q] /\ prints'[q] = prints[q]
       /\ seen'[p] = now /\ prints'[p] = now
  BY <1>1, <1>7, <1>9
<1>12. \A q \in AgentPid : agent[q].state = "Established" => agent'[q].state = "Established"
  BY <1>7, <1>11 DEF e
<1>13. anomalies' \in Seq(Anomaly) /\ Len(anomalies') <= MaxAnomalies
       /\ \A i \in DOMAIN anomalies' : \/ i \in DOMAIN anomalies /\ anomalies'[i] = anomalies[i]
                                       \/ \E j \in DOMAIN sent : anomalies'[i] = sent[j]
  BY <1>1, <1>8, <1>10
<1>14. SecurityTypeOK'
  <2>1. seen' \in [AgentPid -> SUBSET Dest] /\ prints' \in [AgentPid -> (SUBSET Dest) \cup {NoPrint}]
    BY <1>1, <1>2, <1>9
  <2> QED BY <1>9, <1>11, <1>13, <2>1 DEF SecurityInv, SecurityTypeOK, calendar
<1>15. NewcomersAreUnknown' /\ ProfilesAreTrained' /\ BehindIsSet' /\ ProfileWasSeen'
  <2>1. ASSUME NEW q \in AgentPid
        PROVE  /\ agent'[q].state = "none" => agent'[q] = Unregistered
               /\ Trained(agent'[q], days'[q], q \in clockSet')
               /\ agent'[q].state # "none" => agent'[q].known \subseteq seen'[q] /\ prints'[q] = seen'[q]
    <3>1. CASE q = p
      BY <1>7, <1>9, <1>11, <3>1 DEF calendar
    <3>2. CASE q # p
      BY <1>9, <1>11, <3>2
         DEF SecurityInv, NewcomersAreUnknown, ProfilesAreTrained, ProfileWasSeen, Registered,
             calendar
    <3> QED BY <3>1, <3>2
  <2>2. BehindIsSet'
    BY <1>9 DEF SecurityInv, BehindIsSet, calendar
  <2> QED BY <2>1, <2>2 DEF NewcomersAreUnknown, ProfilesAreTrained, ProfileWasSeen, Registered, Trained
<1>16. SpokenOfAreEstablished'
  <2>1. \A i \in DOMAIN anomalies' : agent'[anomalies'[i].pid].state = "Established"
    <3>1. ASSUME NEW i \in DOMAIN anomalies' PROVE agent'[anomalies'[i].pid].state = "Established"
      <4>1. CASE i \in DOMAIN anomalies /\ anomalies'[i] = anomalies[i]
        <5>1. agent[anomalies[i].pid].state = "Established"
          BY <4>1 DEF SecurityInv, SpokenOfAreEstablished
        <5>2. anomalies[i] \in Anomaly
          BY <1>1, <4>1
        <5>3. anomalies[i].pid \in AgentPid
          BY <5>2 DEF Anomaly
        <5> QED BY <1>12, <4>1, <5>1, <5>3
      <4>2. CASE \E j \in DOMAIN sent : anomalies'[i] = sent[j]
        BY <1>10, <1>11, <4>2
      <4> QED BY <1>13, <4>1, <4>2
    <3> QED BY <3>1
  <2>2. decision' # NoDecision => agent'[decision'.pid].state = "Established"
    <3>1. decision # NoDecision => decision.pid \in AgentPid
      BY DEF SecurityInv, SecurityTypeOK, Decision
    <3> QED BY <1>9, <1>12, <3>1 DEF SecurityInv, SpokenOfAreEstablished
  <2>3. \A q \in acted' : agent'[q].state = "Established"
    BY <1>9, <1>12 DEF SecurityInv, SecurityTypeOK, SpokenOfAreEstablished
  <2> QED BY <2>1, <2>2, <2>3 DEF SpokenOfAreEstablished
<1> QED BY <1>14, <1>15, <1>16 DEF SecurityInv

LEMMA SecurityNextInv == SecurityInv /\ [SecurityNext]_secVars => SecurityInv'
<1> SUFFICES ASSUME SecurityInv, [SecurityNext]_secVars PROVE SecurityInv'
  OBVIOUS
<1> USE SecurityBounds
<1>1. SecurityTypeOK
  BY DEF SecurityInv
<1>2. ASSUME UNCHANGED <<seen, agent, prints, calendar, anomalies, decision, acted>>, SecurityTypeOK'
      PROVE  SecurityInv'
  BY <1>2 DEF SecurityInv, NewcomersAreUnknown, ProfilesAreTrained, BehindIsSet,
              SpokenOfAreEstablished, ProfileWasSeen, Registered, Trained, calendar
<1>3. ASSUME NEW p \in AgentPid, NEW d \in Dest, Connect(p, d) \/ Disconnect(p, d) PROVE SecurityInv'
  <2>1. sockets' \in [AgentPid -> SUBSET Dest] /\ UNCHANGED <<task, gated>>
    <3>1. sockets[p] \cup {d} \in SUBSET Dest /\ sockets[p] \ {d} \in SUBSET Dest
      BY <1>1 DEF SecurityTypeOK
    <3>2. CASE Connect(p, d)
      BY <1>1, <3>1, <3>2 DEF Connect, SecurityTypeOK
    <3>3. CASE Disconnect(p, d)
      BY <1>1, <3>1, <3>3 DEF Disconnect, SecurityTypeOK
    <3> QED BY <1>3, <3>2, <3>3
  <2>2. SecurityTypeOK'
    BY <1>1, <2>1 DEF SecurityTypeOK, task, calendar
  <2> QED BY <1>2, <2>1, <2>2 DEF task
<1>4. ASSUME NEW p \in AgentPid, Replace(p) PROVE SecurityInv'
  <2>1. sockets' \in [AgentPid -> SUBSET Dest] /\ UNCHANGED <<task, gated>>
    BY <1>1, <1>4 DEF Replace, SecurityTypeOK
  <2>2. SecurityTypeOK'
    BY <1>1, <2>1 DEF SecurityTypeOK, task, calendar
  <2> QED BY <1>2, <2>1, <2>2 DEF task
<1>5. ASSUME NEW p \in AgentPid, Announce(p) PROVE SecurityInv'
  <2>1. SecurityTypeOK'
    BY <1>1, <1>5 DEF Announce, SecurityTypeOK, calendar
  <2> QED BY <1>2, <1>5, <2>1 DEF Announce
<1>6. ASSUME NEW m \in Int, ClockMoves(m), clockSet' = clockSet \cup Registered \/ NextDay
      PROVE  SecurityInv'
  <2>1. /\ \A p \in Registered : days[p] + m \in -MaxDays..MaxDays
        /\ days' = [p \in AgentPid |-> IF p \in Registered THEN days[p] + m ELSE 0]
        /\ UNCHANGED <<sockets, heard, seen, agent, prints, anomalies, decision, acted, gated>>
    BY <1>6 DEF ClockMoves
  <2>2. /\ clockSet \subseteq clockSet' /\ clockSet' \subseteq AgentPid
        /\ \A p \in Registered : p \in clockSet' \/ days'[p] = days[p] + 1
    BY <1>1, <1>6 DEF NextDay, ClockMoves, Registered, SecurityTypeOK
  <2>3. ASSUME NEW p \in AgentPid
        PROVE  /\ days'[p] \in -MaxDays..MaxDays
               /\ days'[p] < 0 => p \in clockSet'
               /\ p \in Registered /\ (p \in clockSet \/ days[p] > RequiredDays)
                    => p \in clockSet' \/ days'[p] > RequiredDays
    <3>1. days[p] \in -MaxDays..MaxDays /\ (days[p] < 0 => p \in clockSet)
      BY <1>1 DEF SecurityTypeOK, SecurityInv, BehindIsSet
    <3> QED BY <2>1, <2>2, <3>1
  <2>4. SecurityTypeOK'
    BY <1>1, <2>1, <2>2, <2>3 DEF SecurityTypeOK
  <2>5. ProfilesAreTrained'
    <3>1. ASSUME NEW p \in AgentPid PROVE Trained(agent[p], days'[p], p \in clockSet')
      <4>1. Trained(agent[p], days[p], p \in clockSet)
        BY DEF SecurityInv, ProfilesAreTrained
      <4>2. agent[p].state = "Established" => p \in Registered
        BY DEF Registered
      <4> QED BY <2>3, <4>1, <4>2 DEF Trained
    <3> QED BY <2>1, <3>1 DEF ProfilesAreTrained, Trained
  <2>6. BehindIsSet' /\ NewcomersAreUnknown' /\ SpokenOfAreEstablished' /\ ProfileWasSeen'
    BY <2>1, <2>3
       DEF SecurityInv, NewcomersAreUnknown, SpokenOfAreEstablished, ProfileWasSeen, Registered,
           BehindIsSet
  <2> QED BY <2>4, <2>5, <2>6 DEF SecurityInv
<1>7. CASE SetMode
  <2>1. SecurityTypeOK'
    BY <1>1, <1>7 DEF SetMode, SecurityTypeOK, task, calendar
  <2> QED BY <1>2, <1>7, <2>1 DEF SetMode, task
<1>8. CASE Turn
  BY <1>8, CycleKeepsInv DEF Turn, UnusualHour
<1>9. CASE Decide
  <2> DEFINE m == Head(anomalies)
             action == Evaluate(<<DestinationSecurity>>, ContextOf(m))
  <2>1. /\ anomalies # <<>> /\ anomalies' = Tail(anomalies)
        /\ decision' = [pid |-> m.pid, type |-> m.type, risk |-> m.risk, action |-> action]
        /\ acted' = IF action = "Allow" THEN acted ELSE acted \cup {m.pid}
        /\ UNCHANGED <<sockets, heard, seen, agent, prints, calendar, gated>>
    BY <1>9 DEF Decide
  <2>2. m \in Anomaly /\ agent[m.pid].state = "Established"
    <3>1. 1 \in DOMAIN anomalies /\ m = anomalies[1] /\ anomalies[1] \in Anomaly
      BY <1>1, <2>1 DEF SecurityTypeOK
    <3> QED BY <3>1 DEF SecurityInv, SpokenOfAreEstablished
  <2>3. action \in Actions
    BY DefaultPolicyActs
  <2> HIDE DEF m, action
  <2>4. m.pid \in AgentPid /\ decision' \in Decision
    BY <2>1, <2>2, <2>3 DEF Anomaly, Decision
  <2>5. /\ anomalies' \in Seq(Anomaly) /\ Len(anomalies') <= MaxAnomalies
        /\ \A i \in DOMAIN anomalies' : i + 1 \in DOMAIN anomalies /\ anomalies'[i] = anomalies[i + 1]
    BY <1>1, <2>1 DEF SecurityTypeOK
  <2>6. acted' \in SUBSET AgentPid
    BY <1>1, <2>1, <2>4 DEF SecurityTypeOK
  <2>7. SecurityTypeOK'
    BY <1>1, <2>1, <2>4, <2>5, <2>6 DEF SecurityTypeOK, calendar
  <2>8. SpokenOfAreEstablished'
    <3>1. \A i \in DOMAIN anomalies' : agent[anomalies'[i].pid].state = "Established"
      BY <2>5 DEF SecurityInv, SpokenOfAreEstablished
    <3>2. agent[decision'.pid].state = "Established"
      BY <2>1, <2>2
    <3>3. \A p \in acted' : agent[p].state = "Established"
      BY <2>1, <2>2 DEF SecurityInv, SpokenOfAreEstablished
    <3> QED BY <2>1, <3>1, <3>2, <3>3 DEF SpokenOfAreEstablished
  <2>9. NewcomersAreUnknown' /\ ProfilesAreTrained' /\ BehindIsSet' /\ ProfileWasSeen'
    BY <2>1 DEF SecurityInv, NewcomersAreUnknown, ProfilesAreTrained, BehindIsSet, ProfileWasSeen,
                Registered, Trained, calendar
  <2> QED BY <2>7, <2>8, <2>9 DEF SecurityInv
<1>10. CASE Execute
  <2>1. /\ decision' = NoDecision /\ decision \in Decision
        /\ sockets' = sockets \/ sockets' = [sockets EXCEPT ![decision.pid] = {}]
        /\ UNCHANGED <<heard, seen, agent, prints, calendar, anomalies, gated, acted>>
    BY <1>1, <1>10 DEF Execute, SecurityTypeOK
  <2>2. sockets' \in [AgentPid -> SUBSET Dest]
    BY <1>1, <2>1 DEF SecurityTypeOK
  <2>3. SecurityTypeOK'
    BY <1>1, <2>1, <2>2 DEF SecurityTypeOK, calendar
  <2>4. SpokenOfAreEstablished'
    BY <2>1 DEF SecurityInv, SpokenOfAreEstablished
  <2>5. NewcomersAreUnknown' /\ ProfilesAreTrained' /\ BehindIsSet' /\ ProfileWasSeen'
    BY <2>1 DEF SecurityInv, NewcomersAreUnknown, ProfilesAreTrained, BehindIsSet, ProfileWasSeen,
                Registered, Trained, calendar
  <2> QED BY <2>3, <2>4, <2>5 DEF SecurityInv
<1>11. CASE Lost
  <2>1. /\ anomalies # <<>> /\ anomalies' = Tail(anomalies)
        /\ UNCHANGED <<sockets, heard, seen, agent, prints, calendar, decision, gated, acted>>
    BY <1>11 DEF Lost
  <2>2. /\ anomalies' \in Seq(Anomaly) /\ Len(anomalies') <= MaxAnomalies
        /\ \A i \in DOMAIN anomalies' : i + 1 \in DOMAIN anomalies /\ anomalies'[i] = anomalies[i + 1]
    BY <1>1, <2>1 DEF SecurityTypeOK
  <2>3. SecurityTypeOK'
    BY <1>1, <2>1, <2>2 DEF SecurityTypeOK, calendar
  <2>4. SpokenOfAreEstablished'
    BY <2>1, <2>2 DEF SecurityInv, SpokenOfAreEstablished
  <2>5. NewcomersAreUnknown' /\ ProfilesAreTrained' /\ BehindIsSet' /\ ProfileWasSeen'
    BY <2>1 DEF SecurityInv, NewcomersAreUnknown, ProfilesAreTrained, BehindIsSet, ProfileWasSeen,
                Registered, Trained, calendar
  <2> QED BY <2>3, <2>4, <2>5 DEF SecurityInv
<1>12. CASE UNCHANGED secVars
  <2>1. SecurityTypeOK'
    BY <1>1, <1>12 DEF secVars, calendar, SecurityTypeOK
  <2> QED BY <1>2, <1>12, <2>1 DEF secVars, calendar
<1>13. ASSUME NEW p \in AgentPid, CollectOthers(p) PROVE SecurityInv'
  <2>1. /\ p \notin Registered /\ seen' = [seen EXCEPT ![p] = Collected(p)]
        /\ UNCHANGED <<sockets, heard, agent, prints, calendar, anomalies, decision, gated, acted>>
    BY <1>13 DEF CollectOthers
  <2>2. Collected(p) \in SUBSET Dest
    BY <1>1 DEF Collected, Connected, SecurityTypeOK
  <2>3. SecurityTypeOK'
    BY <1>1, <2>1, <2>2 DEF SecurityTypeOK, calendar
  <2>4. ProfileWasSeen'
    <3>1. \A q \in Registered : seen'[q] = seen[q]
      BY <1>1, <2>1 DEF SecurityTypeOK, Registered
    <3>2. Registered' = Registered
      BY <2>1 DEF Registered
    <3> QED BY <2>1, <3>1, <3>2 DEF SecurityInv, ProfileWasSeen
  <2> QED BY <2>1, <2>3, <2>4
          DEF SecurityInv, NewcomersAreUnknown, ProfilesAreTrained, BehindIsSet, Trained,
              SpokenOfAreEstablished, calendar
<1>14. CASE NextDay \/ \E m \in -MaxDays..MaxDays : SetClock(m)
  BY <1>6, <1>14 DEF NextDay, SetClock
<1> QED BY <1>3, <1>4, <1>5, <1>6, <1>7, <1>8, <1>9, <1>10, <1>11, <1>12, <1>13, <1>14
        DEF SecurityNext

LEMMA SecurityInvHolds == SecuritySpec => []SecurityInv
BY SecurityInitInv, SecurityNextInv, PTL DEF SecuritySpec

(* Type correctness of Tasks 6 to 8.                                       *)
THEOREM SecurityTypes == SecuritySpec => []SecurityTypeOK
<1>1. SecurityInv => SecurityTypeOK
  BY DEF SecurityInv
<1> QED BY <1>1, SecurityInvHolds, PTL

(* Whatever connections there are and in whatever order they are fed, and  *)
(* whatever is on its way when: an agent that is still learned has no risk *)
(* and is spoken of by no message, no decision and no action.              *)
THEOREM LearningIsSilent == SecuritySpec => []SilentWhileLearning
BY SecurityInvImplies, SecurityInvHolds, PTL

(* The two thresholds of the baseline, over turns that may feed it many    *)
(* connections at once.                                                    *)
THEOREM TrainingComesFirst == SecuritySpec => []EstablishedAfterTraining
BY SecurityInvImplies, SecurityInvHolds, PTL

(* Profiles and fingerprints are of what the tracker has seen.             *)
THEOREM ProfilesAreObserved == SecuritySpec => []ProfileWasSeen
<1>1. SecurityInv => ProfileWasSeen
  BY DEF SecurityInv
<1> QED BY <1>1, SecurityInvHolds, PTL
=============================================================================
