---------------------------- MODULE Loops_proofs ----------------------------
(***************************************************************************)
(* Proofs about two loops of the daemon: Task 2 with the health monitor it *)
(* owns, and Task 8, the runtime pipeline.                                 *)
(*                                                                         *)
(* The monitor, for any set of pids and any thresholds.                    *)
(* VerdictMatchesReports is not inductive: why a dead agent cannot come    *)
(* back through the branch that flags a hung process is that no reading of *)
(* its CPU time is left (NoReadingOfTheDead).                              *)
(*                                                                         *)
(* Task 2, for any finite set of pids. That the failed gauge is never too  *)
(* low between two rounds rests on what holds in the middle of one: a gauge*)
(* that is too low has a death in the list of events that is still to be   *)
(* published (LaggingOnlyForDeaths), and the list is empty when the round  *)
(* is over.                                                                *)
(*                                                                         *)
(* Task 8, for any destinations, any clock and any number of blocks: what  *)
(* auto_recover and a restart of the daemon make of the recovery list and  *)
(* of the destinations reported as rolled back.                            *)
(***************************************************************************)
EXTENDS HealthTask, RuntimePipeline, FiniteSetTheorems, SequenceTheorems, TLAPS

-----------------------------------------------------------------------------
(* The health monitor.                                                     *)

NoReadingOfTheDead == \A p \in agents : ~status[p].alive => lastTicks[p] = NoTicks

NewcomersNotReportedDead == \A p \in Pid \ agents : report[p] # "died"

Inv == /\ TypeOK
       /\ NoReadingOfTheDead
       /\ NewcomersNotReportedDead
       /\ VerdictMatchesReports

-----------------------------------------------------------------------------
(* A saturating counter stays within its cap.                              *)
LEMMA BumpWithinCap ==
  ASSUME NEW cap \in Nat \ {0}, NEW n \in 0..cap
  PROVE  Bump(n, cap) \in 0..cap
BY DEF Bump

LEMMA FreshIsStatus ==
  Fresh \in [alive : BOOLEAN, state : HealthState, failures : 0..FailureThreshold]
BY ThresholdAssumption DEF Fresh, HealthState

LEMMA InitInv == Init => Inv
BY FreshIsStatus, ThresholdAssumption
DEF Init, Inv, TypeOK, NoReadingOfTheDead, NewcomersNotReportedDead,
    VerdictMatchesReports, ProcState, Fresh, NoTicks

(* What a check does to an agent it finds alive: the verdict is alive, and *)
(* the report says so too, provided it was not hung and dead.              *)
LEMMA MarkAliveKeepsVerdict ==
  ASSUME Inv, NEW p \in agents, NEW hung \in BOOLEAN, MarkAlive(p, hung),
         hung => status[p].alive, agents' = agents
  PROVE  /\ status' \in [Pid -> [alive : BOOLEAN, state : HealthState,
                                 failures : 0..FailureThreshold]]
         /\ events' \subseteq Event
         /\ report' \in [Pid -> {"none", "died", "recovered"}]
         /\ status'[p].alive
         /\ \A q \in Pid \ {p} : status'[q] = status[q] /\ report'[q] = report[q]
         /\ NewcomersNotReportedDead'
         /\ VerdictMatchesReports'
<1> USE ThresholdAssumption
<1>1. p \in Pid /\ status[p].alive \in BOOLEAN
  BY DEF Inv, TypeOK
<1>2. status' = [status EXCEPT ![p] =
                   [alive |-> TRUE, failures |-> 0,
                    state |-> IF hung THEN "Warning" ELSE "Healthy"]]
  BY DEF MarkAlive
<1>3. report' = report \/ report' = [report EXCEPT ![p] = "recovered"]
  BY DEF MarkAlive
<1>4. ~status[p].alive => report' = [report EXCEPT ![p] = "recovered"]
  BY DEF MarkAlive, WasDead
<1>5. events' \subseteq Event
  <2>1. events \subseteq Event
    BY DEF Inv, TypeOK
  <2>2. \/ events' = events
        \/ events' = events \cup {[kind |-> "AgentUnhealthy", pid |-> p]}
        \/ events' = events \cup {[kind |-> "AgentRecovered", pid |-> p]}
    BY DEF MarkAlive, Raise
  <2> QED BY <1>1, <2>1, <2>2 DEF Event
<1>6. status' \in [Pid -> [alive : BOOLEAN, state : HealthState,
                           failures : 0..FailureThreshold]]
  BY <1>2 DEF Inv, TypeOK, HealthState
<1>7. report' \in [Pid -> {"none", "died", "recovered"}]
  BY <1>3 DEF Inv, TypeOK
<1>8. /\ status'[p].alive
      /\ \A q \in Pid \ {p} : status'[q] = status[q] /\ report'[q] = report[q]
  BY <1>1, <1>2, <1>3 DEF Inv, TypeOK
<1>9. report'[p] # "died"
  BY <1>1, <1>3, <1>4 DEF Inv, TypeOK, VerdictMatchesReports
<1> QED
  BY <1>1, <1>5, <1>6, <1>7, <1>8, <1>9
  DEF Inv, TypeOK, NewcomersNotReportedDead, VerdictMatchesReports

-----------------------------------------------------------------------------
(* The invariant is inductive.                                             *)
LEMMA NextInv == Inv /\ [Next]_vars => Inv'
<1> SUFFICES ASSUME Inv, [Next]_vars PROVE Inv'
  OBVIOUS
<1> USE ThresholdAssumption
<1>1. ASSUME NEW p \in Pid, Kernel(p) PROVE Inv'
  <2>1. proc' \in [Pid -> ProcState] /\ ticks' \in [Pid -> 0..MaxTicks]
    BY <1>1 DEF Inv, TypeOK, Kernel, Start, Work, Exit, Reap, ProcState
  <2> QED
    BY <1>1, <2>1 DEF Inv, TypeOK, Kernel, hang, NoReadingOfTheDead,
                      NewcomersNotReportedDead, VerdictMatchesReports
<1>2. ASSUME NEW p \in Pid, Register(p) PROVE Inv'
  <2>1. status' \in [Pid -> [alive : BOOLEAN, state : HealthState,
                             failures : 0..FailureThreshold]]
    BY <1>2, FreshIsStatus DEF Inv, TypeOK, Register
  <2>2. /\ \A q \in agents : status'[q] = status[q]
        /\ p \notin agents => status'[p].alive
    BY <1>2 DEF Inv, TypeOK, Register, Fresh
  <2> QED
    BY <1>2, <2>1, <2>2 DEF Inv, TypeOK, Register, env, hang, NoReadingOfTheDead,
                            NewcomersNotReportedDead, VerdictMatchesReports
<1>3. ASSUME NEW p \in Pid, Unregister(p) PROVE Inv'
  <2>1. status' \in [Pid -> [alive : BOOLEAN, state : HealthState,
                             failures : 0..FailureThreshold]]
    BY <1>3, FreshIsStatus DEF Inv, TypeOK, Unregister
  <2> QED
    BY <1>3, <2>1 DEF Inv, TypeOK, Unregister, env, hang, NoReadingOfTheDead,
                      NewcomersNotReportedDead, VerdictMatchesReports
<1>4. ASSUME NEW p \in Pid, NEW s \in HealthState, SetAgentState(p, s) PROVE Inv'
  <2>1. /\ status' \in [Pid -> [alive : BOOLEAN, state : HealthState,
                                failures : 0..FailureThreshold]]
        /\ \A q \in Pid : status'[q].alive = status[q].alive
    BY <1>4 DEF Inv, TypeOK, SetAgentState
  <2> QED
    BY <1>4, <2>1 DEF Inv, TypeOK, SetAgentState, env, hang, NoReadingOfTheDead,
                      NewcomersNotReportedDead, VerdictMatchesReports
<1>5. CASE BeginCheck
  BY <1>5 DEF Inv, TypeOK, BeginCheck, env, hang, NoReadingOfTheDead,
              NewcomersNotReportedDead, VerdictMatchesReports
<1>6. ASSUME NEW p \in Pid, SeenAlive(p) PROVE Inv'
  <2> DEFINE count == IF ZeroDelta(p) THEN Bump(zeroCycles[p], HangThreshold) ELSE 0
             hung  == ZeroDelta(p) /\ count >= HangThreshold
  <2>1. p \in agents /\ agents' = agents /\ MarkAlive(p, hung)
    BY <1>6 DEF SeenAlive, Inv, TypeOK, env
  <2>2. hung \in BOOLEAN
    BY DEF ZeroDelta
  <2>3. hung => status[p].alive
    BY <2>1 DEF ZeroDelta, Inv, NoReadingOfTheDead
  <2>4. /\ status' \in [Pid -> [alive : BOOLEAN, state : HealthState,
                                failures : 0..FailureThreshold]]
        /\ events' \subseteq Event
        /\ report' \in [Pid -> {"none", "died", "recovered"}]
        /\ status'[p].alive
        /\ \A q \in Pid \ {p} : status'[q] = status[q]
        /\ NewcomersNotReportedDead'
        /\ VerdictMatchesReports'
    <3> HIDE DEF hung
    <3> QED BY <2>1, <2>2, <2>3, MarkAliveKeepsVerdict
  <2>5. zeroCycles' \in [Pid -> 0..HangThreshold]
    <3>1. count \in 0..HangThreshold
      BY BumpWithinCap DEF Inv, TypeOK
    <3>2. zeroCycles' = [zeroCycles EXCEPT ![p] = count]
      BY <1>6 DEF SeenAlive
    <3> HIDE DEF count
    <3> QED BY <3>1, <3>2 DEF Inv, TypeOK
  <2>6. /\ lastTicks' \in [Pid -> NoTicks..MaxTicks]
        /\ \A q \in Pid \ {p} : lastTicks'[q] = lastTicks[q]
    BY <1>6 DEF SeenAlive, Inv, TypeOK, NoTicks
  <2>7. /\ todo' \subseteq agents'
        /\ UNCHANGED <<proc, ticks, agents>>
    BY <1>6 DEF SeenAlive, Inv, TypeOK, env
  <2>8. NoReadingOfTheDead'
    BY <2>4, <2>6, <2>7 DEF Inv, TypeOK, NoReadingOfTheDead
  <2> QED BY <2>4, <2>5, <2>6, <2>7, <2>8 DEF Inv, TypeOK
<1>7. ASSUME NEW p \in Pid, SeenUnreadable(p) PROVE Inv'
  <2>1. p \in agents /\ agents' = agents /\ MarkAlive(p, FALSE)
    BY <1>7 DEF SeenUnreadable, Inv, TypeOK, env
  <2>2. /\ status' \in [Pid -> [alive : BOOLEAN, state : HealthState,
                                failures : 0..FailureThreshold]]
        /\ events' \subseteq Event
        /\ report' \in [Pid -> {"none", "died", "recovered"}]
        /\ status'[p].alive
        /\ \A q \in Pid \ {p} : status'[q] = status[q]
        /\ NewcomersNotReportedDead'
        /\ VerdictMatchesReports'
    BY <2>1, MarkAliveKeepsVerdict
  <2>3. /\ todo' \subseteq agents'
        /\ UNCHANGED <<proc, ticks, agents, lastTicks, zeroCycles>>
    BY <1>7 DEF SeenUnreadable, Inv, TypeOK, env, hang
  <2>4. NoReadingOfTheDead'
    BY <2>2, <2>3 DEF Inv, TypeOK, NoReadingOfTheDead
  <2> QED BY <2>2, <2>3, <2>4 DEF Inv, TypeOK
<1>8. ASSUME NEW p \in Pid, SeenGone(p) PROVE Inv'
  <2> DEFINE n    == Bump(status[p].failures, FailureThreshold)
             dies == Dies(p, n)
  <2>1. p \in agents /\ status[p].alive \in BOOLEAN /\ status[p].state \in HealthState
    BY <1>8 DEF SeenGone, Inv, TypeOK
  <2>2. n \in 0..FailureThreshold
    BY BumpWithinCap DEF Inv, TypeOK
  <2>3. status' = [status EXCEPT ![p] =
                     [alive |-> status[p].alive /\ ~dies, failures |-> n,
                      state |-> IF dies THEN "Failed"
                                ELSE IF status[p].alive THEN "Warning"
                                     ELSE status[p].state]]
    BY <1>8 DEF SeenGone, Inv, TypeOK
  <2>4. dies => status[p].alive
    BY DEF Dies
  <2>5. /\ dies => /\ events' = events \cup {[kind |-> "AgentDied", pid |-> p]}
                   /\ report' = [report EXCEPT ![p] = "died"]
        /\ ~dies => UNCHANGED <<events, report>>
    BY <1>8 DEF SeenGone, Raise
  <2>6. dies \in BOOLEAN
    BY DEF Dies
  <2>7. /\ todo' \subseteq agents'
        /\ UNCHANGED <<proc, ticks, agents>>
        /\ lastTicks' = [lastTicks EXCEPT ![p] = NoTicks]
        /\ zeroCycles' = [zeroCycles EXCEPT ![p] = 0]
    BY <1>8 DEF SeenGone, ClearHang, Inv, TypeOK, env
  <2> HIDE DEF n, dies
  <2>8. status' \in [Pid -> [alive : BOOLEAN, state : HealthState,
                             failures : 0..FailureThreshold]]
    BY <2>1, <2>2, <2>3, <2>6 DEF Inv, TypeOK, HealthState
  <2>9. events' \subseteq Event /\ report' \in [Pid -> {"none", "died", "recovered"}]
    BY <2>5, <2>6 DEF Inv, TypeOK, Event
  <2>10. lastTicks' \in [Pid -> NoTicks..MaxTicks] /\ zeroCycles' \in [Pid -> 0..HangThreshold]
    BY <2>7 DEF Inv, TypeOK, NoTicks
  <2>11. NoReadingOfTheDead' /\ NewcomersNotReportedDead'
    BY <2>1, <2>3, <2>5, <2>6, <2>7
    DEF Inv, TypeOK, NoReadingOfTheDead, NewcomersNotReportedDead
  <2>12. VerdictMatchesReports'
    <3>1. status'[p].alive <=> status[p].alive /\ ~dies
      BY <2>1, <2>3 DEF Inv, TypeOK
    <3>2. \A q \in Pid \ {p} : status'[q] = status[q] /\ report'[q] = report[q]
      BY <2>3, <2>5 DEF Inv, TypeOK
    <3>3. report'[p] = IF dies THEN "died" ELSE report[p]
      BY <2>5 DEF Inv, TypeOK
    <3> QED BY <2>1, <2>4, <2>7, <3>1, <3>2, <3>3
            DEF Inv, TypeOK, VerdictMatchesReports
  <2> QED BY <2>7, <2>8, <2>9, <2>10, <2>11, <2>12 DEF Inv, TypeOK
<1>9. ASSUME NEW e \in events, Handle(e) PROVE Inv'
  BY <1>9 DEF Inv, TypeOK, Handle, env, hang, NoReadingOfTheDead,
              NewcomersNotReportedDead, VerdictMatchesReports
<1>10. CASE UNCHANGED vars
  BY <1>10 DEF Inv, TypeOK, vars, NoReadingOfTheDead,
               NewcomersNotReportedDead, VerdictMatchesReports
<1> QED
  BY <1>1, <1>2, <1>3, <1>4, <1>5, <1>6, <1>7, <1>8, <1>9, <1>10 DEF Next, Visit

-----------------------------------------------------------------------------
LEMMA InvHolds == Spec => []Inv
BY InitInv, NextInv, PTL DEF Spec

(* Type correctness of the monitor.                                        *)
THEOREM TypeCorrectness == Spec => []TypeOK
<1>1. Inv => TypeOK
  BY DEF Inv
<1> QED BY <1>1, InvHolds, PTL

(* An agent is held dead exactly when the last of its deaths and recoveries*)
(* to be raised was a death.                                               *)
THEOREM VerdictCorrectness == Spec => []VerdictMatchesReports
<1>1. Inv => VerdictMatchesReports
  BY DEF Inv
<1> QED BY <1>1, InvHolds, PTL

-----------------------------------------------------------------------------
(* The formula below the box of DeathsAndRecoveriesAlternate.              *)
Alternates ==
  \A p \in Pid :
    /\ Raised("AgentDied", p) => report[p] # "died"
    /\ Raised("AgentRecovered", p) =>
         report[p] = "died" \/ status[p].state \in {"Failed", "Restarting"}

(* Only the three outcomes of a visit raise events.                        *)
LEMMA NextAlternates == Inv /\ [Next]_vars => [Alternates]_vars
<1> SUFFICES ASSUME Inv, [Next]_vars PROVE Alternates
  OBVIOUS
<1>1. CASE events' \subseteq events
  BY <1>1 DEF Alternates, Raised
<1>2. ASSUME NEW p \in todo, NEW hung, MarkAlive(p, hung) PROVE Alternates
  <2>1. p \in agents /\ p \in Pid
    BY DEF Inv, TypeOK
  <2>2. CASE events' = events \cup {[kind |-> "AgentUnhealthy", pid |-> p]}
    BY <2>2 DEF Alternates, Raised
  <2>3. CASE /\ WasDead(p)
             /\ events' = events \cup {[kind |-> "AgentRecovered", pid |-> p]}
    <3>1. report[p] = "died" \/ status[p].state \in {"Failed", "Restarting"}
      BY <2>1, <2>3 DEF WasDead, Inv, VerdictMatchesReports
    <3>2. \A q \in Pid : ~Raised("AgentDied", q)
      BY <2>3 DEF Raised
    <3>3. \A q \in Pid : Raised("AgentRecovered", q) => q = p
      BY <2>3 DEF Raised
    <3> QED BY <3>1, <3>2, <3>3 DEF Alternates
  <2> QED BY <1>1, <1>2, <2>2, <2>3 DEF MarkAlive, Raise
<1>3. ASSUME NEW p \in Pid, SeenGone(p) PROVE Alternates
  <2>1. p \in agents
    BY <1>3 DEF SeenGone, Inv, TypeOK
  <2>2. CASE /\ status[p].alive
             /\ events' = events \cup {[kind |-> "AgentDied", pid |-> p]}
    <3>1. report[p] # "died"
      BY <2>1, <2>2 DEF Inv, VerdictMatchesReports
    <3>2. \A q \in Pid : ~Raised("AgentRecovered", q)
      BY <2>2 DEF Raised
    <3>3. \A q \in Pid : Raised("AgentDied", q) => q = p
      BY <2>2 DEF Raised
    <3> QED BY <3>1, <3>2, <3>3 DEF Alternates
  <2>3. events' = events \/ (/\ status[p].alive
                             /\ events' = events \cup {[kind |-> "AgentDied", pid |-> p]})
    BY <1>3 DEF SeenGone, Raise, Dies
  <2> QED BY <1>1, <2>2, <2>3
<1>4. ASSUME NEW p \in Pid, Visit(p) PROVE Alternates
  BY <1>2, <1>3, <1>4 DEF Visit, SeenAlive, SeenUnreadable
<1>5. ASSUME NEW p \in Pid,
             Kernel(p) \/ Register(p) \/ Unregister(p)
             \/ \E s \in HealthState : SetAgentState(p, s)
      PROVE  events' \subseteq events
  BY <1>5 DEF Kernel, Register, Unregister, SetAgentState
<1>6. CASE BeginCheck
  BY <1>1, <1>6 DEF BeginCheck
<1>7. ASSUME NEW e \in events, Handle(e) PROVE Alternates
  BY <1>1, <1>7 DEF Handle
<1>8. CASE UNCHANGED vars
  BY <1>1, <1>8 DEF vars
<1> QED BY <1>1, <1>4, <1>5, <1>6, <1>7, <1>8 DEF Next

(* No death is raised twice without a recovery between them, and no        *)
(* recovery without a death or a state set by hand before it.              *)
THEOREM AlternationCorrectness == Spec => DeathsAndRecoveriesAlternate
<1>1. [Alternates]_vars <=>
      [\A p \in Pid :
         /\ Raised("AgentDied", p) => report[p] # "died"
         /\ Raised("AgentRecovered", p) =>
              report[p] = "died" \/ status[p].state \in {"Failed", "Restarting"}]_vars
  BY DEF Alternates
<1> QED BY <1>1, InvHolds, NextAlternates, PTL DEF Spec, DeathsAndRecoveriesAlternate

-----------------------------------------------------------------------------
(* Refinement of FailureDetector.                                          *)
Dead == {p \in agents : ~status[p].alive}

LEMMA InitRefines == Init => FD!Init
BY DEF Init, FD!Init

(* A visit that finds the agent alive declares a dead one up.              *)
LEMMA MarkAliveRefines ==
  ASSUME Inv, NEW p \in todo, NEW hung \in BOOLEAN, MarkAlive(p, hung),
         ProcessAlive(p), UNCHANGED <<proc, agents>>
  PROVE  [FD!Next]_FD!vars
<1>1. p \in agents /\ p \in Pid
  BY DEF Inv, TypeOK
<1>2. Dead' = Dead \ {p}
  <2>1. status' = [status EXCEPT ![p] =
                     [alive |-> TRUE, failures |-> 0,
                      state |-> IF hung THEN "Warning" ELSE "Healthy"]]
    BY DEF MarkAlive
  <2>2. \A q \in agents : status'[q].alive <=> (q = p \/ status[q].alive)
    BY <1>1, <2>1 DEF Inv, TypeOK
  <2> QED BY <2>2 DEF Dead
<1>3. CASE p \in Dead
  <2>1. FD!DeclareUp(p)
    BY <1>2, <1>3 DEF FD!DeclareUp, ProcessAlive, Dead
  <2> QED BY <1>1, <2>1 DEF FD!Next
<1>4. CASE p \notin Dead
  BY <1>2, <1>4 DEF FD!vars, Dead
<1> QED BY <1>3, <1>4

LEMMA NextRefines == Inv /\ [Next]_vars => [FD!Next]_FD!vars
<1> SUFFICES ASSUME Inv, [Next]_vars PROVE [FD!Next]_FD!vars
  OBVIOUS
<1>1. CASE UNCHANGED <<proc, agents, status>>
  BY <1>1 DEF FD!vars
<1>2. ASSUME NEW p \in Pid, Kernel(p) PROVE [FD!Next]_FD!vars
  <2>1. UNCHANGED <<agents, status>>
    BY <1>2 DEF Kernel
  <2>2. FD!Start(p) \/ FD!Exit(p) \/ FD!Reap(p) \/ UNCHANGED proc
    BY <1>2, <2>1 DEF Kernel, Start, Work, Exit, Reap, FD!Start, FD!Exit, FD!Reap
  <2> QED BY <1>1, <2>1, <2>2 DEF FD!Next
<1>3. ASSUME NEW p \in Pid, Register(p) PROVE [FD!Next]_FD!vars
  <2>1. Dead' = Dead
    BY <1>3 DEF Register, Inv, TypeOK, Fresh, Dead
  <2>2. FD!Watch(p)
    BY <1>3, <2>1 DEF Register, FD!Watch, Dead, env
  <2> QED BY <2>2 DEF FD!Next
<1>4. ASSUME NEW p \in Pid, Unregister(p) PROVE [FD!Next]_FD!vars
  <2>1. Dead' = Dead \ {p}
    BY <1>4 DEF Unregister, Inv, TypeOK, Dead
  <2>2. FD!Unwatch(p)
    BY <1>4, <2>1 DEF Unregister, FD!Unwatch, Dead, env
  <2> QED BY <2>2 DEF FD!Next
<1>5. ASSUME NEW p \in Pid, NEW s \in HealthState, SetAgentState(p, s)
      PROVE  [FD!Next]_FD!vars
  <2>1. UNCHANGED <<proc, agents>> /\ \A q \in Pid : status'[q].alive = status[q].alive
    BY <1>5 DEF SetAgentState, Inv, TypeOK, env
  <2> QED BY <2>1 DEF FD!vars, Inv, TypeOK
<1>6. ASSUME NEW p \in Pid, SeenAlive(p) PROVE [FD!Next]_FD!vars
  <2>1. PICK hung \in BOOLEAN : MarkAlive(p, hung)
    BY <1>6 DEF SeenAlive, ZeroDelta
  <2> QED BY <1>6, <2>1, MarkAliveRefines DEF SeenAlive, env
<1>7. ASSUME NEW p \in Pid, SeenUnreadable(p) PROVE [FD!Next]_FD!vars
  BY <1>7, MarkAliveRefines DEF SeenUnreadable, env
<1>8. ASSUME NEW p \in Pid, SeenGone(p) PROVE [FD!Next]_FD!vars
  <2> DEFINE dies == Dies(p, Bump(status[p].failures, FailureThreshold))
  <2>1. p \in agents /\ proc[p] = "free" /\ UNCHANGED <<proc, agents>>
    BY <1>8 DEF SeenGone, ProcessAlive, Inv, TypeOK, env
  <2>2. \A q \in agents : status'[q].alive <=> status[q].alive /\ ~(q = p /\ dies)
    BY <1>8, <2>1 DEF SeenGone, Inv, TypeOK
  <2>3. dies => status[p].alive
    BY DEF Dies
  <2> HIDE DEF dies
  <2>4. CASE dies
    <3>1. p \in agents \ Dead /\ Dead' = Dead \cup {p}
      BY <2>1, <2>2, <2>3, <2>4 DEF Dead
    <3>2. FD!DeclareDown(p)
      BY <2>1, <3>1 DEF FD!DeclareDown, Dead
    <3> QED BY <3>2 DEF FD!Next
  <2>5. CASE ~dies
    BY <2>1, <2>2, <2>5 DEF FD!vars
  <2> QED BY <2>4, <2>5
<1>9. ASSUME BeginCheck \/ (\E e \in events : Handle(e)) \/ UNCHANGED vars
      PROVE  UNCHANGED <<proc, agents, status>>
  BY <1>9 DEF BeginCheck, Handle, vars, env
<1> QED
  BY <1>1, <1>2, <1>3, <1>4, <1>5, <1>6, <1>7, <1>8, <1>9 DEF Next, Visit

(* The health monitor implements the failure detector: it declares an agent*)
(* down only while its pid is free, and up only while it is not.           *)
THEOREM MonitorImplementsFailureDetector == Spec => ImplementsFailureDetector
BY InitRefines, NextRefines, InvHolds, PTL
DEF Spec, FD!Spec, ImplementsFailureDetector

-----------------------------------------------------------------------------
(* The health task.                                                        *)

DeathsPending == \E p \in Pid : [kind |-> "AgentDied", pid |-> p] \in events

LaggingOnlyForDeaths == DeathsPending \/ failedCount >= Cardinality(FailedCount)

RoundsHandleAll == phase \in {"drain", "sleep"} => events = {}

TaskInv == /\ Inv
           /\ TaskTypeOK
           /\ LaggingOnlyForDeaths
           /\ RoundsHandleAll

-----------------------------------------------------------------------------
(* The loop as a user of the monitor.                                      *)
LEMMA StepIsMonitorStep == [TaskNext]_taskVars => [Next]_vars
<1> SUFFICES ASSUME TaskNext \/ UNCHANGED taskVars PROVE [Next]_vars
  BY DEF taskVars
<1>1. CASE KernelStep
  BY <1>1 DEF KernelStep, Next
<1>2. ASSUME NEW p \in Pid, Forward(p) \/ Drain(p) \/ CheckOne(p) PROVE [Next]_vars
  BY <1>2 DEF Forward, Drain, CheckOne, Next
<1>3. CASE StartCheck
  BY <1>3 DEF StartCheck, Next
<1>4. CASE CountAlive \/ WakeUp \/ UNCHANGED taskVars
  BY <1>4 DEF CountAlive, WakeUp, taskVars
<1>5. ASSUME NEW e \in events, Publish(e) PROVE [Next]_vars
  BY <1>5 DEF Publish, Next
<1> QED BY <1>1, <1>2, <1>3, <1>4, <1>5 DEF TaskNext

-----------------------------------------------------------------------------
LEMMA CountOfPids ==
  ASSUME NEW S, S \subseteq Pid
  PROVE  Cardinality(S) \in 0..Cardinality(Pid)
<1>1. IsFiniteSet(S) /\ Cardinality(S) <= Cardinality(Pid)
  BY FS_Subset, FinitePids
<1> QED BY <1>1, FS_CardinalityType, FinitePids

(* Fewer agents with the state Failed leave the gauge high enough.         *)
LEMMA FewerFailed ==
  ASSUME LaggingOnlyForDeaths, TypeOK, FailedCount' \subseteq FailedCount,
         failedCount' = failedCount, events \subseteq events', failedCount \in Nat
  PROVE  LaggingOnlyForDeaths'
<1>1. CASE DeathsPending
  BY <1>1 DEF DeathsPending, LaggingOnlyForDeaths
<1>2. CASE failedCount >= Cardinality(FailedCount)
  <2>1. FailedCount \subseteq Pid
    BY DEF FailedCount, TypeOK
  <2>2. /\ Cardinality(FailedCount') <= Cardinality(FailedCount)
        /\ Cardinality(FailedCount') \in Nat /\ Cardinality(FailedCount) \in Nat
    BY <2>1, FS_Subset, FS_CardinalityType, FinitePids
  <2> QED BY <1>2, <2>2 DEF LaggingOnlyForDeaths
<1> QED BY <1>1, <1>2 DEF LaggingOnlyForDeaths

-----------------------------------------------------------------------------
LEMMA InitTaskInv == TaskInit => TaskInv
<1> SUFFICES ASSUME TaskInit PROVE TaskInv
  OBVIOUS
<1>1. Inv
  BY InitInv DEF TaskInit
<1>2. Cardinality(Pid) \in Nat
  BY FS_CardinalityType, FinitePids
<1>3. FailedCount = {} /\ Cardinality(FailedCount) = 0
  BY FS_EmptySet DEF TaskInit, Init, FailedCount
<1> QED BY <1>1, <1>2, <1>3
        DEF TaskInit, Init, Inv, TaskInv, TaskTypeOK, LaggingOnlyForDeaths, RoundsHandleAll

LEMMA TaskTypeStep == TaskInv /\ Inv' /\ [TaskNext]_taskVars => TaskTypeOK'
<1> SUFFICES ASSUME TaskInv, Inv', [TaskNext]_taskVars PROVE TaskTypeOK'
  OBVIOUS
<1> USE DEF TaskInv, TaskTypeOK
<1>1. TypeOK'
  BY DEF Inv
<1>2. /\ Cardinality(agents') \in 0..Cardinality(Pid)
      /\ Cardinality(FailedCount) \in 0..Cardinality(Pid)
      /\ Cardinality(AliveCount) \in 0..Cardinality(Pid)
  BY <1>1, CountOfPids DEF TypeOK, AliveCount, FailedCount
<1>3. CASE KernelStep \/ StartCheck \/ WakeUp \/ UNCHANGED taskVars
  BY <1>1, <1>3 DEF KernelStep, StartCheck, WakeUp, taskVars, gauges
<1>4. ASSUME NEW p \in Pid, Forward(p) \/ CheckOne(p) PROVE TaskTypeOK'
  BY <1>1, <1>4 DEF Forward, CheckOne, gauges
<1>5. ASSUME NEW p \in Pid, Drain(p) PROVE TaskTypeOK'
  BY <1>1, <1>2, <1>5 DEF Drain, NewAgentCount
<1>6. CASE CountAlive
  BY <1>1, <1>2, <1>6 DEF CountAlive
<1>7. ASSUME NEW e \in events, Publish(e) PROVE TaskTypeOK'
  BY <1>1, <1>2, <1>7 DEF Publish, FailedCountAfter
<1> QED BY <1>3, <1>4, <1>5, <1>6, <1>7 DEF TaskNext

(* What visiting one agent does to the agents that count as failed.        *)
LEMMA VisitCounts ==
  ASSUME Inv, NEW p \in Pid, Visit(p)
  PROVE  /\ events \subseteq events'
         /\ \/ FailedCount' \subseteq FailedCount
            \/ [kind |-> "AgentDied", pid |-> p] \in events'
<1>1. p \in agents /\ p \in Pid
  BY DEF Visit, SeenAlive, SeenUnreadable, SeenGone, Inv, TypeOK
<1>2. ASSUME NEW hung \in BOOLEAN, MarkAlive(p, hung), agents' = agents
      PROVE  events \subseteq events' /\ FailedCount' \subseteq FailedCount
  <2>1. /\ status'[p].state \in {"Warning", "Healthy"}
        /\ \A q \in Pid \ {p} : status'[q] = status[q]
    BY <1>1, <1>2 DEF MarkAlive, Inv, TypeOK
  <2> QED BY <1>1, <1>2, <2>1 DEF MarkAlive, Raise, FailedCount, Inv, TypeOK
<1>3. CASE SeenAlive(p)
  <2>1. PICK hung \in BOOLEAN : MarkAlive(p, hung)
    BY <1>3 DEF SeenAlive, ZeroDelta
  <2> QED BY <1>2, <1>3, <2>1 DEF SeenAlive
<1>4. CASE SeenUnreadable(p)
  BY <1>2, <1>4 DEF SeenUnreadable
<1>5. CASE SeenGone(p)
  <2> DEFINE dies == Dies(p, Bump(status[p].failures, FailureThreshold))
  <2>1. CASE dies
    BY <1>5, <2>1 DEF SeenGone, Raise
  <2>2. CASE ~dies
    <3>1. /\ status'[p].state = IF status[p].alive THEN "Warning" ELSE status[p].state
          /\ \A q \in Pid \ {p} : status'[q] = status[q]
          /\ agents' = agents /\ events' = events
      BY <1>1, <1>5, <2>2 DEF SeenGone, Inv, TypeOK
    <3> QED BY <1>1, <3>1 DEF FailedCount, Inv, TypeOK
  <2> QED BY <2>1, <2>2
<1> QED BY <1>3, <1>4, <1>5 DEF Visit

LEMMA GaugeStep ==
  TaskInv /\ [TaskNext]_taskVars => LaggingOnlyForDeaths' /\ RoundsHandleAll'
<1> SUFFICES ASSUME TaskInv, [TaskNext]_taskVars
             PROVE  LaggingOnlyForDeaths' /\ RoundsHandleAll'
  OBVIOUS
<1>1. TypeOK /\ failedCount \in Nat
  BY DEF TaskInv, TaskTypeOK
<1>2. ASSUME FailedCount' \subseteq FailedCount, failedCount' = failedCount,
             events \subseteq events'
      PROVE  LaggingOnlyForDeaths'
  BY <1>1, <1>2, FewerFailed DEF TaskInv
<1>3. ASSUME UNCHANGED <<agents, status, events, failedCount>> PROVE LaggingOnlyForDeaths'
  BY <1>2, <1>3 DEF FailedCount
<1>4. CASE KernelStep \/ CountAlive \/ WakeUp \/ StartCheck \/ UNCHANGED taskVars
  <2>1. UNCHANGED <<agents, status, events, failedCount>>
    BY <1>4 DEF KernelStep, Kernel, CountAlive, WakeUp, StartCheck, BeginCheck, taskVars,
                vars, gauges
  <2>2. RoundsHandleAll'
    BY <1>4 DEF KernelStep, Kernel, CountAlive, WakeUp, StartCheck, BeginCheck, taskVars,
                vars, TaskInv, RoundsHandleAll
  <2> QED BY <1>3, <2>1, <2>2
<1>5. ASSUME NEW p \in Pid, Forward(p) PROVE LaggingOnlyForDeaths' /\ RoundsHandleAll'
  BY <1>3, <1>5 DEF Forward, vars, gauges, TaskInv, RoundsHandleAll
<1>6. ASSUME NEW p \in Pid, Drain(p) PROVE LaggingOnlyForDeaths' /\ RoundsHandleAll'
  <2>1. /\ agents' = agents \cup {p}
        /\ status' = [status EXCEPT ![p] = IF p \in agents THEN @ ELSE Fresh]
        /\ UNCHANGED <<events, failedCount, phase>>
    BY <1>6 DEF Drain, Register
  <2>2. FailedCount' \subseteq FailedCount
    BY <1>1, <2>1 DEF FailedCount, TypeOK, Fresh
  <2> QED BY <1>2, <2>1, <2>2 DEF TaskInv, RoundsHandleAll
<1>7. ASSUME NEW p \in Pid, CheckOne(p) PROVE LaggingOnlyForDeaths' /\ RoundsHandleAll'
  <2>1. /\ events \subseteq events'
        /\ \/ FailedCount' \subseteq FailedCount
           \/ [kind |-> "AgentDied", pid |-> p] \in events'
    BY <1>7, VisitCounts DEF CheckOne, TaskInv
  <2>2. LaggingOnlyForDeaths'
    BY <1>2, <1>7, <2>1 DEF CheckOne, gauges, LaggingOnlyForDeaths, DeathsPending
  <2>3. RoundsHandleAll'
    BY <1>7 DEF CheckOne, RoundsHandleAll
  <2> QED BY <2>2, <2>3
<1>8. ASSUME NEW e \in events, Publish(e) PROVE LaggingOnlyForDeaths' /\ RoundsHandleAll'
  <2>1. /\ phase' = "publish" /\ UNCHANGED <<agents, status>>
        /\ events' = events \ {e} /\ failedCount' = FailedCountAfter(e)
    BY <1>8 DEF Publish, Handle
  <2>2. FailedCount' = FailedCount /\ Cardinality(FailedCount) \in Nat
    BY <1>1, <2>1, CountOfPids DEF FailedCount, TypeOK
  <2>3. ASSUME e.kind = "AgentDied" PROVE LaggingOnlyForDeaths'
    BY <2>1, <2>2, <2>3 DEF FailedCountAfter, LaggingOnlyForDeaths
  <2>4. ASSUME e.kind # "AgentDied" PROVE LaggingOnlyForDeaths'
    <3>1. DeathsPending => DeathsPending'
      BY <2>1, <2>4 DEF DeathsPending
    <3> QED BY <2>1, <2>2, <2>4, <3>1
            DEF FailedCountAfter, LaggingOnlyForDeaths, TaskInv
  <2>5. RoundsHandleAll'
    BY <2>1 DEF RoundsHandleAll
  <2> QED BY <2>3, <2>4, <2>5
<1> QED BY <1>4, <1>5, <1>6, <1>7, <1>8 DEF TaskNext

LEMMA TaskInvHolds == TaskSpec => []TaskInv
<1>1. TaskInv /\ [TaskNext]_taskVars => TaskInv'
  <2> SUFFICES ASSUME TaskInv, [TaskNext]_taskVars PROVE TaskInv'
    OBVIOUS
  <2>1. Inv'
    BY StepIsMonitorStep, NextInv DEF TaskInv
  <2> QED BY <2>1, TaskTypeStep, GaugeStep DEF TaskInv
<1> QED BY <1>1, InitTaskInv, PTL DEF TaskSpec

(* Type correctness of Task 2: in particular the gauges never exceed the   *)
(* number of pids.                                                         *)
THEOREM TaskTypeCorrectness == TaskSpec => []TaskTypeOK
<1>1. TaskInv => TaskTypeOK
  BY DEF TaskInv
<1> QED BY <1>1, TaskInvHolds, PTL

(* Between two rounds the failed gauge includes every agent whose state is *)
(* Failed, although only a death has the failed agents counted.            *)
THEOREM GaugeCoversTheFailed == TaskSpec => []FailedNeverUnderReported
<1>1. TaskInv => FailedNeverUnderReported
  BY DEF TaskInv, RoundsHandleAll, LaggingOnlyForDeaths, DeathsPending,
         FailedNeverUnderReported
<1> QED BY <1>1, TaskInvHolds, PTL

-----------------------------------------------------------------------------
(* The runtime pipeline.                                                   *)

LEMMA FunctionIsSeq ==
  ASSUME NEW S, NEW n \in Nat, NEW f \in [1..n -> S]
  PROVE  f \in Seq(S) /\ Len(f) = n /\ DOMAIN f = 1..n
<1>1. f \in Seq(S)
  BY SeqDef
<1> QED BY <1>1, LenProperties

(* Registering a block adds one entry to the list.                         *)
LEMMA Registered ==
  ASSUME RuntimeTypeOK, NEW d \in Dest, RegisterAction(d), Len(recoverable) < MaxBlocks
  PROVE  recoverable' \in Seq(Recoverable) /\ Len(recoverable') <= MaxBlocks
<1> DEFINE new == [dest |-> d, expires |-> clock + Expiry, done |-> FALSE]
<1>1. new \in Recoverable
  BY RuntimeAssumption DEF Recoverable, RuntimeTypeOK
<1>2. recoverable \in Seq(Recoverable) /\ recoverable' = Append(recoverable, new)
  BY DEF RuntimeTypeOK, RegisterAction
<1>3. recoverable' \in Seq(Recoverable) /\ Len(recoverable') = Len(recoverable) + 1
  BY <1>1, <1>2, AppendProperties
<1> QED BY <1>2, <1>3, LenProperties, RuntimeAssumption

(* A round of recovery keeps the entries and their number, and what it     *)
(* reports are destinations.                                               *)
LEMMA Recovered ==
  ASSUME RuntimeTypeOK, AutoRecover
  PROVE  /\ recoverable' \in Seq(Recoverable) /\ Len(recoverable') = Len(recoverable)
         /\ lifted' \subseteq Dest
<1>1. /\ Len(recoverable) \in Nat /\ DOMAIN recoverable = 1..Len(recoverable)
      /\ recoverable \in [1..Len(recoverable) -> Recoverable]
  BY LenProperties DEF RuntimeTypeOK
<1> DEFINE entry(i) == IF Marks(i) THEN [recoverable[i] EXCEPT !.done = TRUE] ELSE recoverable[i]
<1>2. recoverable' = [i \in DOMAIN recoverable |-> entry(i)]
  BY DEF AutoRecover, Marked
<1>3. ASSUME NEW i \in DOMAIN recoverable PROVE entry(i) \in Recoverable
  <2>1. recoverable[i] \in Recoverable
    BY <1>1
  <2> HIDE DEF Marks
  <2> QED BY <2>1 DEF Recoverable
<1> HIDE DEF entry
<1>4. recoverable' \in [1..Len(recoverable) -> Recoverable]
  BY <1>1, <1>2, <1>3
<1>5. recoverable' \in Seq(Recoverable) /\ Len(recoverable') = Len(recoverable)
  BY <1>1, <1>4, FunctionIsSeq
<1>6. ExpiredDests \subseteq Dest
  <2>1. \A i \in DOMAIN recoverable : recoverable[i].dest \in Dest
    BY <1>1 DEF Recoverable
  <2> QED BY <2>1 DEF ExpiredDests
<1> QED BY <1>5, <1>6 DEF AutoRecover, RuntimeTypeOK

-----------------------------------------------------------------------------
LEMMA RuntimeInitType == RuntimeInit => RuntimeTypeOK
<1> SUFFICES ASSUME RuntimeInit PROVE RuntimeTypeOK
  OBVIOUS
<1>1. recoverable \in Seq(Recoverable) /\ Len(recoverable) = 0
  BY EmptySeq DEF RuntimeInit
<1> QED BY <1>1, RuntimeAssumption DEF RuntimeInit, RuntimeTypeOK

LEMMA RuntimeTypeStep == RuntimeTypeOK /\ [RuntimeNext]_runtimeVars => RuntimeTypeOK'
<1> SUFFICES ASSUME RuntimeTypeOK, [RuntimeNext]_runtimeVars PROVE RuntimeTypeOK'
  OBVIOUS
<1> USE RuntimeAssumption DEF RuntimeTypeOK
<1>1. ASSUME NEW d \in Dest, DecideBlock(d) PROVE RuntimeTypeOK'
  <2>1. recoverable' \in Seq(Recoverable) /\ Len(recoverable') <= MaxBlocks
    BY <1>1, Registered DEF DecideBlock
  <2> QED BY <1>1, <2>1 DEF DecideBlock, BlockDomain, files
<1>2. ASSUME NEW d \in Dest, Unblock(d) PROVE RuntimeTypeOK'
  BY <1>2 DEF Unblock, time, files
<1>3. ASSUME NEW p \in Path, FileAccess(p) \/ Replaced(p) \/ CheckFileAccess(p)
      PROVE  RuntimeTypeOK'
  BY <1>3 DEF FileAccess, Replaced, CheckFileAccess, time, blocks
<1>4. CASE QueueOverflow \/ ReaderEnds \/ DecideOther
  BY <1>4 DEF QueueOverflow, ReaderEnds, DecideOther, time, blocks, files
<1>5. CASE Periodic
  <2>1. /\ recoverable' \in Seq(Recoverable) /\ Len(recoverable') = Len(recoverable)
        /\ lifted' \subseteq Dest
    BY <1>5, Recovered DEF Periodic
  <2> QED BY <1>5, <2>1 DEF Periodic
<1>6. CASE Tick \/ \E t \in 0..MaxClock : SetClock(t)
  BY <1>6 DEF Tick, SetClock, blocks, files
<1>7. CASE DaemonRestart
  <2>1. recoverable' \in Seq(Recoverable) /\ Len(recoverable') = 0
    BY <1>7, EmptySeq DEF DaemonRestart
  <2> QED BY <1>7, <2>1 DEF DaemonRestart
<1>8. CASE UNCHANGED runtimeVars
  BY <1>8 DEF runtimeVars, time, blocks, files
<1> QED BY <1>1, <1>2, <1>3, <1>4, <1>5, <1>6, <1>7, <1>8 DEF RuntimeNext

(* Type correctness of Task 8's state, under any setting of the clock and  *)
(* any number of restarts.                                                 *)
THEOREM RuntimeTypeCorrectness == RuntimeSpec => []RuntimeTypeOK
BY RuntimeInitType, RuntimeTypeStep, PTL DEF RuntimeSpec
=============================================================================
