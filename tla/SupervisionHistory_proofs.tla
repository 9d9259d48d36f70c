--------------------- MODULE SupervisionHistory_proofs ---------------------
(***************************************************************************)
(* Proofs about crash recovery, for any set of pids, any programs and any  *)
(* number of retries, with messages lost, pids reused and the daemon       *)
(* crashing at any moment.                                                 *)
(***************************************************************************)
EXTENDS SupervisionHistory, FiniteSetTheorems, TLAPS

-----------------------------------------------------------------------------
(* Type correctness.                                                       *)

LEMMA InitTypeOK == HistoryInit => HistoryTypeOK
<1> SUFFICES ASSUME HistoryInit PROVE HistoryTypeOK
  OBVIOUS
<1>1. FD!TypeOK
  BY DEF HistoryInit, Init, FD!TypeOK, FD!ProcState
<1>2. RB!TypeOK
  BY SupervisionAssumption DEF HistoryInit, Init, RB!TypeOK
<1>3. up \in BOOLEAN
  BY DEF HistoryInit, Init
<1> QED
  BY <1>1, <1>2, <1>3 DEF HistoryInit, Init, HistoryTypeOK, TypeOK, Command

LEMMA CommandForType ==
  ASSUME TypeOK, NEW p \in Pid
  PROVE  CommandFor(p) \in Command
BY DEF TypeOK, CommandFor, Command

LEMMA NextTypeOK ==
  HistoryTypeOK /\ [HistoryNext]_historyVars => HistoryTypeOK'
<1> SUFFICES ASSUME HistoryTypeOK, [HistoryNext]_historyVars PROVE HistoryTypeOK'
  OBVIOUS
<1> USE SupervisionAssumption DEF HistoryTypeOK, TypeOK, FD!TypeOK, RB!TypeOK
<1>1. ASSUME NEW p \in Pid, Launch(p), UNCHANGED reported
      PROVE  HistoryTypeOK'
  BY <1>1 DEF Launch, monitor, engine, messages, Command, FD!ProcState
<1>2. ASSUME NEW p \in Pid, Exit(p), UNCHANGED reported
      PROVE  HistoryTypeOK'
  BY <1>2 DEF Exit, monitor, engine, messages, Command, FD!ProcState
<1>3. ASSUME NEW p \in Pid, Discover(p), UNCHANGED reported
      PROVE  HistoryTypeOK'
  BY <1>3 DEF Discover, kernel, monitor, engine, Discovery
<1>4. ASSUME NEW p \in Pid, MonitorAgent(p), UNCHANGED reported
      PROVE  HistoryTypeOK'
  BY <1>4 DEF MonitorAgent, FD!Watch, engine
<1>5. ASSUME NEW p \in Pid, AgentDied(p),
             reported' = reported \cup {p}
      PROVE  HistoryTypeOK'
  BY <1>5 DEF AgentDied, FD!DeclareDown, engine
<1>6. ASSUME NEW p \in Pid, AgentRecovered(p), UNCHANGED reported
      PROVE  HistoryTypeOK'
  BY <1>6 DEF AgentRecovered, FD!DeclareUp, engine, messages
<1>7. ASSUME NEW p \in Pid, RegisterFailed(p), UNCHANGED reported
      PROVE  HistoryTypeOK'
  BY <1>7 DEF RegisterFailed, RB!Register, kernel, monitor
<1>8. ASSUME NEW p \in Pid, Restart(p), UNCHANGED reported
      PROVE  HistoryTypeOK'
  <2>1. /\ registered' = registered
        /\ attempt' \in [Pid -> 0..MaxRetries]
        /\ resting' \subseteq registered
        /\ todo' \subseteq registered
    BY <1>8 DEF Restart, RB!Attempt, RB!Eligible
  <2>3. UNCHANGED <<up, watched, down, toHealth, toRestart, failed, reported>>
    BY <1>8 DEF Restart, monitor, messages
  <2>4. CASE NoSpawn
    BY <2>1, <2>3, <2>4 DEF NoSpawn, kernel
  <2>5. ASSUME NEW q \in Pid, Spawn(p, q) PROVE HistoryTypeOK'
    BY <2>1, <2>3, <2>5, CommandForType DEF Spawn, Command, FD!ProcState
  <2> QED BY <1>8, <2>4, <2>5 DEF Restart
<1>9. CASE Lose /\ UNCHANGED reported
  BY <1>9 DEF Lose, kernel, monitor, engine
<1>10. CASE CacheCommand /\ UNCHANGED reported
  BY <1>10 DEF CacheCommand, Discovery, Command, kernel, monitor, engine
<1>11. CASE StartRound /\ UNCHANGED reported
  BY <1>11 DEF StartRound, PendingRestarts, RB!Eligible, kernel, monitor, engine, messages
<1>12. CASE Rested /\ UNCHANGED reported
  BY <1>12 DEF Rested, RB!Rested, kernel, monitor, messages
<1>13. CASE Crash /\ reported' = {}
  <2>1. PICK dead \in {{}, child} :
          /\ proc' = [q \in Pid |-> IF q \in Gone(dead) THEN "free" ELSE proc[q]]
          /\ prog' = [q \in Pid |-> IF q \in Gone(dead) THEN None ELSE prog[q]]
          /\ origin' = [q \in Pid |-> IF q \in Gone(dead) THEN None ELSE origin[q]]
    BY <1>13 DEF Crash
  <2>2. /\ proc' \in [Pid -> FD!ProcState]
        /\ prog' \in [Pid -> Command]
        /\ origin' \in [Pid -> Pid \cup {None}]
    BY <2>1 DEF Command, FD!ProcState
  <2>3. /\ up' \in BOOLEAN
        /\ child' = {} /\ watched' = {} /\ down' = {}
        /\ registered' = {} /\ resting' = {} /\ todo' = {}
        /\ toHealth' = {} /\ toRestart' = {} /\ failed' = {} /\ reported' = {}
    BY <1>13 DEF Crash
  <2>4. attempt' \in [Pid -> 0..MaxRetries] /\ cmdline' \in [Pid -> Command]
    BY <1>13 DEF Crash, Command
  <2> QED BY <2>2, <2>3, <2>4
<1>14. CASE Boot /\ UNCHANGED reported
  BY <1>14 DEF Boot, Hydrate, kernel, monitor, engine, messages
<1>15. CASE UNCHANGED historyVars
  BY <1>15 DEF historyVars, vars, kernel, monitor, engine, messages
<1> QED
  BY <1>1, <1>2, <1>3, <1>4, <1>5, <1>6, <1>7, <1>8, <1>9, <1>10, <1>11, <1>12,
     <1>13, <1>14, <1>15
  DEF HistoryNext

(* Type correctness of crash recovery with its history.                    *)
THEOREM TypeCorrectness == HistorySpec => []HistoryTypeOK
BY InitTypeOK, NextTypeOK, PTL DEF HistorySpec

-----------------------------------------------------------------------------
(* Only pids that were reported dead, or that the table has a row for,     *)
(* reach the restart engine.  The invariant is inductive as it stands:     *)
(* AGENT_FAILED and the hydration at the start are the only ways in, and a *)
(* crash of the daemon empties both ends.                                  *)
THEOREM RestartsOnlyTheDead == HistorySpec => []OnlyTheDeadAreRestarted
<1>1. HistoryInit => OnlyTheDeadAreRestarted
  BY DEF HistoryInit, Init, OnlyTheDeadAreRestarted
<1>2. OnlyTheDeadAreRestarted /\ [HistoryNext]_historyVars => OnlyTheDeadAreRestarted'
  <2> SUFFICES ASSUME OnlyTheDeadAreRestarted, [HistoryNext]_historyVars
               PROVE  OnlyTheDeadAreRestarted'
    OBVIOUS
  <2> USE DEF OnlyTheDeadAreRestarted
  <2>1. ASSUME NEW p \in Pid, AgentDied(p), reported' = reported \cup {p}
        PROVE  OnlyTheDeadAreRestarted'
    BY <2>1 DEF AgentDied, engine
  <2>2. ASSUME NEW p \in Pid, RegisterFailed(p), reported' = reported
        PROVE  OnlyTheDeadAreRestarted'
    BY <2>2 DEF RegisterFailed, RB!Register
  <2>3. ASSUME NEW p \in Pid, Restart(p), reported' = reported
        PROVE  OnlyTheDeadAreRestarted'
    BY <2>3 DEF Restart, RB!Attempt, messages
  <2>4. CASE Lose /\ reported' = reported
    BY <2>4 DEF Lose, engine
  <2>5. CASE Rested /\ reported' = reported
    BY <2>5 DEF Rested, RB!Rested, messages
  <2>6. CASE Crash
    BY <2>6 DEF Crash
  <2>7. CASE UNCHANGED <<registered, failed, reported>>
    BY <2>7
  <2>8. ASSUME NEW p \in Pid,
               Launch(p) \/ Exit(p) \/ Discover(p) \/ MonitorAgent(p)
               \/ AgentRecovered(p)
        PROVE  UNCHANGED <<registered, failed>>
    BY <2>8 DEF Launch, Exit, Discover, MonitorAgent, AgentRecovered, engine, messages
  <2>9. ASSUME CacheCommand \/ StartRound
        PROVE  UNCHANGED <<registered, failed>>
    BY <2>9 DEF CacheCommand, StartRound, engine, messages
  <2>11. CASE Boot /\ reported' = reported
    BY <2>11 DEF Boot, Hydrate, engine, messages
  <2>10. CASE UNCHANGED historyVars
    BY <2>10 DEF historyVars, vars, engine, messages
  <2> QED
    BY <2>1, <2>2, <2>3, <2>4, <2>5, <2>6, <2>7, <2>8, <2>9, <2>10, <2>11
    DEF HistoryNext
<1> QED BY <1>1, <1>2, PTL DEF HistorySpec

-----------------------------------------------------------------------------
(* The daemon never makes more copies of an agent than it counts attempts, *)
(* because an attempt is counted before the process is spawned.  The number*)
(* of pids may be infinite; what the daemon has spawned is finite.  While  *)
(* the daemon is down there is nothing in its memory and no child of it,   *)
(* so that the counts it is hydrated with meet no copies.                  *)
OffIsEmpty == ~up => /\ child = {} /\ watched = {} /\ registered = {} /\ todo = {}
                     /\ toHealth = {} /\ failed = {}

LEMMA NextOffIsEmpty == OffIsEmpty /\ [HistoryNext]_historyVars => OffIsEmpty'
<1> SUFFICES ASSUME OffIsEmpty, [HistoryNext]_historyVars PROVE OffIsEmpty'
  OBVIOUS
<1> USE DEF OffIsEmpty
<1>1. ASSUME NEW p \in Pid, Launch(p) \/ Exit(p) \/ Discover(p) PROVE OffIsEmpty'
  BY <1>1 DEF Launch, Exit, Discover, kernel, monitor, engine, messages
<1>2. ASSUME NEW p \in Pid,
             MonitorAgent(p) \/ AgentDied(p) \/ AgentRecovered(p) \/ RegisterFailed(p)
      PROVE  OffIsEmpty'
  BY <1>2 DEF MonitorAgent, FD!Watch, AgentDied, FD!DeclareDown, AgentRecovered,
              FD!DeclareUp, RegisterFailed, RB!Register, kernel, monitor, engine,
              messages
<1>3. ASSUME NEW p \in Pid, Restart(p) PROVE OffIsEmpty'
  BY <1>3 DEF Restart, monitor, messages
<1>4. CASE Lose
  BY <1>4 DEF Lose, kernel, monitor, engine
<1>5. CASE CacheCommand
  BY <1>5 DEF CacheCommand, kernel, monitor, engine
<1>6. CASE StartRound
  BY <1>6 DEF StartRound, PendingRestarts, RB!Eligible, kernel, monitor, engine, messages
<1>7. CASE Rested
  BY <1>7 DEF Rested, RB!Rested, kernel, monitor, messages
<1>8. CASE Crash
  BY <1>8 DEF Crash
<1>9. CASE Boot
  BY <1>9 DEF Boot
<1>10. CASE UNCHANGED historyVars
  BY <1>10 DEF historyVars, vars, kernel, monitor, engine, messages
<1> QED
  BY <1>1, <1>2, <1>3, <1>4, <1>5, <1>6, <1>7, <1>8, <1>9, <1>10 DEF HistoryNext

CopiesInv == /\ HistoryTypeOK
             /\ IsFiniteSet(child)
             /\ CopiesWithinBudget
             /\ OffIsEmpty

LEMMA CopiesFinite ==
  ASSUME IsFiniteSet(child), NEW p \in Pid
  PROVE  IsFiniteSet(Copies(p)) /\ Cardinality(Copies(p)) \in Nat
<1>1. Copies(p) \subseteq child
  BY DEF Copies
<1> QED BY <1>1, FS_Subset, FS_CardinalityType

LEMMA CopiesKept ==
  ASSUME CopiesInv, HistoryTypeOK', OffIsEmpty', UNCHANGED <<origin, child, attempt>>
  PROVE  CopiesInv'
BY DEF CopiesInv, CopiesWithinBudget, Copies

LEMMA NextCopiesInv == CopiesInv /\ [HistoryNext]_historyVars => CopiesInv'
<1> SUFFICES ASSUME CopiesInv, [HistoryNext]_historyVars PROVE CopiesInv'
  OBVIOUS
<1>0. HistoryTypeOK' /\ OffIsEmpty'
  BY NextTypeOK, NextOffIsEmpty DEF CopiesInv
<1>1. /\ child \subseteq Pid
      /\ origin \in [Pid -> Pid \cup {None}]
      /\ attempt \in [Pid -> 0..MaxRetries]
      /\ MaxRetries \in Nat
      /\ None \notin Pid
  BY SupervisionAssumption DEF CopiesInv, HistoryTypeOK, TypeOK, RB!TypeOK
<1>2. ASSUME NEW p \in Pid, Exit(p) PROVE CopiesInv'
  <2>1. /\ UNCHANGED <<child, attempt>>
        /\ origin' = [origin EXCEPT ![p] = None]
    BY <1>2 DEF Exit, engine
  <2>2. ASSUME NEW r \in Pid PROVE Cardinality(Copies(r)') <= attempt'[r]
    <3>1. Copies(r)' \subseteq Copies(r)
      BY <1>1, <2>1 DEF Copies
    <3>2. /\ IsFiniteSet(Copies(r)) /\ Cardinality(Copies(r)) \in Nat
          /\ Cardinality(Copies(r)) <= attempt[r]
      BY CopiesFinite DEF CopiesInv, CopiesWithinBudget
    <3>3. /\ Cardinality(Copies(r)') <= Cardinality(Copies(r))
          /\ Cardinality(Copies(r)') \in Nat
      BY <3>1, <3>2, FS_Subset, FS_CardinalityType
    <3> QED BY <1>1, <2>1, <3>2, <3>3
  <2> QED BY <1>0, <2>1, <2>2 DEF CopiesInv, CopiesWithinBudget
<1>3. ASSUME NEW p \in Pid, Restart(p) PROVE CopiesInv'
  <2>1. attempt' = [attempt EXCEPT ![p] = @ + 1]
    BY <1>3 DEF Restart, RB!Attempt
  <2>2. CASE NoSpawn
    <3>1. UNCHANGED <<origin, child>>
      BY <2>2 DEF NoSpawn, kernel
    <3>2. ASSUME NEW r \in Pid PROVE Cardinality(Copies(r)') <= attempt'[r]
      <4>1. Copies(r)' = Copies(r)
        BY <3>1 DEF Copies
      <4>2. Cardinality(Copies(r)) \in Nat /\ Cardinality(Copies(r)) <= attempt[r]
        BY CopiesFinite DEF CopiesInv, CopiesWithinBudget
      <4> QED BY <1>1, <2>1, <4>1, <4>2
    <3> QED BY <1>0, <3>1, <3>2 DEF CopiesInv, CopiesWithinBudget
  <2>3. ASSUME NEW q \in Pid, Spawn(p, q) PROVE CopiesInv'
    <3>1. child' = child \cup {q} /\ origin' = [origin EXCEPT ![q] = p]
      BY <2>3 DEF Spawn
    <3>2. IsFiniteSet(child')
      BY <3>1, FS_AddElement DEF CopiesInv
    <3>3. ASSUME NEW r \in Pid PROVE Cardinality(Copies(r)') <= attempt'[r]
      <4>1. /\ IsFiniteSet(Copies(r)) /\ Cardinality(Copies(r)) \in Nat
            /\ Cardinality(Copies(r)) <= attempt[r]
        BY CopiesFinite DEF CopiesInv, CopiesWithinBudget
      <4>2. CASE r # p
        <5>1. Copies(r)' \subseteq Copies(r)
          BY <1>1, <3>1, <4>2 DEF Copies
        <5>2. /\ Cardinality(Copies(r)') <= Cardinality(Copies(r))
              /\ Cardinality(Copies(r)') \in Nat
          BY <4>1, <5>1, FS_Subset, FS_CardinalityType
        <5> QED BY <1>1, <2>1, <4>1, <4>2, <5>2
      <4>3. CASE r = p
        <5>1. Copies(r)' \subseteq Copies(r) \cup {q}
          BY <1>1, <3>1, <4>3 DEF Copies
        <5>2. /\ IsFiniteSet(Copies(r) \cup {q})
              /\ Cardinality(Copies(r) \cup {q}) \in Nat
              /\ Cardinality(Copies(r) \cup {q}) <= Cardinality(Copies(r)) + 1
          <6>1. /\ IsFiniteSet(Copies(r) \cup {q})
                /\ \/ Cardinality(Copies(r) \cup {q}) = Cardinality(Copies(r))
                   \/ Cardinality(Copies(r) \cup {q}) = Cardinality(Copies(r)) + 1
            BY <4>1, FS_AddElement
          <6> QED BY <4>1, <6>1
        <5>3. /\ Cardinality(Copies(r)') <= Cardinality(Copies(r) \cup {q})
              /\ Cardinality(Copies(r)') \in Nat
          BY <5>1, <5>2, FS_Subset, FS_CardinalityType
        <5> QED BY <1>1, <2>1, <4>1, <4>3, <5>2, <5>3
      <4> QED BY <4>2, <4>3
    <3> QED BY <1>0, <3>2, <3>3 DEF CopiesInv, CopiesWithinBudget
  <2> QED BY <1>3, <2>2, <2>3 DEF Restart
<1>4. CASE Crash
  <2>1. child' = {} /\ attempt' = [p \in Pid |-> 0]
    BY <1>4 DEF Crash
  <2>2. \A p \in Pid : Copies(p)' = {}
    BY <2>1 DEF Copies
  <2>3. \A p \in Pid : Cardinality(Copies(p)') <= attempt'[p]
    BY <2>1, <2>2, FS_EmptySet
  <2>4. IsFiniteSet(child')
    BY <2>1, FS_EmptySet
  <2> QED BY <1>0, <2>3, <2>4 DEF CopiesInv, CopiesWithinBudget
<1>7. CASE Boot
  <2>1. child = {} /\ child' = {}
    BY <1>7 DEF Boot, kernel, CopiesInv, OffIsEmpty
  <2>2. \A p \in Pid : Copies(p)' = {} /\ attempt'[p] \in Nat
    BY <1>0, <2>1, SupervisionAssumption DEF Copies, HistoryTypeOK, TypeOK, RB!TypeOK
  <2>3. \A p \in Pid : Cardinality(Copies(p)') <= attempt'[p]
    BY <2>2, FS_EmptySet
  <2> QED BY <1>0, <2>1, <2>3, FS_EmptySet DEF CopiesInv, CopiesWithinBudget
<1>5. ASSUME NEW p \in Pid,
             Launch(p) \/ Discover(p) \/ MonitorAgent(p) \/ AgentDied(p)
             \/ AgentRecovered(p) \/ RegisterFailed(p)
      PROVE  UNCHANGED <<origin, child, attempt>>
  BY <1>5 DEF Launch, Discover, MonitorAgent, AgentDied, AgentRecovered,
              RegisterFailed, RB!Register, kernel, engine
<1>6. ASSUME Lose \/ CacheCommand \/ StartRound \/ Rested
             \/ UNCHANGED historyVars
      PROVE  UNCHANGED <<origin, child, attempt>>
  BY <1>6 DEF Lose, CacheCommand, StartRound, Rested, RB!Rested, historyVars,
              vars, kernel, engine
<1> QED
  BY <1>0, <1>2, <1>3, <1>4, <1>5, <1>6, <1>7, CopiesKept DEF HistoryNext

THEOREM CopiesAreBudgeted == HistorySpec => []CopiesWithinBudget
<1>1. HistoryInit => CopiesInv
  <2> SUFFICES ASSUME HistoryInit PROVE CopiesInv
    OBVIOUS
  <2>1. HistoryTypeOK /\ OffIsEmpty /\ child = {} /\ attempt = [p \in Pid |-> 0]
    BY InitTypeOK DEF HistoryInit, Init, OffIsEmpty
  <2>2. \A p \in Pid : Copies(p) = {}
    BY <2>1 DEF Copies
  <2>3. \A p \in Pid : Cardinality(Copies(p)) <= attempt[p]
    BY <2>1, <2>2, FS_EmptySet
  <2> QED BY <2>1, <2>3, FS_EmptySet DEF CopiesInv, CopiesWithinBudget
<1>2. CopiesInv => CopiesWithinBudget
  BY DEF CopiesInv
<1> QED BY <1>1, <1>2, NextCopiesInv, PTL DEF HistorySpec
=============================================================================
