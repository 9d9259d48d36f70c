------------------------ MODULE RestartEngine_proofs ------------------------
(***************************************************************************)
(* Proofs about the restart engine, for any set of pids, any configuration *)
(* and any attempts carried over.  That the backoff is exact and never     *)
(* zero is proved of the recursively defined Pow2 (Pow2Grows), as long as  *)
(* the largest product of next_backoff fits its type (NothingWraps).       *)
(***************************************************************************)
EXTENDS RestartEngine, InductionTheorems

\* The agents of the pending list are still due, and an agent without a
\* restart state has left nothing behind.
PendingAreDue ==
  \A p \in pending : p \in registered /\ HasRetries(p) /\ CooledDown(p)

UnregisteredAreFresh ==
  \A p \in Pid \ registered :
    attempt[p] = 0 /\ lastAttempt[p] = Never /\ cooldownUntil[p] = Never

Inv == TypeOK /\ PendingAreDue /\ UnregisteredAreFresh

PendingHaveBackedOff == \A p \in pending : BackedOff(p)

-----------------------------------------------------------------------------
LEMMA InitInv == Init => Inv
BY ConfigAssumption
DEF Init, Inv, TypeOK, PendingAreDue, UnregisteredAreFresh, Never

LEMMA NextInv == Inv /\ [Next]_vars => Inv'
<1> SUFFICES ASSUME Inv, [Next]_vars PROVE Inv'
  OBVIOUS
<1> USE ConfigAssumption
    DEF Inv, TypeOK, PendingAreDue, UnregisteredAreFresh, HasRetries, CooledDown, Never
<1>1. CASE Tick
  BY <1>1 DEF Tick
<1>2. CASE PendingRestarts
  BY <1>2 DEF PendingRestarts, CanRetry
<1>3. ASSUME NEW p \in Pid, RegisterAgent(p) PROVE Inv'
  BY <1>3 DEF RegisterAgent
<1>4. ASSUME NEW p \in Pid, UnregisterAgent(p) PROVE Inv'
  BY <1>4 DEF UnregisterAgent
<1>5. ASSUME NEW p \in Pid, RecordAttempt(p) PROVE Inv'
  BY <1>5 DEF RecordAttempt
<1>6. ASSUME NEW p \in Pid, MarkRecovered(p) PROVE Inv'
  BY <1>6 DEF MarkRecovered, CooldownEnd
<1>7. CASE UNCHANGED vars
  BY <1>7 DEF vars
<1> QED BY <1>1, <1>2, <1>3, <1>4, <1>5, <1>6, <1>7 DEF Next

LEMMA InvHolds == Spec => []Inv
BY InitInv, NextInv, PTL DEF Spec

(* Type correctness of the engine.                                         *)
THEOREM TypeCorrectness == Spec => []TypeOK
<1>1. Inv => TypeOK
  BY DEF Inv
<1> QED BY <1>1, InvHolds, PTL

-----------------------------------------------------------------------------
(* An attempt is recorded only for an agent that still has retries.        *)
LEMMA BudgetStep ==
  ASSUME MaxRetries \in Nat
  PROVE  /\ Init => WithinBudget
         /\ Inv /\ WithinBudget /\ [Next]_vars => WithinBudget'
<1>1. Init => WithinBudget
  <2> SUFFICES ASSUME Init, NEW p \in Pid
               PROVE  attempt[p] <= MaxRetries
                      \/ (p \in DOMAIN Hydrated /\ attempt[p] <= Hydrated[p])
    BY DEF WithinBudget
  <2>1. CASE p \in DOMAIN Hydrated
    <3>1. Hydrated[p] \in 0..MaxAttempt /\ MaxAttempt \in Nat
      BY <2>1, ConfigAssumption
    <3>2. attempt[p] = Hydrated[p]
      BY <2>1 DEF Init
    <3> QED BY <2>1, <3>1, <3>2
  <2>2. CASE p \notin DOMAIN Hydrated
    BY <2>2 DEF Init
  <2> QED BY <2>1, <2>2
<1>2. Inv /\ WithinBudget /\ [Next]_vars => WithinBudget'
  <2> SUFFICES ASSUME Inv, WithinBudget, [Next]_vars PROVE WithinBudget'
    OBVIOUS
  <2>1. MaxRetries # Unlimited /\ attempt \in [Pid -> 0..MaxAttempt] /\ MaxAttempt \in Nat
    BY ConfigAssumption DEF Inv, TypeOK
  <2>2. ASSUME NEW p \in Pid, RecordAttempt(p) PROVE WithinBudget'
    <3>1. attempt[p] < MaxRetries
      BY <2>1, <2>2 DEF RecordAttempt, Inv, PendingAreDue, HasRetries
    <3> QED BY <2>1, <2>2, <3>1 DEF RecordAttempt, WithinBudget
  <2>3. ASSUME NEW p \in Pid, UnregisterAgent(p) \/ MarkRecovered(p)
        PROVE  WithinBudget'
    BY <2>1, <2>3 DEF UnregisterAgent, MarkRecovered, WithinBudget
  <2>4. CASE attempt' = attempt
    BY <2>4 DEF WithinBudget
  <2> QED BY <2>2, <2>3, <2>4
          DEF Next, Tick, PendingRestarts, RegisterAgent, vars
<1> QED BY <1>1, <1>2

(* No agent is given more than MaxRetries attempts, although the engine    *)
(* decides on the whole pending list before it records the first of them.  *)
THEOREM BudgetRespected ==
  ASSUME MaxRetries \in Nat
  PROVE  Spec => []WithinBudget
BY BudgetStep, InvHolds, PTL DEF Spec

-----------------------------------------------------------------------------
(* Only RecordAttempt makes an attempt count grow, that of its own agent.  *)
LEMMA OnlyRecordingAttempts ==
  ASSUME Inv, [Next]_vars, NEW p \in Pid, attempt'[p] > attempt[p]
  PROVE  RecordAttempt(p)
<1> USE ConfigAssumption DEF Inv, TypeOK
<1>1. CASE attempt' = attempt
  BY <1>1
<1>2. ASSUME NEW q \in Pid, RecordAttempt(q) PROVE q = p
  BY <1>2 DEF RecordAttempt
<1>3. ASSUME NEW q \in Pid, UnregisterAgent(q) \/ MarkRecovered(q) PROVE FALSE
  BY <1>3 DEF UnregisterAgent, MarkRecovered
<1> QED BY <1>1, <1>2, <1>3 DEF Next, Tick, PendingRestarts, RegisterAgent, vars

Cooled == \A p \in Pid : attempt'[p] > attempt[p] => now >= cooldownUntil[p]

(* No attempt falls into the cooldown that follows a recovery.             *)
THEOREM CooldownRespected == Spec => CooldownIsRespected
<1>1. Inv /\ [Next]_vars => [Cooled]_vars
  <2> SUFFICES ASSUME Inv, [Next]_vars, NEW p \in Pid, attempt'[p] > attempt[p]
               PROVE  now >= cooldownUntil[p]
    BY DEF Cooled
  <2>1. CooledDown(p)
    BY OnlyRecordingAttempts DEF RecordAttempt, Inv, PendingAreDue
  <2> QED BY <2>1, ConfigAssumption DEF CooledDown, Inv, TypeOK, Never
<1>2. [Cooled]_vars <=>
      [\A p \in Pid : attempt'[p] > attempt[p] => now >= cooldownUntil[p]]_vars
  BY DEF Cooled
<1> QED BY <1>1, <1>2, InvHolds, PTL DEF Spec, CooldownIsRespected

-----------------------------------------------------------------------------
(* The arithmetic of next_backoff.                                         *)
LEMMA Pow2Equation ==
  /\ Pow2[0] = 1
  /\ \A n \in Nat : Pow2[n] \in Nat \ {0} /\ Pow2[n + 1] = 2 * Pow2[n]
<1> DEFINE V == Nat \ {0}
           double == [v \in V |-> 2 * v]
           P(g) == g = [n \in Nat |-> IF n = 0 THEN 1 ELSE 2 * g[n - 1]]
<1>1. 1 \in V /\ double \in [V -> V]
  OBVIOUS
<1>2. PICK g \in [Nat -> V] : IsRecursive(g, 1, double)
  <2> HIDE DEF V, double
  <2> QED BY <1>1, NatRecursion
<1>3. \A n \in Nat \ {0} : g[n - 1] \in V /\ double[g[n - 1]] = 2 * g[n - 1]
  OBVIOUS
<1>4. P(g)
  <2>1. g = [n \in Nat |-> IF n = 0 THEN 1 ELSE double[g[n - 1]]]
    BY <1>2 DEF IsRecursive
  <2>2. [n \in Nat |-> IF n = 0 THEN 1 ELSE double[g[n - 1]]]
        = [n \in Nat |-> IF n = 0 THEN 1 ELSE 2 * g[n - 1]]
    <3> HIDE DEF V, double
    <3> QED BY <1>3
  <2> QED BY <2>1, <2>2, Zenon
<1>5. Pow2 = CHOOSE f : P(f)
  BY DEF Pow2
<1>6. P(Pow2)
  <2> HIDE DEF P
  <2> QED BY <1>4, <1>5
<1>7. Pow2[0] = 1 /\ \A n \in Nat : Pow2[n + 1] = 2 * Pow2[n]
  <2>1. \A n \in Nat : Pow2[n] = IF n = 0 THEN 1 ELSE 2 * Pow2[n - 1]
    BY <1>6
  <2>2. \A n \in Nat : n + 1 \in Nat /\ n + 1 # 0 /\ (n + 1) - 1 = n
    OBVIOUS
  <2> QED BY <2>1, <2>2
<1> DEFINE K == {n \in Nat : Pow2[n] \in V}
<1>8. 0 \in K /\ \A n \in K : n + 1 \in K
  BY <1>7
<1>9. K = Nat
  <2>1. K \in SUBSET Nat
    OBVIOUS
  <2> HIDE DEF K
  <2> QED BY <1>8, <2>1, NatSetInduction
<1>10. \A n \in Nat : Pow2[n] \in V
  <2> SUFFICES ASSUME NEW n \in Nat PROVE Pow2[n] \in V
    OBVIOUS
  <2>1. n \in K
    BY <1>9, Zenon
  <2> QED BY <2>1
<1> QED BY <1>7, <1>10

LEMMA Pow2Grows ==
  ASSUME NEW n \in Nat, NEW m \in Nat, n <= m
  PROVE  Pow2[n] <= Pow2[m]
<1> DEFINE K == {k \in Nat : Pow2[n] <= Pow2[n + k]}
<1>1. 0 \in K
  BY Pow2Equation
<1>2. ASSUME NEW k \in K PROVE k + 1 \in K
  <2>1. n + k \in Nat /\ n + (k + 1) = (n + k) + 1
    OBVIOUS
  <2>2. Pow2[n + (k + 1)] = 2 * Pow2[n + k] /\ Pow2[n + k] \in Nat /\ Pow2[n] \in Nat
    BY <2>1, Pow2Equation
  <2> QED BY <2>2
<1>3. K = Nat
  <2>1. K \in SUBSET Nat
    OBVIOUS
  <2> HIDE DEF K
  <2> QED BY <1>1, <1>2, <2>1, NatSetInduction
<1>4. m - n \in Nat /\ n + (m - n) = m
  OBVIOUS
<1>5. m - n \in K
  <2> HIDE DEF K
  <2> QED BY <1>3, <1>4
<1> QED BY <1>4, <1>5

LEMMA BackoffIsTyped ==
  ASSUME NEW n \in Nat
  PROVE  NextBackoff(n) \in Nat
<1>1. InitialBackoff * Pow2[n] \in Nat
  BY Pow2Equation, ConfigAssumption
<1>2. (InitialBackoff * Pow2[n]) % Wrap \in Nat
  BY <1>1, ConfigAssumption
<1> QED BY <1>2, ConfigAssumption DEF NextBackoff, AtMost

(* A count that is no longer than one whose product fits has an exact      *)
(* backoff, and not that of nothing.                                       *)
LEMMA BackoffIsExact ==
  ASSUME NEW n \in Nat, NEW m \in Nat, n <= m, InitialBackoff * Pow2[m] < Wrap
  PROVE  /\ NextBackoff(n) = AtMost(InitialBackoff * Pow2[n], MaxBackoff)
         /\ InitialBackoff > 0 /\ MaxBackoff > 0 => NextBackoff(n) \in Nat \ {0}
<1> DEFINE x == Pow2[n]
           y == Pow2[m]
<1>1. InitialBackoff \in Nat /\ MaxBackoff \in Nat /\ Wrap \in Nat \ {0}
  BY ConfigAssumption
<1>2. x \in Nat \ {0} /\ y \in Nat \ {0} /\ x <= y
  BY Pow2Equation, Pow2Grows
<1>3. InitialBackoff * y < Wrap
  OBVIOUS
<1>4. NextBackoff(n) = AtMost((InitialBackoff * x) % Wrap, MaxBackoff)
  BY DEF NextBackoff
<1> HIDE DEF x, y
<1>5. InitialBackoff * x \in Nat /\ InitialBackoff * y \in Nat
      /\ InitialBackoff * x <= InitialBackoff * y
  BY <1>1, <1>2
<1>6. (InitialBackoff * x) % Wrap = InitialBackoff * x
  BY <1>1, <1>3, <1>5
<1>7. InitialBackoff > 0 => InitialBackoff * x # 0
  BY <1>1, <1>2
<1>8. NextBackoff(n) = AtMost(InitialBackoff * x, MaxBackoff)
  BY <1>4, <1>6
<1> QED BY <1>1, <1>5, <1>7, <1>8 DEF AtMost, x

-----------------------------------------------------------------------------
(* The agents of the pending list have backed off, and keep having so while*)
(* the orchestrator works on the ones before them.                         *)
LEMMA BackedOffHolds == Spec => []PendingHaveBackedOff
<1>1. Init => PendingHaveBackedOff
  BY DEF Init, PendingHaveBackedOff
<1>2. Inv /\ PendingHaveBackedOff /\ [Next]_vars => PendingHaveBackedOff'
  <2> SUFFICES ASSUME Inv, PendingHaveBackedOff, [Next]_vars
               PROVE  PendingHaveBackedOff'
    OBVIOUS
  <2> USE ConfigAssumption DEF Inv, TypeOK, PendingHaveBackedOff, BackedOff, Never
  <2>1. CASE Tick
    <3>1. \A p \in Pid : NextBackoff(attempt[p]) \in Nat
      BY BackoffIsTyped
    <3> QED BY <2>1, <3>1 DEF Tick
  <2>2. CASE PendingRestarts
    BY <2>2 DEF PendingRestarts, CanRetry
  <2>3. ASSUME NEW p \in Pid, RecordAttempt(p) PROVE PendingHaveBackedOff'
    BY <2>3 DEF RecordAttempt
  <2>4. ASSUME NEW p \in Pid, UnregisterAgent(p) \/ MarkRecovered(p)
        PROVE  PendingHaveBackedOff'
    BY <2>4 DEF UnregisterAgent, MarkRecovered
  <2>5. CASE UNCHANGED <<now, attempt, lastAttempt, pending>>
    BY <2>5
  <2> QED BY <2>1, <2>2, <2>3, <2>4, <2>5 DEF Next, RegisterAgent, vars
<1> QED BY <1>1, <1>2, InvHolds, PTL DEF Spec

Spaced ==
  \A p \in Pid :
    attempt'[p] > attempt[p] /\ lastAttempt[p] # Never =>
      now - lastAttempt[p] >= AtMost(InitialBackoff * Pow2[attempt[p]], MaxBackoff)

(* Two attempts are at least the documented backoff apart, as long as the  *)
(* product of next_backoff fits for the longest count.                     *)
THEOREM AttemptsSpaced ==
  ASSUME NothingWraps
  PROVE  Spec => AttemptsAreSpaced
<1>1. Inv /\ PendingHaveBackedOff /\ [Next]_vars => [Spaced]_vars
  <2> SUFFICES ASSUME Inv, PendingHaveBackedOff, [Next]_vars, NEW p \in Pid,
                      attempt'[p] > attempt[p], lastAttempt[p] # Never
               PROVE  now - lastAttempt[p]
                        >= AtMost(InitialBackoff * Pow2[attempt[p]], MaxBackoff)
    BY DEF Spaced
  <2> DEFINE longest == IF MaxRetries = Unlimited THEN MaxAttempt ELSE MaxRetries
  <2>1. BackedOff(p) /\ HasRetries(p)
    BY OnlyRecordingAttempts DEF RecordAttempt, PendingHaveBackedOff, Inv, PendingAreDue
  <2>2. NextBackoff(attempt[p]) = AtMost(InitialBackoff * Pow2[attempt[p]], MaxBackoff)
    <3>1. attempt[p] \in Nat /\ longest \in Nat /\ attempt[p] <= longest
      BY <2>1, ConfigAssumption DEF Inv, TypeOK, HasRetries
    <3>2. InitialBackoff * Pow2[longest] < Wrap
      BY DEF NothingWraps
    <3> HIDE DEF longest
    <3> QED BY <3>1, <3>2, BackoffIsExact
  <2> QED BY <2>1, <2>2 DEF BackedOff
<1>2. [Spaced]_vars <=>
      [\A p \in Pid :
         attempt'[p] > attempt[p] /\ lastAttempt[p] # Never =>
           now - lastAttempt[p]
             >= AtMost(InitialBackoff * Pow2[attempt[p]], MaxBackoff)]_vars
  BY DEF Spaced
<1> QED BY <1>1, <1>2, InvHolds, BackedOffHolds, PTL DEF Spec, AttemptsAreSpaced

-----------------------------------------------------------------------------
(* Refinement of RestartBudget: an agent rests until its cooldown and its  *)
(* backoff have passed.                                                    *)
Resting == {p \in registered : Rests(p)}

LEMMA InitRefines ==
  ASSUME NothingWraps, InitialBackoff > 0, MaxBackoff > 0
  PROVE  Init => RB!Init
<1> SUFFICES ASSUME Init PROVE RB!Init
  OBVIOUS
<1>1. attempt \in [Pid -> 0..MaxAttempt] /\ registered \subseteq Pid
  BY ConfigAssumption DEF Init
<1>2. \A p \in registered : Rests(p) <=> attempt[p] > 0
  <2> SUFFICES ASSUME NEW p \in registered PROVE Rests(p) <=> attempt[p] > 0
    OBVIOUS
  <2>1. NextBackoff(attempt[p]) \in Nat \ {0}
    <3>1. p \in DOMAIN Hydrated /\ attempt[p] = Hydrated[p] /\ Hydrated[p] \in Nat
      BY ConfigAssumption DEF Init
    <3>2. InitialBackoff * Pow2[Hydrated[p]] < Wrap /\ Hydrated[p] <= Hydrated[p]
      BY <3>1 DEF NothingWraps
    <3> QED BY <3>1, <3>2, BackoffIsExact
  <2>2. /\ now = 0 /\ cooldownUntil[p] = Never
        /\ lastAttempt[p] = IF attempt[p] > 0 THEN 0 ELSE Never
    BY <1>1 DEF Init
  <2> QED BY <2>1, <2>2 DEF Rests, Never
<1> QED BY <1>1, <1>2 DEF Init, RB!Init

(* The counts that are reached have a backoff.                             *)
LEMMA RestsAreLong ==
  ASSUME MaxRetries \in Nat, NothingWraps, InitialBackoff > 0, MaxBackoff > 0,
         NEW n \in 0..MaxAttempt, NEW p \in Pid,
         n <= MaxRetries \/ (p \in DOMAIN Hydrated /\ n <= Hydrated[p])
  PROVE  NextBackoff(n) \in Nat \ {0}
<1>1. n \in Nat /\ MaxRetries # Unlimited
  BY ConfigAssumption
<1>2. CASE n <= MaxRetries
  <2>1. InitialBackoff * Pow2[MaxRetries] < Wrap
    BY <1>1 DEF NothingWraps
  <2> QED BY <1>1, <1>2, <2>1, BackoffIsExact
<1>3. CASE p \in DOMAIN Hydrated /\ n <= Hydrated[p]
  <2>1. Hydrated[p] \in Nat /\ InitialBackoff * Pow2[Hydrated[p]] < Wrap
    BY <1>3, ConfigAssumption DEF NothingWraps
  <2> QED BY <1>1, <1>3, <2>1, BackoffIsExact
<1> QED BY <1>2, <1>3

LEMMA NextRefines ==
  ASSUME MaxRetries \in Nat, NothingWraps, InitialBackoff > 0, MaxBackoff > 0, Cooldown > 0
  PROVE  Inv /\ WithinBudget /\ PendingHaveBackedOff /\ [Next]_vars => [RB!Next]_RB!vars
<1> SUFFICES ASSUME Inv, WithinBudget, PendingHaveBackedOff, [Next]_vars
             PROVE  [RB!Next]_RB!vars
  OBVIOUS
<1>0. /\ MaxRetries # Unlimited /\ Cooldown \in Nat
      /\ \A p \in Pid : NextBackoff(attempt[p]) \in Nat \ {0}
  BY ConfigAssumption, RestsAreLong DEF WithinBudget, Inv, TypeOK
<1> USE ConfigAssumption DEF Inv, TypeOK, Never
<1>1. CASE Tick
  <2>1. \A p \in Pid : Rests(p)' => Rests(p)
    BY <1>0, <1>1 DEF Tick, Rests
  <2>2. Resting' \subseteq Resting
    BY <1>1, <2>1 DEF Tick, Resting
  <2>3. CASE Resting' = Resting
    BY <1>1, <2>3 DEF Tick, Resting, RB!vars
  <2>4. CASE Resting' # Resting
    <3>1. RB!Rested(Resting \ Resting')
      BY <1>1, <2>2, <2>4 DEF Tick, Resting, RB!Rested
    <3> QED BY <3>1 DEF RB!Next, Resting
  <2> QED BY <2>3, <2>4
<1>2. CASE PendingRestarts
  BY <1>2 DEF PendingRestarts, RB!vars, Rests
<1>3. ASSUME NEW p \in Pid, RegisterAgent(p) PROVE [RB!Next]_RB!vars
  <2>1. p \notin registered => ~Rests(p)
    BY DEF UnregisteredAreFresh, Rests
  <2>2. Resting' = Resting
    BY <1>3, <2>1 DEF RegisterAgent, Rests, Resting
  <2>3. RB!Register(p)
    BY <1>3, <2>2 DEF RegisterAgent, RB!Register, Resting
  <2> QED BY <2>3 DEF RB!Next
<1>4. ASSUME NEW p \in Pid, UnregisterAgent(p) PROVE [RB!Next]_RB!vars
  <2>1. Resting' = Resting \ {p}
    BY <1>4 DEF UnregisterAgent, Rests, Resting
  <2>2. RB!Unregister(p)
    BY <1>4, <2>1 DEF UnregisterAgent, RB!Unregister, Resting
  <2> QED BY <2>2 DEF RB!Next
<1>5. ASSUME NEW p \in Pid, RecordAttempt(p) PROVE [RB!Next]_RB!vars
  <2>1. p \in registered /\ HasRetries(p) /\ CooledDown(p) /\ BackedOff(p)
    BY <1>5 DEF RecordAttempt, PendingAreDue, PendingHaveBackedOff
  <2>2. ~Rests(p)
    BY <1>0, <2>1 DEF CooledDown, BackedOff, Rests
  <2>3. RB!Eligible(p)
    BY <1>0, <2>1, <2>2 DEF RB!Eligible, HasRetries
  <2>4. attempt'[p] \in 0..MaxAttempt /\ lastAttempt'[p] = now /\ now' = now
    BY <1>5 DEF RecordAttempt
  <2>5. NextBackoff(attempt'[p]) \in Nat \ {0}
    <3>1. attempt'[p] <= MaxRetries
      BY <1>0, <1>5, <2>1 DEF RecordAttempt, HasRetries
    <3> QED BY <2>4, <3>1, RestsAreLong
  <2>6. Rests(p)'
    BY <2>4, <2>5 DEF Rests
  <2>7. \A q \in Pid \ {p} : Rests(q)' <=> Rests(q)
    BY <1>5 DEF RecordAttempt, Rests
  <2>8. Resting' = Resting \cup {p}
    BY <1>5, <2>1, <2>6, <2>7 DEF RecordAttempt, Resting
  <2>9. RB!Attempt(p)
    BY <1>5, <2>3, <2>8 DEF RecordAttempt, RB!Attempt, Resting
  <2> QED BY <2>9 DEF RB!Next
<1>6. ASSUME NEW p \in Pid, MarkRecovered(p) PROVE [RB!Next]_RB!vars
  <2>1. now' < cooldownUntil'[p] /\ p \in registered
    BY <1>0, <1>6 DEF MarkRecovered, CooldownEnd
  <2>2. \A q \in Pid \ {p} : Rests(q)' <=> Rests(q)
    BY <1>6 DEF MarkRecovered, Rests
  <2>3. Resting' = Resting \cup {p}
    BY <1>6, <2>1, <2>2 DEF MarkRecovered, Rests, Resting
  <2>4. RB!Recover(p)
    BY <1>6, <2>3 DEF MarkRecovered, RB!Recover, Resting
  <2> QED BY <2>4 DEF RB!Next
<1>7. CASE UNCHANGED vars
  BY <1>7 DEF vars, RB!vars, Rests
<1> QED BY <1>1, <1>2, <1>3, <1>4, <1>5, <1>6, <1>7 DEF Next

(* The engine implements the budget, for a limited number of retries and   *)
(* rests that are longer than nothing.                                     *)
THEOREM EngineImplementsRestartBudget ==
  ASSUME MaxRetries \in Nat, NothingWraps, InitialBackoff > 0, MaxBackoff > 0, Cooldown > 0
  PROVE  Spec => ImplementsRestartBudget
BY InitRefines, NextRefines, InvHolds, BudgetRespected, BackedOffHolds, PTL
DEF Spec, RB!Spec, ImplementsRestartBudget
=============================================================================
