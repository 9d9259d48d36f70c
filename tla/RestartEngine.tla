---------------------------- MODULE RestartEngine ----------------------------
(***************************************************************************)
(* crates/monitoring: RestartState and RestartEngine, with the clock they  *)
(* read.  The orchestrator asks pending_restarts for the agents that may be*)
(* restarted, works through the list, and records an attempt for each.     *)
(*                                                                         *)
(* Time is a counter of seconds; a Duration never has a fraction here,     *)
(* because next_backoff rounds to whole seconds.  The product in           *)
(* next_backoff is a u64: it is taken modulo Wrap, as a release build does.*)
(***************************************************************************)
EXTENDS Integers

CONSTANTS Pid,
          InitialBackoff, MaxBackoff, Cooldown,  \* RestartConfig, in seconds
          MaxRetries,  \* RestartConfig.max_retries, Unlimited for None
          Unlimited,
          Hydrated,    \* attempt counts carried over, a function on some pids
          MaxAttempt,  \* bound: the largest attempt count followed
          MaxTime,     \* bound: the last second followed
          Wrap         \* 2^64, or a small stand-in

ASSUME ConfigAssumption ==
  /\ {InitialBackoff, MaxBackoff, Cooldown, MaxAttempt, MaxTime} \subseteq Nat
  /\ Wrap \in Nat \ {0}
  /\ MaxRetries \in Nat \cup {Unlimited} /\ Unlimited \notin Nat
  /\ DOMAIN Hydrated \subseteq Pid
  /\ Hydrated \in [DOMAIN Hydrated -> 0..MaxAttempt]

VARIABLES now,            \* Instant::now()
          registered,     \* keys of the agents map
          attempt,        \* RestartState.attempt
          lastAttempt,    \* RestartState.last_attempt, Never for None
          cooldownUntil,  \* RestartState.cooldown_until, Never for None
          pending         \* what is left of the last list of pending restarts

vars == <<now, registered, attempt, lastAttempt, cooldownUntil, pending>>

Never == -1

TypeOK == /\ now \in 0..MaxTime
          /\ registered \subseteq Pid
          /\ attempt \in [Pid -> 0..MaxAttempt]
          /\ lastAttempt \in [Pid -> Never..MaxTime]
          /\ cooldownUntil \in [Pid -> Never..(MaxTime + Cooldown)]
          /\ pending \subseteq Pid

\* Task 3 registers the recovered entries and replays their attempts.
Init == /\ now = 0
        /\ registered = DOMAIN Hydrated
        /\ attempt = [p \in Pid |-> IF p \in registered THEN Hydrated[p] ELSE 0]
        /\ lastAttempt = [p \in Pid |-> IF attempt[p] > 0 THEN 0 ELSE Never]
        /\ cooldownUntil = [p \in Pid |-> Never]
        /\ pending = {}

-----------------------------------------------------------------------------
\* A function and not an operator, so that it can be unfolded at any n.
Pow2[n \in Nat] == IF n = 0 THEN 1 ELSE 2 * Pow2[n - 1]

AtMost(m, n) == IF m < n THEN m ELSE n

NextBackoff(n) == AtMost((InitialBackoff * Pow2[n]) % Wrap, MaxBackoff)

\* Mutant of HasRetries: one attempt too many.
HasRetriesOrOneMore(p) == MaxRetries # Unlimited => attempt[p] <= MaxRetries

HasRetries(p) == MaxRetries # Unlimited => attempt[p] < MaxRetries

\* Mutant of CooledDown: an agent without attempts need not cool down.
CooledDownIfTried(p) == attempt[p] > 0 => now >= cooldownUntil[p]

CooledDown(p) == cooldownUntil[p] # Never => now >= cooldownUntil[p]

\* Mutant of BackedOff: the backoff does not grow with the attempts.
BackedOffOnce(p) == lastAttempt[p] # Never => now - lastAttempt[p] >= InitialBackoff

BackedOff(p) ==
  lastAttempt[p] # Never => now - lastAttempt[p] >= NextBackoff(attempt[p])

\* The largest product of next_backoff is that of the attempts an agent can
\* be given, or has carried over; it fits Wrap.
NothingWraps ==
  /\ InitialBackoff * Pow2[IF MaxRetries = Unlimited THEN MaxAttempt ELSE MaxRetries] < Wrap
  /\ \A p \in DOMAIN Hydrated : InitialBackoff * Pow2[Hydrated[p]] < Wrap

CanRetry(p) == HasRetries(p) /\ CooledDown(p) /\ BackedOff(p)

-----------------------------------------------------------------------------
Tick == /\ now < MaxTime
        /\ now' = now + 1
        /\ UNCHANGED <<registered, attempt, lastAttempt, cooldownUntil, pending>>

RegisterAgent(p) == /\ registered' = registered \cup {p}
                    /\ UNCHANGED <<now, attempt, lastAttempt, cooldownUntil, pending>>

UnregisterAgent(p) ==
  /\ pending = {}
  /\ p \in registered
  /\ registered' = registered \ {p}
  /\ attempt' = [attempt EXCEPT ![p] = 0]
  /\ lastAttempt' = [lastAttempt EXCEPT ![p] = Never]
  /\ cooldownUntil' = [cooldownUntil EXCEPT ![p] = Never]
  /\ UNCHANGED <<now, pending>>

\* The list is computed once; the time spent on its first agents passes for
\* the others too.
PendingRestarts == /\ pending = {}
                   /\ pending' = {p \in registered : CanRetry(p)}
                   /\ pending' # {}
                   /\ UNCHANGED <<now, registered, attempt, lastAttempt, cooldownUntil>>

\* Mutant of RecordAttempt: the time of the attempt is not recorded.
RecordAttemptUntimed(p) == /\ p \in pending
                           /\ attempt[p] < MaxAttempt
                           /\ attempt' = [attempt EXCEPT ![p] = @ + 1]
                           /\ pending' = pending \ {p}
                           /\ UNCHANGED <<now, registered, lastAttempt, cooldownUntil>>

RecordAttempt(p) == /\ p \in pending
                    /\ attempt[p] < MaxAttempt
                    /\ attempt' = [attempt EXCEPT ![p] = @ + 1]
                    /\ lastAttempt' = [lastAttempt EXCEPT ![p] = now]
                    /\ pending' = pending \ {p}
                    /\ UNCHANGED <<now, registered, cooldownUntil>>

\* Mutant of CooldownEnd: a cooldown that still runs is prolonged.
CooldownEndProlonged(p) ==
  (IF now < cooldownUntil[p] THEN cooldownUntil[p] ELSE now) + Cooldown

CooldownEnd(p) == now + Cooldown

MarkRecovered(p) ==
  /\ pending = {}
  /\ p \in registered
  /\ attempt' = [attempt EXCEPT ![p] = 0]
  /\ cooldownUntil' = [cooldownUntil EXCEPT ![p] = CooldownEnd(p)]
  /\ UNCHANGED <<now, registered, lastAttempt, pending>>

Next == \/ Tick
        \/ PendingRestarts
        \/ \E p \in Pid : \/ RegisterAgent(p) \/ UnregisterAgent(p)
                          \/ RecordAttempt(p) \/ MarkRecovered(p)

Spec == Init /\ [][Next]_vars
-----------------------------------------------------------------------------
(* An agent is given at most MaxRetries attempts between two recoveries:   *)
(* a longer count can only have been carried over from an earlier run.     *)
WithinBudget ==
  \A p \in Pid : attempt[p] <= MaxRetries
                 \/ (p \in DOMAIN Hydrated /\ attempt[p] <= Hydrated[p])

(* Whenever an attempt is recorded, the previous one is at least a whole   *)
(* backoff behind, the backoff that the doc comment of next_backoff gives: *)
(* exponential and capped, never shorter than the initial one.             *)
AttemptsAreSpaced ==
  [][\A p \in Pid :
       attempt'[p] > attempt[p] /\ lastAttempt[p] # Never =>
         now - lastAttempt[p] >= AtMost(InitialBackoff * Pow2[attempt[p]], MaxBackoff)]_vars

(* No attempt falls into the cooldown that follows a recovery.             *)
CooldownIsRespected ==
  [][\A p \in Pid : attempt'[p] > attempt[p] => now >= cooldownUntil[p]]_vars

-----------------------------------------------------------------------------
(* The engine implements the abstract budget: an agent rests while its     *)
(* cooldown or its backoff runs.  An agent in the pending list does not.   *)
Rests(p) == \/ now < cooldownUntil[p]
            \/ lastAttempt[p] # Never /\ now - lastAttempt[p] < NextBackoff(attempt[p])

RB == INSTANCE RestartBudget WITH resting <- {p \in registered : Rests(p)}

ImplementsRestartBudget == RB!Spec
=============================================================================
