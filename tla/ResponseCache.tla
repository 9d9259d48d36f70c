---------------------------- MODULE ResponseCache ----------------------------
(***************************************************************************)
(* The AI proxy: concurrent requests that look their key up in Redis, ask  *)
(* the provider when it is not there and store what it answered.           *)
(*                                                                         *)
(* Abstractions: a key is the hash of method, path, content type and body; *)
(* no two requests that differ in these share one.  Of an answer the       *)
(* status and its age are kept.  Time passes in ticks; the provider's      *)
(* answer is stored at most MaxDelay ticks after it was given.             *)
(***************************************************************************)
EXTENDS Naturals, FiniteSets

CONSTANTS Slot,      \* requests the proxy handles at the same time
          Key,
          Ttl,       \* CACHE_TTL_SECS
          MaxDelay,  \* bound: ticks from an answer to the end of its request
          MaxCount   \* bound of the counters

ASSUME CacheAssumption == {Ttl, MaxDelay, MaxCount} \subseteq Nat /\ IsFiniteSet(Slot)

Absent  == [ok |-> TRUE, age |-> 0, left |-> 0]
Unasked == [ok |-> FALSE, age |-> 0]

VARIABLES store,     \* Redis: the entry of each key and its remaining time
          slot,      \* proxy_handler: where each request is
          hits, misses,
          served     \* the answer that was given last, and from where

cacheVars == <<store, slot, hits, misses, served>>

Steps == {"idle", "lookup", "upstream", "answered", "counting"}
Free  == [step |-> "idle", key |-> "none", cacheable |-> FALSE, answer |-> Unasked]
NotServed == [hit |-> FALSE, cacheable |-> FALSE, answer |-> Unasked]

Answer == [ok : BOOLEAN, age : 0..(Ttl + MaxDelay)]

CacheTypeOK ==
  /\ store \in [Key -> [ok : {TRUE}, age : 0..(Ttl + MaxDelay), left : 0..Ttl]]
  /\ slot \in [Slot -> [step : Steps \ {"idle"}, key : Key, cacheable : BOOLEAN, answer : Answer]
                       \cup {Free}]
  /\ hits \in 0..MaxCount /\ misses \in 0..MaxCount
  /\ served \in [hit : BOOLEAN, cacheable : BOOLEAN, answer : Answer]

CacheInit == /\ store = [k \in Key |-> Absent] /\ slot = [s \in Slot |-> Free]
             /\ hits = 0 /\ misses = 0 /\ served = NotServed

-----------------------------------------------------------------------------
\* A POST that does not ask for an event stream is cacheable.
Receive(s, k, cacheable) ==
  /\ slot[s] = Free
  /\ cacheable => hits + misses + Cardinality({t \in Slot : slot[t].cacheable}) < MaxCount
  /\ slot' = [slot EXCEPT ![s] = [step |-> IF cacheable THEN "lookup" ELSE "upstream",
                                  key |-> k, cacheable |-> cacheable, answer |-> Unasked]]
  /\ UNCHANGED <<store, hits, misses, served>>

Serve(s, hit, answer) ==
  /\ served' = [hit |-> hit, cacheable |-> slot[s].cacheable, answer |-> answer]
  /\ slot' = [slot EXCEPT ![s] = Free]

\* incr fails silently when Redis cannot be reached.
Hit(s) ==
  /\ slot[s].step = "lookup"
  /\ store[slot[s].key].left > 0
  /\ hits' \in {hits, hits + 1}
  /\ Serve(s, TRUE, [ok |-> store[slot[s].key].ok, age |-> store[slot[s].key].age])
  /\ UNCHANGED <<store, misses>>

\* No entry, or Redis cannot be reached.
Miss(s) == /\ slot[s].step = "lookup"
           /\ slot' = [slot EXCEPT ![s].step = "upstream"]
           /\ UNCHANGED <<store, hits, misses, served>>

Answered(s, ok) ==
  /\ slot[s].step = "upstream"
  /\ slot' = [slot EXCEPT ![s].step = "answered", ![s].answer = [ok |-> ok, age |-> 0]]
  /\ UNCHANGED <<store, hits, misses, served>>

\* The provider cannot be reached or its body breaks off: 502.
BadGateway(s) == /\ slot[s].step = "upstream"
                 /\ slot' = [slot EXCEPT ![s] = Free]
                 /\ UNCHANGED <<store, hits, misses, served>>

\* Mutant of Stores: what the provider refused is stored as well.
StoresAny(s) == slot[s].cacheable

Stores(s) == slot[s].cacheable /\ slot[s].answer.ok

\* set_ex, which may fail; the age of the answer is not taken off the time.
Put(s) ==
  /\ slot[s].step = "answered"
  /\ IF Stores(s)
     THEN store' \in {store, [store EXCEPT ![slot[s].key] =
                        [ok |-> slot[s].answer.ok, age |-> slot[s].answer.age, left |-> Ttl]]}
     ELSE UNCHANGED store
  /\ slot' = [slot EXCEPT ![s].step = "counting"]
  /\ UNCHANGED <<hits, misses, served>>

Counted(s) == slot[s].cacheable

CountMiss(s) ==
  /\ slot[s].step = "counting"
  /\ misses' \in {misses} \cup (IF Counted(s) THEN {misses + 1} ELSE {})
  /\ Serve(s, FALSE, slot[s].answer)
  /\ UNCHANGED <<store, hits>>

-----------------------------------------------------------------------------
Older1(a) == [a EXCEPT !.age = @ + 1]

Expire(e) == IF e.left <= 1 THEN Absent ELSE [e EXCEPT !.age = @ + 1, !.left = @ - 1]

Holding == {s \in Slot : slot[s].step \in {"answered", "counting"}}

CacheTick ==
  /\ \A s \in Holding : slot[s].answer.age < MaxDelay
  /\ store' = [k \in Key |-> Expire(store[k])]
  /\ slot' = [s \in Slot |-> IF s \in Holding
                             THEN [slot[s] EXCEPT !.answer = Older1(@)] ELSE slot[s]]
  /\ UNCHANGED <<hits, misses, served>>

CacheNext == \/ \E s \in Slot, k \in Key, cacheable \in BOOLEAN : Receive(s, k, cacheable)
             \/ \E s \in Slot : Hit(s) \/ Miss(s) \/ BadGateway(s) \/ Put(s) \/ CountMiss(s)
             \/ \E s \in Slot, ok \in BOOLEAN : Answered(s, ok)
             \/ CacheTick

CacheSpec == CacheInit /\ [][CacheNext]_cacheVars
-----------------------------------------------------------------------------
(* An answer from the cache is one the provider gave as a success to a     *)
(* cacheable request, at most the time to live and one request's delay     *)
(* ago, although concurrent requests overwrite each other's entries.       *)
HitsAreRecentSuccesses ==
  served.hit => /\ served.cacheable /\ served.answer.ok
                /\ served.answer.age < Ttl + MaxDelay
=============================================================================
