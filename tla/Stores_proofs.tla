--------------------------- MODULE Stores_proofs ----------------------------
(***************************************************************************)
(* Proofs about what concurrent handlers keep in shared stores, rings and  *)
(* lists without a transaction, for any number of requests, keys, entries, *)
(* messages and pids.                                                      *)
(*                                                                         *)
(* The proxy's cache: an entry's age and the time it has left never add up *)
(* to more than one request's delay and the time to live (EntriesAge). The *)
(* enforcement lists: a call that no other call overlapped finds the memory*)
(* as it left it (AloneCallsStand).                                        *)
(*                                                                         *)
(* The alert manager: each channel's ring is the newest part of what was   *)
(* handed to it (RingsAreNewest). The kernel's events: a scan reports all  *)
(* the processes there are (ListingsAreComplete), and an identity's        *)
(* ancestors come before it in the list, so that its depth is less than its*)
(* index (IdentitiesSound).                                                *)
(***************************************************************************)
EXTENDS ResponseCache, ListSync, AlertManager, KernelStream, FiniteSetTheorems,
        SequenceTheorems, TLAPS

-----------------------------------------------------------------------------
(* The response cache.                                                     *)

CacheEntry == [ok : {TRUE}, age : 0..(Ttl + MaxDelay), left : 0..Ttl]
Asked == [step : Steps \ {"idle"}, key : Key, cacheable : BOOLEAN, answer : Answer]

StoreTyped == store \in [Key -> CacheEntry] /\ slot \in [Slot -> Asked \cup {Free}]

EntriesAge == \A k \in Key : store[k].age + store[k].left <= Ttl + MaxDelay

AnswersAreFresh == \A s \in Slot : slot[s] # Free => slot[s].answer.age <= MaxDelay

LookupsAreCacheable == \A s \in Slot : slot[s].step = "lookup" => slot[s].cacheable

CacheInv == /\ StoreTyped /\ EntriesAge /\ AnswersAreFresh /\ LookupsAreCacheable
            /\ HitsAreRecentSuccesses

LEMMA CacheBounds == Ttl \in Nat /\ MaxDelay \in Nat
BY CacheAssumption

LEMMA EntryFields ==
  ASSUME NEW e \in CacheEntry
  PROVE  e.age \in Nat /\ e.left \in Nat /\ e.left <= Ttl /\ e.ok \in {TRUE}
<1>1. e.age \in 0..(Ttl + MaxDelay) /\ e.left \in 0..Ttl
  BY Zenon DEF CacheEntry
<1>2. e.ok \in {TRUE}
  BY Zenon DEF CacheEntry
<1>3. e.age \in Nat /\ e.left \in Nat /\ e.left <= Ttl
  BY <1>1, CacheBounds
<1> QED BY <1>2, <1>3

LEMMA CacheInitInv == CacheInit => CacheInv
<1> SUFFICES ASSUME CacheInit PROVE CacheInv
  OBVIOUS
<1> USE CacheAssumption
<1>1. Absent \in CacheEntry /\ Absent.age + Absent.left <= Ttl + MaxDelay
  BY DEF Absent, CacheEntry
<1>2. StoreTyped /\ EntriesAge
  BY <1>1 DEF CacheInit, StoreTyped, EntriesAge
<1>3. AnswersAreFresh /\ LookupsAreCacheable /\ HitsAreRecentSuccesses
  BY DEF CacheInit, AnswersAreFresh, LookupsAreCacheable, HitsAreRecentSuccesses, Free,
         NotServed
<1> QED BY <1>2, <1>3 DEF CacheInv

(* A step that changes one request keeps what holds of each of them.       *)
LEMMA SlotStep ==
  ASSUME CacheInv, NEW s \in Slot, NEW r \in Asked \cup {Free},
         slot' = [slot EXCEPT ![s] = r],
         r # Free => r.answer.age <= MaxDelay,
         r.step = "lookup" => r.cacheable
  PROVE  /\ slot' \in [Slot -> Asked \cup {Free}]
         /\ AnswersAreFresh' /\ LookupsAreCacheable'
BY DEF CacheInv, StoreTyped, AnswersAreFresh, LookupsAreCacheable

LEMMA FreeSlot ==
  ASSUME CacheInv, NEW s \in Slot, slot' = [slot EXCEPT ![s] = Free]
  PROVE  /\ slot' \in [Slot -> Asked \cup {Free}]
         /\ AnswersAreFresh' /\ LookupsAreCacheable'
<1>1. Free.step # "lookup"
  BY DEF Free
<1> QED BY <1>1, SlotStep

(* A tick moves time from what an entry has left to its age.               *)
LEMMA ExpiredEntry ==
  ASSUME NEW e \in CacheEntry, e.age + e.left <= Ttl + MaxDelay
  PROVE  /\ Expire(e) \in CacheEntry
         /\ Expire(e).age + Expire(e).left <= Ttl + MaxDelay
<1> USE CacheBounds
<1>1. e.age \in Nat /\ e.left \in Nat /\ e.left <= Ttl /\ e.ok \in {TRUE}
  BY EntryFields
<1>2. CASE e.left <= 1
  BY <1>2 DEF Expire, Absent, CacheEntry
<1>3. CASE e.left > 1
  <2> DEFINE r == [e EXCEPT !.age = e.age + 1, !.left = e.left - 1]
  <2>1. Expire(e) = r
    BY <1>3, <1>1 DEF Expire
  <2>2. r.age = e.age + 1 /\ r.left = e.left - 1
    BY <1>1 DEF CacheEntry
  <2>3. e.age + 1 \in 0..(Ttl + MaxDelay) /\ e.left - 1 \in 0..Ttl
    BY <1>1, <1>3
  <2>4. r \in CacheEntry
    BY <2>3 DEF CacheEntry
  <2> HIDE DEF r
  <2> QED BY <1>1, <2>1, <2>2, <2>4
<1> QED BY <1>1, <1>2, <1>3

LEMMA CacheNextInv == CacheInv /\ [CacheNext]_cacheVars => CacheInv'
<1> SUFFICES ASSUME CacheInv, [CacheNext]_cacheVars PROVE CacheInv'
  OBVIOUS
<1> USE CacheBounds
<1>1. /\ store \in [Key -> CacheEntry] /\ slot \in [Slot -> Asked \cup {Free}]
      /\ HitsAreRecentSuccesses
  BY DEF CacheInv, StoreTyped
<1>2. ASSUME store' = store, served' = served,
             slot' \in [Slot -> Asked \cup {Free}], AnswersAreFresh', LookupsAreCacheable'
      PROVE  CacheInv'
  BY <1>2 DEF CacheInv, StoreTyped, EntriesAge, HitsAreRecentSuccesses
<1>3. \A s \in Slot : slot[s].step # "idle" => slot[s] \in Asked /\ slot[s] # Free
  BY <1>1 DEF Free
<1>4. ASSUME NEW s \in Slot, NEW k \in Key, NEW cacheable \in BOOLEAN,
             Receive(s, k, cacheable)
      PROVE  CacheInv'
  <2> DEFINE step == IF cacheable THEN "lookup" ELSE "upstream"
             r    == [step |-> step, key |-> k, cacheable |-> cacheable, answer |-> Unasked]
  <2>1. Unasked \in Answer /\ Unasked.age <= MaxDelay
    BY DEF Unasked, Answer
  <2>2. step \in Steps \ {"idle"} /\ (step = "lookup" => cacheable)
    BY DEF Steps
  <2> HIDE DEF step
  <2>3. r \in Asked /\ r.answer.age <= MaxDelay /\ (r.step = "lookup" => r.cacheable)
    BY <2>1, <2>2 DEF Asked
  <2>4. slot' = [slot EXCEPT ![s] = r] /\ UNCHANGED <<store, served>>
    BY <1>4 DEF Receive, step
  <2> HIDE DEF r
  <2>5. /\ slot' \in [Slot -> Asked \cup {Free}]
        /\ AnswersAreFresh' /\ LookupsAreCacheable'
    BY <2>3, <2>4, SlotStep
  <2> QED BY <1>2, <2>4, <2>5
<1>5. ASSUME NEW s \in Slot, Hit(s) PROVE CacheInv'
  <2> DEFINE e == store[slot[s].key]
  <2>1. /\ slot[s].step = "lookup" /\ e.left > 0 /\ store' = store
        /\ served' = [hit |-> TRUE, cacheable |-> slot[s].cacheable,
                      answer |-> [ok |-> e.ok, age |-> e.age]]
        /\ slot' = [slot EXCEPT ![s] = Free]
    BY <1>5 DEF Hit, Serve
  <2>2. slot[s].key \in Key /\ e \in CacheEntry
    BY <1>1, <1>3, <2>1 DEF Asked
  <2>3. slot[s].cacheable
    BY <2>1 DEF CacheInv, LookupsAreCacheable
  <2>4. e.age + e.left <= Ttl + MaxDelay
    BY <2>2 DEF CacheInv, EntriesAge
  <2>5. e.age < Ttl + MaxDelay
    <3>1. e.left > 0
      BY <2>1
    <3>2. e.age \in Nat /\ e.left \in Nat
      <4> HIDE DEF e
      <4> QED BY <2>2, EntryFields
    <3> HIDE DEF e
    <3> QED BY <2>4, <3>1, <3>2
  <2>6. e.ok
    BY <2>2 DEF CacheEntry
  <2>9. HitsAreRecentSuccesses'
    <3>1. /\ served'.cacheable = slot[s].cacheable
          /\ served'.answer.ok = e.ok /\ served'.answer.age = e.age
      BY <2>1
    <3> HIDE DEF e
    <3> QED BY <2>3, <2>5, <2>6, <3>1 DEF HitsAreRecentSuccesses
  <2>7. /\ slot' \in [Slot -> Asked \cup {Free}]
        /\ AnswersAreFresh' /\ LookupsAreCacheable'
    BY <2>1, FreeSlot
  <2> QED BY <1>1, <2>1, <2>7, <2>9 DEF CacheInv, StoreTyped, EntriesAge
<1>6. ASSUME NEW s \in Slot, Miss(s) PROVE CacheInv'
  <2>1. slot' = [slot EXCEPT ![s] = [slot[s] EXCEPT !.step = "upstream"]]
        /\ slot[s].step = "lookup" /\ UNCHANGED <<store, served>>
    BY <1>6 DEF Miss
  <2>2. slot[s] \in Asked /\ slot[s] # Free
    BY <1>3, <2>1
  <2>3. /\ [slot[s] EXCEPT !.step = "upstream"] \in Asked
        /\ [slot[s] EXCEPT !.step = "upstream"].answer = slot[s].answer
        /\ [slot[s] EXCEPT !.step = "upstream"].step = "upstream"
    BY <2>2 DEF Asked, Steps
  <2>4. slot[s].answer.age <= MaxDelay
    BY <2>2 DEF CacheInv, AnswersAreFresh
  <2>5. /\ slot' \in [Slot -> Asked \cup {Free}]
        /\ AnswersAreFresh' /\ LookupsAreCacheable'
    BY <2>1, <2>3, <2>4, SlotStep
  <2> QED BY <1>2, <2>1, <2>5
<1>7. ASSUME NEW s \in Slot, NEW ok \in BOOLEAN, Answered(s, ok) PROVE CacheInv'
  <2> DEFINE a == [ok |-> ok, age |-> 0]
             r == [slot[s] EXCEPT !.step = "answered", !.answer = a]
  <2>1. slot[s].step = "upstream" /\ slot' = [slot EXCEPT ![s] = r]
        /\ UNCHANGED <<store, served>>
    BY <1>7 DEF Answered
  <2>2. slot[s] \in Asked
    BY <1>3, <2>1
  <2>3. a \in Answer /\ a.age <= MaxDelay
    BY DEF Answer
  <2> HIDE DEF a
  <2>4. r \in Asked /\ r.answer = a /\ r.step = "answered"
    BY <2>2, <2>3 DEF Asked, Steps
  <2> HIDE DEF r
  <2>5. /\ slot' \in [Slot -> Asked \cup {Free}]
        /\ AnswersAreFresh' /\ LookupsAreCacheable'
    BY <2>1, <2>3, <2>4, SlotStep
  <2> QED BY <1>2, <2>1, <2>5
<1>8. ASSUME NEW s \in Slot, BadGateway(s) PROVE CacheInv'
  <2>1. slot' = [slot EXCEPT ![s] = Free] /\ UNCHANGED <<store, served>>
    BY <1>8 DEF BadGateway
  <2> QED BY <1>2, <2>1, FreeSlot
<1>9. ASSUME NEW s \in Slot, Put(s) PROVE CacheInv'
  <2> DEFINE k == slot[s].key
             r == [slot[s] EXCEPT !.step = "counting"]
             e == [ok |-> slot[s].answer.ok, age |-> slot[s].answer.age, left |-> Ttl]
  <2>1. /\ slot[s].step = "answered" /\ slot' = [slot EXCEPT ![s] = r] /\ served' = served
        /\ store' = store \/ (Stores(s) /\ store' = [store EXCEPT ![k] = e])
    BY <1>9 DEF Put
  <2>2. slot[s] \in Asked /\ slot[s] # Free
    BY <1>3, <2>1
  <2>3. slot[s].answer \in Answer /\ slot[s].answer.age <= MaxDelay /\ k \in Key
    BY <2>2 DEF Asked, CacheInv, AnswersAreFresh
  <2>4. r \in Asked /\ r.answer = slot[s].answer /\ r.step = "counting"
    BY <2>2 DEF Asked, Steps
  <2>5. Stores(s) => e \in CacheEntry /\ e.age + e.left <= Ttl + MaxDelay
    BY <2>3 DEF Stores, CacheEntry, Answer
  <2> HIDE DEF r, e
  <2>6. /\ slot' \in [Slot -> Asked \cup {Free}]
        /\ AnswersAreFresh' /\ LookupsAreCacheable'
    BY <2>1, <2>3, <2>4, SlotStep
  <2>7. store' \in [Key -> CacheEntry] /\ EntriesAge'
    BY <1>1, <2>1, <2>3, <2>5 DEF CacheInv, EntriesAge
  <2> QED BY <1>1, <2>1, <2>6, <2>7 DEF CacheInv, StoreTyped, HitsAreRecentSuccesses
<1>10. ASSUME NEW s \in Slot, CountMiss(s) PROVE CacheInv'
  <2>1. slot' = [slot EXCEPT ![s] = Free] /\ store' = store /\ served'.hit = FALSE
    BY <1>10 DEF CountMiss, Serve
  <2>2. /\ slot' \in [Slot -> Asked \cup {Free}]
        /\ AnswersAreFresh' /\ LookupsAreCacheable'
    BY <2>1, FreeSlot
  <2> QED BY <1>1, <2>1, <2>2 DEF CacheInv, StoreTyped, EntriesAge, HitsAreRecentSuccesses
<1>11. CASE CacheTick
  <2>1. ASSUME NEW k \in Key
        PROVE  /\ Expire(store[k]) \in CacheEntry
               /\ Expire(store[k]).age + Expire(store[k]).left <= Ttl + MaxDelay
    <3>1. store[k] \in CacheEntry /\ store[k].age + store[k].left <= Ttl + MaxDelay
      BY <1>1 DEF CacheInv, EntriesAge
    <3> QED BY <3>1, ExpiredEntry
  <2>2. store' \in [Key -> CacheEntry] /\ EntriesAge'
    BY <2>1, <1>11 DEF CacheTick, EntriesAge
  <2>3. ASSUME NEW s \in Slot
        PROVE  /\ slot'[s] \in Asked \cup {Free}
               /\ slot'[s] # Free => slot'[s].answer.age <= MaxDelay
               /\ slot'[s].step = "lookup" => slot'[s].cacheable
    <3>1. CASE s \in Holding
      <4>1. slot[s].answer.age < MaxDelay /\ slot'[s] = [slot[s] EXCEPT !.answer = Older1(slot[s].answer)]
        BY <1>11, <3>1 DEF CacheTick
      <4>2. slot[s] \in Asked /\ slot[s].step \in {"answered", "counting"}
        BY <1>3, <3>1 DEF Holding
      <4>3. slot[s].answer \in Answer
        BY <4>2 DEF Asked
      <4>4. Older1(slot[s].answer) \in Answer /\ Older1(slot[s].answer).age <= MaxDelay
        BY <4>1, <4>3 DEF Older1, Answer
      <4> QED BY <4>1, <4>2, <4>4 DEF Asked
    <3>2. CASE s \notin Holding
      BY <1>1, <1>11, <3>2 DEF CacheTick, CacheInv, AnswersAreFresh, LookupsAreCacheable
    <3> QED BY <3>1, <3>2
  <2>4. slot' \in [Slot -> Asked \cup {Free}]
    BY <2>3, <1>11 DEF CacheTick
  <2>5. AnswersAreFresh' /\ LookupsAreCacheable'
    BY <2>3 DEF AnswersAreFresh, LookupsAreCacheable
  <2> QED BY <1>1, <1>11, <2>2, <2>4, <2>5
          DEF CacheTick, CacheInv, StoreTyped, HitsAreRecentSuccesses
<1>12. CASE UNCHANGED cacheVars
  BY <1>1, <1>2, <1>12 DEF cacheVars, CacheInv, AnswersAreFresh, LookupsAreCacheable
<1> QED BY <1>4, <1>5, <1>6, <1>7, <1>8, <1>9, <1>10, <1>11, <1>12 DEF CacheNext

(* A hit is counted once and a miss once, and both by a request that leaves *)
(* its slot: what is counted and what may still be counted stay in bounds. *)
MayCount == {t \in Slot : slot[t].cacheable}

CountsFit == /\ hits \in Nat /\ misses \in Nat
             /\ hits + misses + Cardinality(MayCount) <= MaxCount

ServedTyped == served \in [hit : BOOLEAN, cacheable : BOOLEAN, answer : Answer]

LEMMA MayCountIsFinite == IsFiniteSet(MayCount) /\ Cardinality(MayCount) \in Nat
<1>1. MayCount \subseteq Slot /\ IsFiniteSet(Slot)
  BY CacheAssumption DEF MayCount
<1> QED BY <1>1, FS_Subset, FS_CardinalityType

LEMMA FreedCount ==
  ASSUME CacheInv, NEW s \in Slot, slot' = [slot EXCEPT ![s] = Free]
  PROVE  Cardinality(MayCount') = Cardinality(MayCount) - (IF slot[s].cacheable THEN 1 ELSE 0)
<1>1. \A t \in Slot : slot'[t] = IF t = s THEN Free ELSE slot[t]
  BY DEF CacheInv, StoreTyped
<1>2. Free.cacheable = FALSE
  BY DEF Free
<1>3. MayCount' = MayCount \ {s}
  BY <1>1, <1>2 DEF MayCount
<1>4. slot[s].cacheable <=> s \in MayCount
  BY DEF MayCount
<1>5. CASE s \in MayCount
  BY <1>3, <1>4, <1>5, MayCountIsFinite, FS_RemoveElement
<1>6. CASE s \notin MayCount
  <2>1. MayCount' = MayCount
    BY <1>3, <1>6
  <2> QED BY <1>4, <1>6, <2>1, MayCountIsFinite
<1> QED BY <1>5, <1>6

LEMMA SameCount ==
  ASSUME CountsFit, UNCHANGED <<hits, misses>>,
         \A t \in Slot : slot'[t].cacheable <=> slot[t].cacheable
  PROVE  CountsFit'
<1>1. MayCount' = MayCount
  BY DEF MayCount
<1> QED BY <1>1 DEF CountsFit

LEMMA CacheCountStep == CacheInv /\ CountsFit /\ [CacheNext]_cacheVars => CountsFit'
<1> SUFFICES ASSUME CacheInv, CountsFit, [CacheNext]_cacheVars PROVE CountsFit'
  OBVIOUS
<1> USE CacheAssumption
<1>1. slot \in [Slot -> Asked \cup {Free}]
  BY DEF CacheInv, StoreTyped
<1>2. /\ hits \in Nat /\ misses \in Nat /\ MaxCount \in Nat /\ Cardinality(MayCount) \in Nat
      /\ hits + misses + Cardinality(MayCount) <= MaxCount
  BY MayCountIsFinite DEF CountsFit
<1>3. \A s \in Slot : slot[s].step # "idle" => slot[s] \in Asked
  BY <1>1 DEF Free
<1>4. ASSUME NEW s \in Slot, NEW k \in Key, NEW cacheable \in BOOLEAN,
             Receive(s, k, cacheable)
      PROVE  CountsFit'
  <2>1. /\ \A t \in Slot \ {s} : slot'[t] = slot[t]
        /\ slot'[s].cacheable = cacheable /\ ~slot[s].cacheable
        /\ UNCHANGED <<hits, misses>>
    BY <1>1, <1>4 DEF Receive, Free
  <2>2. CASE cacheable
    <3>1. MayCount' = MayCount \cup {s} /\ s \notin MayCount
      BY <2>1, <2>2 DEF MayCount
    <3>2. Cardinality(MayCount') = Cardinality(MayCount) + 1
      BY <3>1, MayCountIsFinite, FS_AddElement
    <3>3. hits + misses + Cardinality(MayCount) < MaxCount
      BY <1>4, <2>2 DEF Receive, MayCount
    <3> QED BY <1>2, <2>1, <3>2, <3>3 DEF CountsFit
  <2>3. CASE ~cacheable
    BY <2>1, <2>3, SameCount
  <2> QED BY <2>2, <2>3
<1>5. ASSUME NEW s \in Slot, slot' = [slot EXCEPT ![s] = Free], slot[s].cacheable \in BOOLEAN,
             \/ UNCHANGED <<hits, misses>>
             \/ slot[s].cacheable /\ hits' = hits + 1 /\ misses' = misses
             \/ slot[s].cacheable /\ misses' = misses + 1 /\ hits' = hits
      PROVE  CountsFit'
  <2>1. Cardinality(MayCount') = Cardinality(MayCount) - (IF slot[s].cacheable THEN 1 ELSE 0)
    BY <1>5, FreedCount
  <2>2. CASE UNCHANGED <<hits, misses>>
    BY <1>2, <2>1, <2>2 DEF CountsFit
  <2>3. CASE slot[s].cacheable /\ hits' = hits + 1 /\ misses' = misses
    BY <1>2, <2>1, <2>3 DEF CountsFit
  <2>4. CASE slot[s].cacheable /\ misses' = misses + 1 /\ hits' = hits
    BY <1>2, <2>1, <2>4 DEF CountsFit
  <2> QED BY <1>5, <2>2, <2>3, <2>4
<1>6. ASSUME NEW s \in Slot, Hit(s) PROVE CountsFit'
  <2>1. slot[s] \in Asked
    BY <1>3, <1>6 DEF Hit
  <2>2. slot[s].cacheable \in BOOLEAN /\ slot[s].cacheable
    BY <1>6, <2>1 DEF Hit, CacheInv, LookupsAreCacheable, Asked
  <2> QED BY <1>5, <1>6, <2>2 DEF Hit, Serve
<1>7. ASSUME NEW s \in Slot, CountMiss(s) PROVE CountsFit'
  <2>1. slot[s] \in Asked
    BY <1>3, <1>7 DEF CountMiss
  <2>2. slot[s].cacheable \in BOOLEAN
    BY <2>1 DEF Asked
  <2> QED BY <1>5, <1>7, <2>2 DEF CountMiss, Serve, Counted
<1>8. ASSUME NEW s \in Slot, BadGateway(s) PROVE CountsFit'
  <2>1. slot[s] \in Asked
    BY <1>3, <1>8 DEF BadGateway
  <2>2. slot[s].cacheable \in BOOLEAN
    BY <2>1 DEF Asked
  <2> QED BY <1>5, <1>8, <2>2 DEF BadGateway
<1>9. ASSUME NEW s \in Slot, Miss(s) \/ Put(s) \/ \E ok \in BOOLEAN : Answered(s, ok)
      PROVE  CountsFit'
  <2>1. slot[s] \in Asked /\ UNCHANGED <<hits, misses>>
    BY <1>3, <1>9 DEF Miss, Put, Answered
  <2>2. slot'[s].cacheable = slot[s].cacheable /\ \A t \in Slot \ {s} : slot'[t] = slot[t]
    BY <1>1, <1>9, <2>1 DEF Miss, Put, Answered, Asked
  <2> QED BY <2>1, <2>2, SameCount
<1>10. CASE CacheTick
  <2>1. \A t \in Holding : slot[t] \in Asked
    BY <1>3 DEF Holding
  <2>2. \A t \in Slot : slot'[t].cacheable = slot[t].cacheable
    BY <1>10, <2>1 DEF CacheTick, Asked
  <2> QED BY <1>10, <2>2, SameCount DEF CacheTick
<1>11. CASE UNCHANGED cacheVars
  BY <1>11, SameCount DEF cacheVars
<1> QED BY <1>4, <1>6, <1>7, <1>8, <1>9, <1>10, <1>11 DEF CacheNext

LEMMA ServedStep == CacheInv /\ ServedTyped /\ [CacheNext]_cacheVars => ServedTyped'
<1> SUFFICES ASSUME CacheInv, ServedTyped, [CacheNext]_cacheVars PROVE ServedTyped'
  OBVIOUS
<1> USE CacheBounds
<1>1. store \in [Key -> CacheEntry] /\ slot \in [Slot -> Asked \cup {Free}]
  BY DEF CacheInv, StoreTyped
<1>2. \A s \in Slot : slot[s].step # "idle" => slot[s] \in Asked
  BY <1>1 DEF Free
<1>3. ASSUME NEW s \in Slot, Hit(s) PROVE ServedTyped'
  <2>1. slot[s] \in Asked
    BY <1>2, <1>3 DEF Hit
  <2>2. slot[s].key \in Key /\ slot[s].cacheable \in BOOLEAN
    BY <2>1 DEF Asked
  <2>3. store[slot[s].key] \in CacheEntry
    BY <1>1, <2>2
  <2>4. [ok |-> store[slot[s].key].ok, age |-> store[slot[s].key].age] \in Answer
    BY <2>3 DEF CacheEntry, Answer
  <2> QED BY <1>3, <2>2, <2>4 DEF Hit, Serve, ServedTyped
<1>4. ASSUME NEW s \in Slot, CountMiss(s) PROVE ServedTyped'
  <2>1. slot[s] \in Asked
    BY <1>2, <1>4 DEF CountMiss
  <2> QED BY <1>4, <2>1 DEF CountMiss, Serve, ServedTyped, Asked
<1>5. CASE UNCHANGED served
  BY <1>5 DEF ServedTyped
<1> QED BY <1>3, <1>4, <1>5
        DEF CacheNext, cacheVars, Receive, Miss, BadGateway, Put, Answered, CacheTick

CacheStateInv == CacheInv /\ CountsFit /\ ServedTyped

LEMMA CacheStateInit == CacheInit => CacheStateInv
<1> SUFFICES ASSUME CacheInit PROVE CountsFit /\ ServedTyped
  BY CacheInitInv DEF CacheStateInv
<1>1. MayCount = {}
  BY DEF CacheInit, MayCount, Free
<1>2. CountsFit
  BY <1>1, CacheAssumption, FS_EmptySet DEF CacheInit, CountsFit
<1>3. ServedTyped
  BY CacheBounds DEF CacheInit, ServedTyped, NotServed, Unasked, Answer
<1> QED BY <1>2, <1>3

LEMMA CacheStateNext == CacheStateInv /\ [CacheNext]_cacheVars => CacheStateInv'
BY CacheNextInv, CacheCountStep, ServedStep DEF CacheStateInv

LEMMA CacheStateIsTyped == CacheStateInv => CacheTypeOK
<1> SUFFICES ASSUME CacheStateInv PROVE CacheTypeOK
  OBVIOUS
<1>1. hits \in 0..MaxCount /\ misses \in 0..MaxCount
  BY MayCountIsFinite, CacheAssumption DEF CacheStateInv, CountsFit
<1> QED BY <1>1 DEF CacheStateInv, CacheInv, StoreTyped, ServedTyped, CacheTypeOK, CacheEntry,
                    Asked

(* The cache's state is well typed for any finite number of slots; no      *)
(* request is counted twice (MaxCount is the bound of the model).          *)
THEOREM CacheTypes == CacheSpec => []CacheTypeOK
BY CacheStateInit, CacheStateNext, CacheStateIsTyped, PTL DEF CacheSpec

(* Whatever requests overwrite each other's entries, a hit is an answer    *)
(* the provider gave as a success, and not older than the time to live and *)
(* the delay of one request.                                               *)
THEOREM HitsAreRecent == CacheSpec => []HitsAreRecentSuccesses
<1>1. CacheInv => HitsAreRecentSuccesses
  BY DEF CacheInv
<1> QED BY <1>1, CacheInitInv, CacheNextInv, PTL DEF CacheSpec

-----------------------------------------------------------------------------
(* The enforcement lists.                                                  *)

RunningCall == [op : {"add", "remove", "sync"}, list : List, targets : SUBSET Target,
            alone : BOOLEAN]

AloneCallsStand ==
  \A c \in Call, t \in Target :
    (call[c].list = "block" /\ call[c].alone /\ t \in call[c].targets) =>
       /\ call[c].op = "add" => t \in memory["block"]
       /\ call[c].op = "remove" => t \notin memory["block"]

ListInv == ListTypeOK /\ AloneCallsStand /\ ListsFollowTheCalls

LEMMA ListInitInv == ListInit => ListInv
<1> SUFFICES ASSUME ListInit PROVE ListInv
  OBVIOUS
<1>1. ListTypeOK
  BY ListAssumption DEF ListInit, ListTypeOK, Known3
<1>2. AloneCallsStand
  BY DEF ListInit, AloneCallsStand, Ended
<1>3. ListsFollowTheCalls
  BY DEF ListInit, ListsFollowTheCalls, Entry, List
<1> QED BY <1>1, <1>2, <1>3 DEF ListInv

(* A call that begins: the other calls stay as they are, except that those *)
(* it overlaps are no longer alone, and it is typed.                       *)
LEMMA Begun ==
  ASSUME ListInv, NEW c \in Call, NEW op \in {"add", "remove", "sync"}, NEW l \in List,
         NEW targets \in SUBSET Target, Begin(c, op, l, targets)
  PROVE  /\ call' \in [Call -> RunningCall \cup {Ended}]
         /\ call'[c].op = op /\ call'[c].list = l /\ call'[c].targets = targets
         /\ \A b \in Call \ {c} :
              /\ call'[b].op = call[b].op /\ call'[b].list = call[b].list
              /\ call'[b].targets = call[b].targets
              /\ call'[b].alone => call[b].alone /\ ~Overlaps(b, l, targets)
<1> DEFINE free == \A a \in Call : ~Overlaps(a, l, targets)
           new  == [op |-> op, list |-> l, targets |-> targets, alone |-> free]
           left(b) == call[b].alone /\ ~Overlaps(b, l, targets)
<1>1. call' = [b \in Call |-> IF b = c THEN new ELSE [call[b] EXCEPT !.alone = left(b)]]
  BY DEF Begin
<1>2. call \in [Call -> RunningCall \cup {Ended}]
  BY DEF ListInv, ListTypeOK, RunningCall
<1>3. free \in BOOLEAN
  OBVIOUS
<1>4. ASSUME NEW b \in Call
      PROVE  /\ left(b) \in BOOLEAN /\ (left(b) => call[b].alone /\ ~Overlaps(b, l, targets))
             /\ call[b] = Ended => left(b) = TRUE
  <2>1. call[b] = Ended => ~Overlaps(b, l, targets)
    BY DEF Overlaps, Ended
  <2>2. call[b] = Ended => call[b].alone
    BY DEF Ended
  <2> QED BY <2>1, <2>2
<1> HIDE DEF free, left
<1>5. new \in RunningCall
  BY <1>3 DEF RunningCall
<1> DEFINE r(b) == [call[b] EXCEPT !.alone = left(b)]
<1>6. ASSUME NEW b \in Call
      PROVE  /\ r(b) \in RunningCall \cup {Ended}
             /\ r(b).op = call[b].op /\ r(b).list = call[b].list
             /\ r(b).targets = call[b].targets /\ r(b).alone = left(b)
  <2>1. CASE call[b] \in RunningCall
    BY <1>4, <2>1 DEF RunningCall
  <2>2. CASE call[b] = Ended
    BY <1>4, <2>2 DEF Ended
  <2> QED BY <1>2, <2>1, <2>2
<1>7. call' = [b \in Call |-> IF b = c THEN new ELSE r(b)]
  BY <1>1
<1> HIDE DEF r
<1>8. call' \in [Call -> RunningCall \cup {Ended}]
  BY <1>5, <1>6, <1>7
<1>9. call'[c].op = op /\ call'[c].list = l /\ call'[c].targets = targets
  BY <1>7
<1>10. \A b \in Call \ {c} : call'[b] = r(b)
  BY <1>7
<1> QED BY <1>4, <1>6, <1>8, <1>9, <1>10

(* Beginning an addition or a removal on the block list, or any call that  *)
(* leaves the block list's memory alone.                                   *)
LEMMA BeginKeepsInv ==
  ASSUME ListInv, NEW c \in Call, NEW op \in {"add", "remove", "sync"}, NEW l \in List,
         NEW targets \in SUBSET Target, Begin(c, op, l, targets),
         memory' \in [List -> SUBSET Target], shown' \in [Target -> Known3],
         \A t \in Target : l # "block" \/ t \notin targets =>
            (t \in memory'["block"] <=> t \in memory["block"]),
         l = "block" => \A t \in targets : /\ op = "add" => t \in memory'["block"]
                                           /\ op = "remove" => t \notin memory'["block"],
         \A t \in Target : shown'[t] # "none" =>
            /\ shown'[t] = shown[t]
            /\ t \in memory'["block"] <=> t \in memory["block"]
  PROVE  ListInv'
<1>1. /\ call' \in [Call -> RunningCall \cup {Ended}]
      /\ call'[c].op = op /\ call'[c].list = l /\ call'[c].targets = targets
      /\ \A b \in Call \ {c} :
           /\ call'[b].op = call[b].op /\ call'[b].list = call[b].list
           /\ call'[b].targets = call[b].targets
           /\ call'[b].alone => call[b].alone /\ ~Overlaps(b, l, targets)
  BY Begun
<1>2. UNCHANGED <<db, stored>>
  BY DEF Begin
<1>3. ListTypeOK'
  BY <1>1, <1>2 DEF ListInv, ListTypeOK, RunningCall
<1>4. AloneCallsStand'
  <2> SUFFICES ASSUME NEW b \in Call, NEW t \in Target,
                      call'[b].list = "block", call'[b].alone, t \in call'[b].targets
               PROVE  /\ call'[b].op = "add" => t \in memory'["block"]
                      /\ call'[b].op = "remove" => t \notin memory'["block"]
    BY DEF AloneCallsStand
  <2>1. CASE b = c
    BY <1>1, <2>1
  <2>2. CASE b # c
    <3>1. /\ call[b].list = "block" /\ call[b].alone /\ t \in call[b].targets
          /\ ~Overlaps(b, l, targets) /\ call'[b].op = call[b].op
      BY <1>1, <2>2
    <3>2. l # "block" \/ t \notin targets
      BY <3>1 DEF Overlaps
    <3> QED BY <3>1, <3>2 DEF ListInv, AloneCallsStand
  <2> QED BY <2>1, <2>2
<1>5. ListsFollowTheCalls'
  BY <1>2 DEF ListInv, ListsFollowTheCalls
<1> QED BY <1>3, <1>4, <1>5 DEF ListInv

LEMMA WriteKeepsInv ==
  ASSUME ListInv, NEW c \in Call, NEW t \in Target, Write(c, t)
  PROVE  ListInv'
<1> DEFINE l == call[c].list
           op == call[c].op
           how == IF ~call[c].alone THEN "none" ELSE IF op = "remove" THEN "out" ELSE "in"
<1>1. /\ call \in [Call -> RunningCall \cup {Ended}]
      /\ db \in [List -> SUBSET Target] /\ stored \in [Entry -> Known3]
      /\ shown \in [Target -> Known3] /\ memory \in [List -> SUBSET Target]
  BY DEF ListInv, ListTypeOK, RunningCall
<1>2. /\ t \in call[c].targets /\ memory' = memory
      /\ db' = [db EXCEPT ![l] = Rows(op, db[l], t)]
      /\ stored' = [stored EXCEPT ![<<l, t>>] = how]
      /\ shown' = IF l = "block" /\ op # "sync" THEN [shown EXCEPT ![t] = how] ELSE shown
      /\ call' = [call EXCEPT ![c] = IF call[c].targets = {t} THEN Ended
                                     ELSE [call[c] EXCEPT !.targets = call[c].targets \ {t}]]
  <2>1. t \in call[c].targets /\ memory' = memory
    BY DEF Write
  <2>2. db' = [db EXCEPT ![l] = Rows(op, db[l], t)]
    BY DEF Write
  <2>3. stored' = [stored EXCEPT ![<<l, t>>] = how]
    BY DEF Write
  <2>4. shown' = IF l = "block" /\ op # "sync" THEN [shown EXCEPT ![t] = how] ELSE shown
    BY DEF Write
  <2>5. call' = [call EXCEPT ![c] = IF call[c].targets = {t} THEN Ended
                                    ELSE [call[c] EXCEPT !.targets = call[c].targets \ {t}]]
    BY DEF Write
  <2> QED BY <2>1, <2>2, <2>3, <2>4, <2>5
<1>3. call[c] \in RunningCall
  BY <1>1, <1>2 DEF Ended
<1>4. l \in List /\ op \in {"add", "remove", "sync"} /\ <<l, t>> \in Entry
      /\ call[c].alone \in BOOLEAN
  BY <1>3 DEF RunningCall, Entry
<1>5. how \in Known3 /\ (how # "none" => call[c].alone)
      /\ (how = "in" => op # "remove") /\ (how = "out" => op = "remove")
  BY DEF Known3
<1> HIDE DEF how
<1>6. /\ Rows(op, db[l], t) \in SUBSET Target
      /\ how # "none" => (t \in Rows(op, db[l], t) <=> how = "in")
      /\ \A u \in Target \ {t} : u \in Rows(op, db[l], t) <=> u \in db[l]
  BY <1>1, <1>4, <1>5 DEF Rows, Known3
<1>7. /\ call' \in [Call -> RunningCall \cup {Ended}]
      /\ \A b \in Call, u \in Target :
           u \in call'[b].targets => /\ u \in call[b].targets
                                     /\ call'[b].op = call[b].op /\ call'[b].list = call[b].list
                                     /\ call'[b].alone = call[b].alone
  <2> DEFINE r == [call[c] EXCEPT !.targets = call[c].targets \ {t}]
  <2>1. /\ r \in RunningCall /\ r.op = call[c].op /\ r.list = call[c].list
        /\ r.alone = call[c].alone /\ r.targets = call[c].targets \ {t}
    BY <1>3 DEF RunningCall
  <2>2. call' = [call EXCEPT ![c] = IF call[c].targets = {t} THEN Ended ELSE r]
    BY <1>2
  <2> HIDE DEF r
  <2> QED BY <1>1, <2>1, <2>2 DEF Ended
<1>8. /\ db' \in [List -> SUBSET Target] /\ stored' \in [Entry -> Known3]
      /\ shown' \in [Target -> Known3]
  BY <1>1, <1>2, <1>4, <1>5, <1>6
<1>9. ListTypeOK'
  BY <1>1, <1>2, <1>7, <1>8 DEF ListTypeOK, RunningCall
<1>10. AloneCallsStand'
  BY <1>2, <1>7 DEF ListInv, AloneCallsStand
<1>11. ASSUME NEW u \in Target, NEW m \in List, stored'[<<m, u>>] # "none"
       PROVE  u \in db'[m] <=> stored'[<<m, u>>] = "in"
  <2>1. <<m, u>> \in Entry
    BY DEF Entry
  <2>2. CASE m = l /\ u = t
    BY <1>1, <1>2, <1>4, <1>6, <1>11, <2>1, <2>2
  <2>3. CASE ~(m = l /\ u = t)
    <3>1. stored'[<<m, u>>] = stored[<<m, u>>]
      BY <1>1, <1>2, <1>4, <2>1, <2>3
    <3>2. u \in db'[m] <=> u \in db[m]
      BY <1>1, <1>2, <1>4, <1>6, <2>3
    <3> QED BY <1>11, <3>1, <3>2 DEF ListInv, ListsFollowTheCalls
  <2> QED BY <2>2, <2>3
<1>12. ASSUME NEW u \in Target, shown'[u] # "none"
       PROVE  u \in memory'["block"] <=> shown'[u] = "in"
  <2>1. CASE u = t /\ l = "block" /\ op # "sync"
    <3>1. shown'[u] = how
      BY <1>1, <1>2, <2>1
    <3>2. call[c].alone /\ (op = "remove" <=> how = "out") /\ (op = "add" <=> how = "in")
      BY <1>4, <1>5, <1>12, <2>1, <3>1 DEF how
    <3>3. /\ op = "add" => t \in memory["block"]
          /\ op = "remove" => t \notin memory["block"]
      BY <1>2, <2>1, <3>2 DEF ListInv, AloneCallsStand
    <3> QED BY <1>2, <1>4, <2>1, <3>1, <3>2, <3>3
  <2>2. CASE ~(u = t /\ l = "block" /\ op # "sync")
    <3>1. shown'[u] = shown[u]
      BY <1>1, <1>2, <2>2
    <3> QED BY <1>2, <1>12, <3>1 DEF ListInv, ListsFollowTheCalls
  <2> QED BY <2>1, <2>2
<1>13. ListsFollowTheCalls'
  BY <1>11, <1>12 DEF ListsFollowTheCalls
<1> QED BY <1>9, <1>10, <1>13 DEF ListInv

LEMMA ListNextInv == ListInv /\ [ListNext]_listVars => ListInv'
<1> SUFFICES ASSUME ListInv, [ListNext]_listVars PROVE ListInv'
  OBVIOUS
<1>1. /\ memory \in [List -> SUBSET Target] /\ shown \in [Target -> Known3]
      /\ "block" \in List
  BY DEF ListInv, ListTypeOK, List
<1>2. ASSUME NEW c \in Call, NEW l \in List, NEW t \in Target, BeginAdd(c, l, t)
      PROVE  ListInv'
  <2>1. /\ Begin(c, "add", l, {t})
        /\ memory' = [memory EXCEPT ![l] = memory[l] \cup {t}]
        /\ shown' = IF l = "block" THEN [shown EXCEPT ![t] = "none"] ELSE shown
    BY <1>2 DEF BeginAdd
  <2>2. memory' \in [List -> SUBSET Target] /\ shown' \in [Target -> Known3]
    BY <1>1, <2>1 DEF Known3
  <2>3. \A u \in Target : l # "block" \/ u \notin {t} =>
           (u \in memory'["block"] <=> u \in memory["block"])
    BY <1>1, <2>1
  <2>4. l = "block" => t \in memory'["block"]
    BY <1>1, <2>1
  <2>5. \A u \in Target : shown'[u] # "none" =>
           /\ shown'[u] = shown[u]
           /\ u \in memory'["block"] <=> u \in memory["block"]
    BY <1>1, <2>1, <2>3
  <2> QED BY <2>1, <2>2, <2>3, <2>4, <2>5, BeginKeepsInv
<1>3. ASSUME NEW c \in Call, NEW l \in List, NEW t \in Target, BeginRemove(c, l, t)
      PROVE  ListInv'
  <2>1. /\ Begin(c, "remove", l, {t})
        /\ memory' = IF l = "block" THEN [memory EXCEPT ![l] = memory[l] \ {t}] ELSE memory
        /\ shown' = IF l = "block" THEN [shown EXCEPT ![t] = "none"] ELSE shown
    BY <1>3 DEF BeginRemove, RemovedFromMemory
  <2>2. memory' \in [List -> SUBSET Target] /\ shown' \in [Target -> Known3]
    BY <1>1, <2>1 DEF Known3
  <2>3. \A u \in Target : l # "block" \/ u \notin {t} =>
           (u \in memory'["block"] <=> u \in memory["block"])
    BY <1>1, <2>1
  <2>4. l = "block" => t \notin memory'["block"]
    BY <1>1, <2>1
  <2>5. \A u \in Target : shown'[u] # "none" =>
           /\ shown'[u] = shown[u]
           /\ u \in memory'["block"] <=> u \in memory["block"]
    BY <1>1, <2>1, <2>3
  <2> QED BY <2>1, <2>2, <2>3, <2>4, <2>5, BeginKeepsInv
<1>4. ASSUME NEW c \in Call, NEW l \in List, NEW targets \in SUBSET Target,
             BeginSync(c, l, targets)
      PROVE  ListInv'
  <2>1. Begin(c, "sync", l, targets) /\ UNCHANGED <<memory, shown>>
    BY <1>4 DEF BeginSync
  <2> QED BY <1>1, <2>1, BeginKeepsInv
<1>5. ASSUME NEW c \in Call, NEW t \in Target, Write(c, t) PROVE ListInv'
  BY <1>5, WriteKeepsInv
<1>6. ASSUME NEW c \in Call, WriteFails(c) PROVE ListInv'
  <2>1. call' = [call EXCEPT ![c] = Ended] /\ UNCHANGED <<memory, db, stored, shown>>
    BY <1>6 DEF WriteFails
  <2>2. ListTypeOK'
    BY <2>1 DEF ListInv, ListTypeOK
  <2>3. AloneCallsStand'
    <3>1. \A b \in Call : call'[b] = call[b] \/ call'[b].targets = {}
      BY <2>1 DEF ListInv, ListTypeOK, Ended
    <3> QED BY <2>1, <3>1 DEF ListInv, AloneCallsStand
  <2>4. ListsFollowTheCalls'
    BY <2>1 DEF ListInv, ListsFollowTheCalls
  <2> QED BY <2>2, <2>3, <2>4 DEF ListInv
<1>7. CASE ApiRestart
  <2>1. /\ memory' = [l \in List |-> FreshList] /\ call' = [c \in Call |-> Ended]
        /\ shown' = [t \in Target |-> "none"] /\ UNCHANGED <<db, stored>>
    BY <1>7 DEF ApiRestart
  <2>2. ListTypeOK'
    BY <2>1, ListAssumption DEF ListInv, ListTypeOK, Known3
  <2>3. AloneCallsStand'
    BY <2>1 DEF AloneCallsStand, Ended
  <2>4. ListsFollowTheCalls'
    BY <2>1 DEF ListInv, ListsFollowTheCalls
  <2> QED BY <2>2, <2>3, <2>4 DEF ListInv
<1>8. CASE UNCHANGED listVars
  BY <1>8 DEF listVars, ListInv, ListTypeOK, AloneCallsStand, ListsFollowTheCalls
<1> QED BY <1>2, <1>3, <1>4, <1>5, <1>6, <1>7, <1>8 DEF ListNext

LEMMA ListInvHolds == ListSpec => []ListInv
BY ListInitInv, ListNextInv, PTL DEF ListSpec

(* Type correctness of the lists.                                          *)
THEOREM ListTypeCorrectness == ListSpec => []ListTypeOK
<1>1. ListInv => ListTypeOK
  BY DEF ListInv
<1> QED BY <1>1, ListInvHolds, PTL

(* A call that no other call and no failure came between leaves the row,   *)
(* and the block list the API shows, as it asked for.                      *)
THEOREM UndisturbedCallsTakeEffect == ListSpec => []ListsFollowTheCalls
<1>1. ListInv => ListsFollowTheCalls
  BY DEF ListInv
<1> QED BY <1>1, ListInvHolds, PTL

-----------------------------------------------------------------------------
(* The alert manager.                                                      *)

LEMMA AlertBounds ==
  Capacity \in Nat /\ MinInterval \in Nat /\ MaxQueue \in Nat /\ MaxRetries \in Nat /\ MaxRetries > 0
BY AlertAssumption

(* The newest n elements of a sequence.                                    *)
LEMMA NewestElements ==
  ASSUME NEW T, NEW s \in Seq(T), NEW n \in Nat
  PROVE  /\ Newest(s, n) \in Seq(T)
         /\ Len(Newest(s, n)) = IF Len(s) > n THEN n ELSE Len(s)
         /\ \A i \in 1..Len(Newest(s, n)) : Newest(s, n)[i] = s[Len(s) - Len(Newest(s, n)) + i]
<1>1. Len(s) \in Nat /\ \A i \in 1..Len(s) : s[i] \in T
  OBVIOUS
<1>2. CASE Len(s) > n
  <2> DEFINE m == Len(s) - n + 1
             q == SubSeq(s, m, Len(s))
  <2>1. m \in 1..(Len(s) + 1) /\ \A i \in m..Len(s) : s[i] \in T
    BY <1>1, <1>2
  <2>2. /\ q \in Seq(T) /\ Len(q) = IF m <= Len(s) THEN Len(s) - m + 1 ELSE 0
        /\ \A i \in 1..(Len(s) - m + 1) : q[i] = s[m + i - 1]
    <3> HIDE DEF m
    <3> QED BY <1>1, <2>1, SubSeqProperties
  <2>3. Len(q) = n /\ Len(s) - m + 1 = n
    <3> HIDE DEF q
    <3> QED BY <1>1, <1>2, <2>2
  <2>4. ASSUME NEW i \in 1..n PROVE q[i] = s[Len(s) - n + i]
    <3>1. q[i] = s[m + i - 1] /\ m + i - 1 = Len(s) - n + i
      <4> HIDE DEF q
      <4> QED BY <1>1, <2>2, <2>3
    <3> HIDE DEF q, m
    <3> QED BY <3>1
  <2>5. Newest(s, n) = q
    BY <1>2 DEF Newest
  <2> HIDE DEF q
  <2> QED BY <1>2, <2>2, <2>3, <2>4, <2>5
<1>3. CASE ~(Len(s) > n)
  <2>1. Newest(s, n) = s
    BY <1>3 DEF Newest
  <2> QED BY <1>1, <1>3, <2>1
<1> QED BY <1>2, <1>3

Unlike(s) == \A i, j \in DOMAIN s : i # j => s[i] # s[j]

(* The ring is the newest part of the log, which is one message longer: a  *)
(* message that is not in the ring may only be the log's oldest.           *)
LEMMA LogStaysUnlike ==
  ASSUME NEW s \in Seq(Message), Len(s) <= Capacity + 1, Unlike(s),
         NEW m \in Message, m \notin Elements(Newest(s, Capacity))
  PROVE  LET t == Newest(Append(s, m), Capacity + 1)
         IN /\ t \in Seq(Message) /\ Len(t) <= Capacity + 1 /\ Unlike(t)
            /\ Remember(Newest(s, Capacity), m) = Newest(t, Capacity)
            /\ Newest(t, Capacity) \in Seq(Message) /\ Len(Newest(t, Capacity)) <= Capacity
<1> USE AlertBounds
<1> DEFINE ring == Newest(s, Capacity)
           r == Append(ring, m)
           a == Append(s, m)
           t == Newest(a, Capacity + 1)
           next == Newest(t, Capacity)
           now == Newest(r, Capacity)
<1>1. /\ ring \in Seq(Message) /\ Len(ring) = IF Len(s) > Capacity THEN Capacity ELSE Len(s)
      /\ \A i \in 1..Len(ring) : ring[i] = s[Len(s) - Len(ring) + i]
  BY NewestElements
<1>2. /\ a \in Seq(Message) /\ Len(a) = Len(s) + 1 /\ a[Len(s) + 1] = m /\ Len(s) \in Nat
      /\ \A i \in 1..Len(s) : a[i] = s[i]
  OBVIOUS
<1> HIDE DEF ring, a
<1>3. /\ r \in Seq(Message) /\ Len(r) = Len(ring) + 1 /\ r[Len(ring) + 1] = m /\ Len(ring) \in Nat
      /\ \A i \in 1..Len(ring) : r[i] = ring[i]
  BY <1>1
<1> HIDE DEF r
<1>4. /\ t \in Seq(Message) /\ Len(t) = IF Len(a) > Capacity + 1 THEN Capacity + 1 ELSE Len(a)
      /\ \A i \in 1..Len(t) : t[i] = a[Len(a) - Len(t) + i]
  BY <1>2, NewestElements
<1> HIDE DEF t
<1>5. /\ next \in Seq(Message) /\ Len(next) = IF Len(t) > Capacity THEN Capacity ELSE Len(t)
      /\ \A i \in 1..Len(next) : next[i] = t[Len(t) - Len(next) + i]
  BY <1>4, NewestElements
<1>6. /\ now \in Seq(Message) /\ Len(now) = IF Len(r) > Capacity THEN Capacity ELSE Len(r)
      /\ \A i \in 1..Len(now) : now[i] = r[Len(r) - Len(now) + i]
  BY <1>3, NewestElements
<1> HIDE DEF next, now
<1>7. Len(t) = Len(r) /\ Len(t) \in 1..(Capacity + 1) /\ Len(now) = Len(next) /\ Len(next) \in 0..Capacity
  BY <1>1, <1>2, <1>3, <1>4, <1>5, <1>6
(* All but the last of t are in the ring.                                  *)
<1>8. ASSUME NEW i \in 1..Len(t) PROVE t[i] = r[i]
  <2>1. t[i] = a[Len(a) - Len(t) + i]
    BY <1>4
  <2>2. CASE i = Len(t)
    <3>1. Len(a) - Len(t) + i = Len(s) + 1
      BY <1>2, <1>7, <2>2
    <3> QED BY <1>2, <1>3, <1>7, <2>1, <2>2, <3>1
  <2>3. CASE i # Len(t)
    <3> DEFINE k == Len(s) - Len(ring) + i
    <3>1. k = Len(a) - Len(t) + i /\ k \in 1..Len(s) /\ i \in 1..Len(ring)
      <4>1. Len(t) = Len(ring) + 1 /\ Len(a) = Len(s) + 1 /\ Len(ring) <= Len(s)
            /\ Len(ring) \in Nat /\ Len(s) \in Nat
        BY <1>1, <1>2, <1>3, <1>7
      <4>2. i \in 1..Len(ring)
        BY <2>3, <4>1
      <4> QED BY <4>1, <4>2
    <3> HIDE DEF k
    <3>2. t[i] = s[k]
      BY <1>2, <2>1, <3>1
    <3>3. r[i] = s[k]
      BY <1>1, <1>3, <3>1 DEF k
    <3> QED BY <3>2, <3>3
  <2> QED BY <2>2, <2>3
<1>9. now = next
  <2>1. \A i \in 1..Len(now) : now[i] = next[i]
    <3>1. ASSUME NEW i \in 1..Len(now) PROVE now[i] = next[i]
      <4> DEFINE k == Len(t) - Len(next) + i
      <4>1. k = Len(r) - Len(now) + i /\ k \in 1..Len(t) /\ i \in 1..Len(next)
        BY <1>5, <1>6, <1>7
      <4> HIDE DEF k
      <4>2. next[i] = t[k]
        BY <1>5, <4>1 DEF k
      <4>3. now[i] = r[k]
        BY <1>6, <4>1
      <4> QED BY <1>8, <4>1, <4>2, <4>3
    <3> QED BY <3>1
  <2> QED BY <1>5, <1>6, <1>7, <2>1, SeqEqual
<1>10. Unlike(t)
  <2>1. DOMAIN t = 1..Len(t) /\ DOMAIN s = 1..Len(s) /\ DOMAIN ring = 1..Len(ring)
    BY <1>1, <1>4
  <2>2. \A i \in 1..Len(ring) : ring[i] # m
    BY <2>1 DEF Elements, ring
  <2>3. ASSUME NEW i \in 1..Len(t), NEW j \in 1..Len(t), i < j PROVE t[i] # t[j]
    <3>1. t[i] = ring[i] /\ i \in 1..Len(ring)
      BY <1>3, <1>7, <1>8, <2>3
    <3>2. CASE j = Len(t)
      <4>1. t[j] = m
        BY <1>3, <1>7, <1>8, <3>2
      <4> QED BY <2>2, <3>1, <4>1
    <3>3. CASE j # Len(t)
      <4> DEFINE u == Len(s) - Len(ring) + i
                 v == Len(s) - Len(ring) + j
      <4>1. t[j] = ring[j] /\ j \in 1..Len(ring)
        BY <1>3, <1>7, <1>8, <3>3
      <4>2. u \in 1..Len(s) /\ v \in 1..Len(s) /\ u # v
        BY <1>1, <1>2, <2>3, <3>1, <4>1
      <4>3. t[i] = s[u] /\ t[j] = s[v]
        BY <1>1, <3>1, <4>1
      <4> HIDE DEF u, v
      <4> QED BY <2>1, <4>2, <4>3 DEF Unlike
    <3> QED BY <3>2, <3>3
  <2>4. ASSUME NEW i \in 1..Len(t), NEW j \in 1..Len(t), i # j PROVE t[i] # t[j]
    <3>1. i < j \/ j < i
      BY <2>4
    <3> QED BY <2>3, <3>1
  <2> QED BY <2>1, <2>4 DEF Unlike
<1> QED BY <1>4, <1>5, <1>7, <1>9, <1>10 DEF Remember, now, r, next, t, a, ring

RingsAreNewest == \A c \in Channel : /\ Len(log[c]) <= Capacity + 1
                                     /\ recent[c] = Newest(log[c], Capacity)

\* Between two attempts one less was made than the next one's number.
TriesFollowAttempts ==
  \A c \in Channel : sending.channel = c => effort[c] = Effort(sending.attempt - 1, FALSE)

TriesEnd ==
  \A c \in Channel :
    sending.channel # c /\ log[c] # <<>> => effort[c].answered \/ effort[c].tries = MaxRetries

AlertInv == /\ AlertTypeOK /\ RingsAreNewest /\ NoRepeatWithinCapacity
            /\ TriesFollowAttempts /\ TriesEnd

SendingType == [message : Message, channel : Channel, attempt : 1..MaxRetries,
                sleep : 0..Longest(MinInterval, MaxRetries)]

LEMMA AlertInitInv == AlertInit => AlertInv
<1> SUFFICES ASSUME AlertInit PROVE AlertInv
  OBVIOUS
<1> USE AlertBounds
<1>1. /\ queue = <<>> /\ sending = Nothing /\ published = NoReport /\ arrived = {}
      /\ recent = [c \in Channel |-> <<>>] /\ log = [c \in Channel |-> <<>>]
      /\ cooling = [c \in Channel |-> 0] /\ effort = [c \in Channel |-> Effort(0, FALSE)]
  BY DEF AlertInit
<1>2. AlertTypeOK
  BY <1>1 DEF AlertTypeOK, Effort
<1>3. Newest(<<>>, Capacity) = <<>>
  BY DEF Newest
<1>4. RingsAreNewest /\ NoRepeatWithinCapacity
  BY <1>1, <1>3 DEF RingsAreNewest, NoRepeatWithinCapacity
<1>5. TriesFollowAttempts /\ TriesEnd
  BY <1>1, AlertAssumption DEF TriesFollowAttempts, TriesEnd, Nothing
<1> QED BY <1>2, <1>4, <1>5 DEF AlertInv

LEMMA AlertNextInv == AlertInv /\ [AlertNext]_alertVars => AlertInv'
<1> SUFFICES ASSUME AlertInv, [AlertNext]_alertVars PROVE AlertInv'
  OBVIOUS
<1> USE AlertBounds
<1>1. /\ queue \in Seq(Alerts) /\ Len(queue) <= MaxQueue
      /\ recent \in [Channel -> Seq(Message)] /\ (\A c \in Channel : Len(recent[c]) <= Capacity)
      /\ cooling \in [Channel -> 0..MinInterval] /\ sending \in SendingType \cup {Nothing}
      /\ published \in [subject : {"SENT", "FAILED"}, message : Message, channel : Channel]
                       \cup {NoReport}
      /\ log \in [Channel -> Seq(Message)] /\ arrived \subseteq Message \X Channel
      /\ effort \in [Channel -> [tries : 0..MaxRetries, answered : BOOLEAN]]
  BY DEF AlertInv, AlertTypeOK, SendingType
<1>2. /\ MinInterval <= Longest(MinInterval, MaxRetries) /\ MaxRetries <= Longest(MinInterval, MaxRetries)
      /\ Longest(MinInterval, MaxRetries) \in Nat
  BY DEF Longest
<1>3. ASSUME UNCHANGED <<recent, log>>, AlertTypeOK', TriesFollowAttempts', TriesEnd'
      PROVE  AlertInv'
  BY <1>3 DEF AlertInv, RingsAreNewest, NoRepeatWithinCapacity
<1>14. ASSUME UNCHANGED <<log, effort>>, sending'.channel = sending.channel,
              sending'.attempt = sending.attempt
       PROVE  TriesFollowAttempts' /\ TriesEnd'
  BY <1>14 DEF AlertInv, TriesFollowAttempts, TriesEnd
<1>4. ASSUME queue # <<>>
      PROVE  /\ Head(queue).message \in Message /\ Head(queue).channel \in Channel
             /\ Tail(queue) \in Seq(Alerts) /\ Len(Tail(queue)) <= MaxQueue
  <2>1. Head(queue) \in Alerts /\ Tail(queue) \in Seq(Alerts) /\ Len(Tail(queue)) <= MaxQueue
    BY <1>1, <1>4
  <2> QED BY <2>1 DEF Alerts
<1>5. ASSUME NEW m \in Message, NEW c \in Channel, NEW subject \in {"SENT", "FAILED"},
             Report(subject, m, c)
      PROVE  published' \in [subject : {"SENT", "FAILED"}, message : Message, channel : Channel]
                            \cup {NoReport}
  BY <1>5 DEF Report
<1>6. ASSUME NEW a \in Alerts, Request(a) PROVE AlertInv'
  <2>1. queue' \in Seq(Alerts) /\ Len(queue') <= MaxQueue
    BY <1>1, <1>6 DEF Request
  <2>2. AlertTypeOK'
    BY <1>1, <1>6, <2>1 DEF Request, AlertTypeOK, SendingType, history
  <2> QED BY <1>3, <1>6, <1>14, <2>2 DEF Request, history
<1>7. CASE TakeDuplicate
  <2>1. AlertTypeOK'
    BY <1>1, <1>4, <1>5, <1>7 DEF TakeDuplicate, AlertTypeOK, SendingType, history
  <2> QED BY <1>3, <1>7, <1>14, <2>1 DEF TakeDuplicate, history
<1>8. CASE Take
  <2> DEFINE m == Head(queue).message
             c == Head(queue).channel
             t == Newest(Append(log[c], m), Capacity + 1)
             w == [message |-> m, channel |-> c, attempt |-> 1, sleep |-> cooling[c]]
  <2>1. /\ queue # <<>> /\ m \notin Elements(recent[c])
        /\ recent' = [recent EXCEPT ![c] = Remember(recent[c], m)]
        /\ log' = [log EXCEPT ![c] = t] /\ sending' = w /\ queue' = Tail(queue)
        /\ effort' = [effort EXCEPT ![c] = Effort(0, FALSE)] /\ sending = Nothing
        /\ UNCHANGED <<cooling, published, arrived>>
    BY <1>8 DEF Take
  <2>2. m \in Message /\ c \in Channel /\ Tail(queue) \in Seq(Alerts) /\ Len(Tail(queue)) <= MaxQueue
    BY <1>4, <2>1
  <2>3. w \in SendingType
    <3>1. cooling[c] \in 0..Longest(MinInterval, MaxRetries) /\ 1 \in 1..MaxRetries
      BY <1>1, <1>2, <2>2
    <3> HIDE DEF m, c
    <3> QED BY <2>2, <3>1 DEF SendingType
  <2> HIDE DEF m, c, w, t
  <2>4. /\ log[c] \in Seq(Message) /\ Len(log[c]) <= Capacity + 1 /\ Unlike(log[c])
        /\ recent[c] = Newest(log[c], Capacity)
    BY <1>1, <2>2 DEF AlertInv, RingsAreNewest, NoRepeatWithinCapacity, Unlike
  <2>5. /\ t \in Seq(Message) /\ Len(t) <= Capacity + 1 /\ Unlike(t)
        /\ Remember(recent[c], m) = Newest(t, Capacity)
        /\ Newest(t, Capacity) \in Seq(Message) /\ Len(Newest(t, Capacity)) <= Capacity
    <3>1. m \notin Elements(Newest(log[c], Capacity))
      BY <2>1, <2>4
    <3> QED BY <2>2, <2>4, <3>1, LogStaysUnlike DEF t
  <2>6. /\ log' \in [Channel -> Seq(Message)] /\ recent' \in [Channel -> Seq(Message)]
        /\ log'[c] = t /\ recent'[c] = Newest(t, Capacity)
        /\ \A d \in Channel : d # c => log'[d] = log[d] /\ recent'[d] = recent[d]
    BY <1>1, <2>1, <2>2, <2>5
  <2>9. effort' \in [Channel -> [tries : 0..MaxRetries, answered : BOOLEAN]]
        /\ effort'[c] = Effort(0, FALSE) /\ \A d \in Channel : d # c => effort'[d] = effort[d]
    <3>1. Effort(0, FALSE) \in [tries : 0..MaxRetries, answered : BOOLEAN]
      BY DEF Effort
    <3> QED BY <1>1, <2>1, <2>2, <3>1
  <2>10. TriesFollowAttempts' /\ TriesEnd'
    <3>1. w.channel = c /\ w.attempt = 1
      BY DEF w
    <3>2. \A d \in Channel : sending.channel # d
      BY <2>1, AlertAssumption DEF Nothing
    <3>3. sending'.channel = c /\ sending'.attempt - 1 = 0
      BY <2>1, <3>1
    <3>4. ASSUME NEW d \in Channel, d # c
          PROVE  log'[d] # <<>> => effort'[d].answered \/ effort'[d].tries = MaxRetries
      BY <2>6, <2>9, <3>2, <3>4 DEF AlertInv, TriesEnd
    <3>5. TriesEnd'
      BY <3>3, <3>4 DEF TriesEnd
    <3>6. TriesFollowAttempts'
      BY <2>9, <3>3 DEF TriesFollowAttempts
    <3> QED BY <3>5, <3>6
  <2>7. AlertTypeOK'
    BY <1>1, <2>1, <2>2, <2>3, <2>5, <2>6, <2>9 DEF AlertTypeOK, SendingType
  <2>8. RingsAreNewest' /\ NoRepeatWithinCapacity'
    <3>1. ASSUME NEW d \in Channel
          PROVE  /\ Len(log'[d]) <= Capacity + 1 /\ recent'[d] = Newest(log'[d], Capacity)
                 /\ Unlike(log'[d])
      <4>1. CASE d = c
        BY <2>5, <2>6, <4>1
      <4>2. CASE d # c
        <5>1. Len(log[d]) <= Capacity + 1 /\ recent[d] = Newest(log[d], Capacity)
          BY DEF AlertInv, RingsAreNewest
        <5>2. Unlike(log[d])
          BY DEF AlertInv, NoRepeatWithinCapacity, Unlike
        <5> QED BY <2>6, <4>2, <5>1, <5>2
      <4> QED BY <4>1, <4>2
    <3> QED BY <3>1 DEF RingsAreNewest, NoRepeatWithinCapacity, Unlike
  <2> QED BY <2>7, <2>8, <2>10 DEF AlertInv
<1>9. ASSUME sending # Nothing
      PROVE  /\ sending \in SendingType /\ sending.message \in Message /\ sending.channel \in Channel
             /\ sending.attempt \in 1..MaxRetries
             /\ sending.sleep \in 0..Longest(MinInterval, MaxRetries)
  BY <1>1, <1>9 DEF SendingType
<1>15. ASSUME Trying, NEW answered \in BOOLEAN, Tried(answered)
       PROVE  /\ effort' \in [Channel -> [tries : 0..MaxRetries, answered : BOOLEAN]]
              /\ effort'[sending.channel] = Effort(sending.attempt, answered)
              /\ \A d \in Channel : d # sending.channel => effort'[d] = effort[d]
  <2>1. sending # Nothing
    BY <1>15 DEF Trying
  <2>2. Effort(sending.attempt, answered) \in [tries : 0..MaxRetries, answered : BOOLEAN]
    BY <1>9, <2>1 DEF Effort
  <2> QED BY <1>1, <1>9, <1>15, <2>1, <2>2 DEF Tried
<1>16. ASSUME Trying, NEW answered \in BOOLEAN, Tried(answered), sending' = Nothing, UNCHANGED log,
              answered \/ ~(sending.attempt < MaxRetries)
       PROVE  TriesFollowAttempts' /\ TriesEnd'
  <2>1. sending # Nothing
    BY <1>16 DEF Trying
  <2>2. sending.channel \in Channel /\ sending.attempt \in 1..MaxRetries
    BY <1>9, <2>1
  <2>3. /\ effort'[sending.channel].tries = sending.attempt
        /\ effort'[sending.channel].answered = answered
    <3>1. effort'[sending.channel] = Effort(sending.attempt, answered)
      BY <1>15, <1>16
    <3> QED BY <3>1 DEF Effort
  <2>4. \A d \in Channel : sending'.channel # d
    BY <1>16, AlertAssumption DEF Nothing
  <2>5. effort'[sending.channel].answered \/ effort'[sending.channel].tries = MaxRetries
    BY <1>16, <2>2, <2>3
  <2> QED BY <1>15, <1>16, <2>2, <2>4, <2>5 DEF AlertInv, TriesFollowAttempts, TriesEnd
<1>10. CASE Succeed
  <2>1. sending # Nothing
    BY <1>10 DEF Succeed, Trying
  <2>2. AlertTypeOK'
    <3>1. effort' \in [Channel -> [tries : 0..MaxRetries, answered : BOOLEAN]]
      BY <1>10, <1>15 DEF Succeed
    <3>2. /\ cooling' \in [Channel -> 0..MinInterval] /\ arrived' \subseteq Message \X Channel
          /\ published' \in [subject : {"SENT", "FAILED"}, message : Message, channel : Channel]
                            \cup {NoReport}
      BY <1>1, <1>5, <1>9, <1>10, <2>1 DEF Succeed, Arrives
    <3> QED BY <1>1, <1>10, <3>1, <3>2 DEF Succeed, AlertTypeOK, SendingType
  <2>3. TriesFollowAttempts' /\ TriesEnd'
    BY <1>10, <1>16 DEF Succeed
  <2> QED BY <1>3, <1>10, <2>2, <2>3 DEF Succeed
<1>11. CASE Fail
  <2>1. sending # Nothing
    BY <1>11 DEF Fail, Trying
  <2>2. arrived' \subseteq Message \X Channel
    BY <1>1, <1>9, <1>11, <2>1 DEF Fail, Arrives
  <2>3. sending' \in SendingType \cup {Nothing}
    <3>1. CASE sending.attempt < MaxRetries
      <4>1. sending' = [sending EXCEPT !.attempt = sending.attempt + 1, !.sleep = sending.attempt]
        BY <1>11, <3>1 DEF Fail
      <4>2. sending.attempt + 1 \in 1..MaxRetries
            /\ sending.attempt \in 0..Longest(MinInterval, MaxRetries)
        BY <1>2, <1>9, <2>1, <3>1
      <4> QED BY <1>9, <2>1, <4>1, <4>2 DEF SendingType
    <3>2. CASE ~(sending.attempt < MaxRetries)
      BY <1>11, <3>2 DEF Fail
    <3> QED BY <3>1, <3>2
  <2>4. published' \in [subject : {"SENT", "FAILED"}, message : Message, channel : Channel]
                       \cup {NoReport}
    BY <1>1, <1>5, <1>9, <1>11, <2>1 DEF Fail
  <2>5. AlertTypeOK'
    BY <1>1, <1>11, <1>15, <2>2, <2>3, <2>4 DEF Fail, AlertTypeOK, SendingType
  <2>6. TriesFollowAttempts' /\ TriesEnd'
    <3>1. CASE sending.attempt < MaxRetries
      <4>1. sending' = [sending EXCEPT !.attempt = sending.attempt + 1, !.sleep = sending.attempt]
        BY <1>11, <3>1 DEF Fail
      <4>2. sending'.channel = sending.channel /\ sending'.attempt - 1 = sending.attempt
        BY <1>9, <2>1, <4>1 DEF SendingType
      <4>3. effort'[sending.channel] = Effort(sending.attempt, FALSE)
            /\ \A d \in Channel : d # sending.channel => effort'[d] = effort[d]
        BY <1>11, <1>15 DEF Fail
      <4> QED BY <1>11, <4>2, <4>3 DEF Fail, AlertInv, TriesFollowAttempts, TriesEnd
    <3>2. CASE ~(sending.attempt < MaxRetries)
      BY <1>11, <1>16, <3>2 DEF Fail
    <3> QED BY <3>1, <3>2
  <2> QED BY <1>3, <1>11, <2>5, <2>6 DEF Fail
<1>12. CASE AlertTick
  <2>1. /\ cooling' = [c \in Channel |-> Sooner1(cooling[c])]
        /\ sending' = [sending EXCEPT !.sleep = Sooner1(sending.sleep)]
        /\ UNCHANGED <<queue, recent, published, log, effort, arrived>>
    BY <1>12 DEF AlertTick, history
  <2>2. cooling' \in [Channel -> 0..MinInterval]
    BY <1>1, <2>1 DEF Sooner1
  <2>3. sending' \in SendingType \cup {Nothing}
    <3>1. CASE sending = Nothing
      BY <2>1, <3>1 DEF Nothing, Sooner1
    <3>2. CASE sending # Nothing
      <4>1. Sooner1(sending.sleep) \in 0..Longest(MinInterval, MaxRetries)
        BY <1>2, <1>9, <3>2 DEF Sooner1
      <4> QED BY <1>9, <2>1, <3>2, <4>1 DEF SendingType
    <3> QED BY <3>1, <3>2
  <2>4. AlertTypeOK'
    BY <1>1, <2>1, <2>2, <2>3 DEF AlertTypeOK, SendingType
  <2>5. sending'.channel = sending.channel /\ sending'.attempt = sending.attempt
    <3>1. CASE sending = Nothing
      BY <2>1, <3>1 DEF Nothing
    <3>2. CASE sending # Nothing
      BY <1>9, <2>1, <3>2 DEF SendingType
    <3> QED BY <3>1, <3>2
  <2> QED BY <1>3, <1>14, <2>1, <2>4, <2>5
<1>13. CASE UNCHANGED alertVars
  <2>1. AlertTypeOK'
    BY <1>1, <1>13 DEF alertVars, history, AlertTypeOK, SendingType
  <2> QED BY <1>3, <1>13, <1>14, <2>1 DEF alertVars, history
<1> QED BY <1>6, <1>7, <1>8, <1>10, <1>11, <1>12, <1>13 DEF AlertNext

LEMMA AlertInvHolds == AlertSpec => []AlertInv
BY AlertInitInv, AlertNextInv, PTL DEF AlertSpec

(* Type correctness of the alert manager.                                  *)
THEOREM AlertManagerTypes == AlertSpec => []AlertTypeOK
<1>1. AlertInv => AlertTypeOK
  BY DEF AlertInv
<1> QED BY <1>1, AlertInvHolds, PTL

(* For a ring of any capacity, the requests of any number of callers and   *)
(* whatever fails: the same message is not taken up again for a channel    *)
(* before Capacity others have been.                                       *)
THEOREM NoEarlyRepeat == AlertSpec => []NoRepeatWithinCapacity
<1>1. AlertInv => NoRepeatWithinCapacity
  BY DEF AlertInv
<1> QED BY <1>1, AlertInvHolds, PTL

(* For any number of attempts and any waiting times: a message is tried    *)
(* until there is an answer or its attempts are used up.                   *)
THEOREM TriesAreMade == AlertSpec => []TriedUntilAnswered
<1>1. AlertInv => TriedUntilAnswered
  <2> SUFFICES ASSUME AlertInv, NEW c \in Channel
               PROVE  IF sending.channel = c
                      THEN ~effort[c].answered /\ effort[c].tries < MaxRetries
                      ELSE log[c] # <<>> => effort[c].answered \/ effort[c].tries = MaxRetries
    BY DEF TriedUntilAnswered
  <2>1. CASE sending.channel = c
    <3>1. sending # Nothing
      BY <2>1, AlertAssumption DEF Nothing
    <3>2. sending.attempt \in 1..MaxRetries
      BY <3>1 DEF AlertInv, AlertTypeOK
    <3>3. effort[c] = Effort(sending.attempt - 1, FALSE)
      BY <2>1 DEF AlertInv, TriesFollowAttempts
    <3>4. effort[c].tries = sending.attempt - 1 /\ effort[c].answered = FALSE
      BY <3>3 DEF Effort
    <3> QED BY <2>1, <3>2, <3>4, AlertBounds
  <2>2. CASE sending.channel # c
    BY <2>2 DEF AlertInv, TriesEnd
  <2> QED BY <2>1, <2>2
<1> QED BY <1>1, AlertInvHolds, PTL

-----------------------------------------------------------------------------
(* The kernel's events and the identities.                                 *)

LEMMA KernelBounds ==
  /\ MaxEvents \in Nat /\ MaxAnnounced \in Nat /\ MaxIds \in Nat
  /\ IsFiniteSet(Pid) /\ Cardinality(Pid) <= MaxIds /\ Pid \subseteq AllPid /\ Zero \in AllPid
BY KernelAssumption DEF AllPid

(* An identity's ancestors come before it, and there are fewer of them     *)
(* than of all the identities before.                                      *)
IdentitiesSound ==
  /\ ids \in Seq(Identity) /\ Len(ids) <= MaxIds
  /\ \A i \in DOMAIN ids : Sound(i) /\ ids[i].depth < i
  /\ pidMap \in [AllPid -> 0..Len(ids)]
  /\ \A p \in AllPid : pidMap[p] # 0 => ids[pidMap[p]].pid = p

StreamTyped ==
  /\ process \in [Pid -> AllPid \cup {"down"}] /\ fallback \in BOOLEAN /\ prev \subseteq Pid
  /\ events \in Seq(Event) /\ Len(events) <= MaxEvents
  /\ announced \in Seq(Pid) /\ Len(announced) <= MaxAnnounced
  /\ known \subseteq Pid /\ unseen \subseteq Pid

KernelInv == StreamTyped /\ IdentitiesSound /\ KnownAreWatched

LEMMA KernelInvIsTyped == KernelInv => KernelTypeOK
BY DEF KernelInv, StreamTyped, IdentitiesSound, KernelTypeOK

(* A list of a finite set has every element of it.                         *)
LEMMA ListingsAreComplete ==
  ASSUME NEW S \in SUBSET Pid, NEW s \in Listings(S)
  PROVE  /\ IsFiniteSet(S) /\ Cardinality(S) \in Nat /\ s \in [1..Cardinality(S) -> S]
         /\ \A x \in S : \E i \in 1..Cardinality(S) : s[i] = x
<1>1. IsFiniteSet(S) /\ Cardinality(S) \in Nat
  BY KernelBounds, FS_Subset, FS_CardinalityType
<1>2. s \in [1..Cardinality(S) -> S] /\ \A i, j \in 1..Cardinality(S) : s[i] = s[j] => i = j
  BY DEF Listings
<1>3. s \in Injection(1..Cardinality(S), S)
  BY <1>2 DEF Injection, IsInjective
<1>4. Cardinality(1..Cardinality(S)) = Cardinality(S)
  BY <1>1, FS_Interval
<1>5. s \in Surjection(1..Cardinality(S), S)
  BY <1>1, <1>3, <1>4, FS_Injection
<1> QED BY <1>1, <1>2, <1>5 DEF Surjection

LEMMA KernelInitInv == KernelInit => KernelInv
<1> SUFFICES ASSUME KernelInit PROVE KernelInv
  OBVIOUS
<1> USE KernelBounds
<1>1. /\ process = [p \in Pid |-> "down"] /\ prev = {} /\ fallback \in BOOLEAN
      /\ events = <<>> /\ announced = <<>> /\ known = {} /\ unseen = {}
  BY DEF KernelInit
<1>2. StreamTyped /\ KnownAreWatched
  BY <1>1 DEF StreamTyped, KnownAreWatched
<1>3. PICK s \in Imported :
       /\ ids = [i \in DOMAIN s |-> Root(s[i])]
       /\ pidMap = [p \in AllPid |-> IF \E i \in DOMAIN s : s[i] = p
                                     THEN CHOOSE i \in DOMAIN s : s[i] = p ELSE 0]
  BY DEF KernelInit
<1>4. PICK n \in 0..Cardinality(Pid) : s \in [1..n -> Pid]
  BY <1>3 DEF Imported
<1>5. n \in Nat /\ n <= MaxIds /\ DOMAIN s = 1..n
  BY <1>4, FS_CardinalityType
<1>6. \A p \in Pid : /\ Root(p) \in Identity /\ Root(p).pid = p /\ Root(p).parent = 0
                     /\ Root(p).depth = 0
  BY DEF Root, Identity
<1>7. ids \in [1..n -> Identity] /\ \A i \in 1..n : ids[i] = Root(s[i]) /\ s[i] \in Pid
  BY <1>3, <1>4, <1>5, <1>6
<1>8. ids \in Seq(Identity) /\ Len(ids) = n /\ DOMAIN ids = 1..n
  BY <1>5, <1>7
<1>9. \A i \in DOMAIN ids : Sound(i) /\ ids[i].depth < i
  BY <1>5, <1>6, <1>7, <1>8 DEF Sound
<1>10. ASSUME NEW p \in AllPid
       PROVE  pidMap[p] \in 0..n /\ (pidMap[p] # 0 => ids[pidMap[p]].pid = p)
  <2>1. CASE \E i \in DOMAIN s : s[i] = p
    <3>1. pidMap[p] \in DOMAIN s /\ s[pidMap[p]] = p
      BY <1>3, <2>1
    <3> QED BY <1>5, <1>6, <1>7, <3>1
  <2>2. CASE ~\E i \in DOMAIN s : s[i] = p
    <3>1. pidMap[p] = 0
      BY <1>3, <2>2
    <3> QED BY <1>5, <3>1
  <2> QED BY <2>1, <2>2
<1>11. IdentitiesSound
  BY <1>3, <1>5, <1>8, <1>9, <1>10 DEF IdentitiesSound
<1> QED BY <1>2, <1>11 DEF KernelInv

-----------------------------------------------------------------------------
(* What is done to the identities.                                         *)
LEMMA NewIdentitySound ==
  ASSUME IdentitiesSound, NEW p \in AllPid, NEW q \in AllPid, NewIdentity(p, q)
  PROVE  IdentitiesSound'
<1> USE KernelBounds
<1> DEFINE n == Len(ids)
           up == ParentOf(q)
           depth == IF up = 0 THEN 0 ELSE ids[up].depth + 1
           new == [pid |-> p, ppid |-> q, parent |-> up, depth |-> depth]
<1>1. /\ ids \in Seq(Identity) /\ n <= MaxIds /\ n \in Nat /\ DOMAIN ids = 1..n
      /\ pidMap \in [AllPid -> 0..n]
      /\ \A i \in 1..n : ids[i] \in Identity /\ Sound(i) /\ ids[i].depth < i
      /\ \A r \in AllPid : pidMap[r] # 0 => ids[pidMap[r]].pid = r
  BY DEF IdentitiesSound
<1>2. n < MaxIds /\ ids' = Append(ids, new) /\ pidMap' = [pidMap EXCEPT ![p] = n + 1]
  BY DEF NewIdentity
<1>3. up \in 0..n
  BY <1>1 DEF ParentOf
<1>4. depth \in 0..n
  <2>1. CASE up = 0
    BY <1>1, <2>1
  <2>2. CASE up # 0
    <3>1. up \in 1..n /\ ids[up].depth \in Nat /\ ids[up].depth < up
      BY <1>1, <1>3, <2>2 DEF Identity
    <3> HIDE DEF up
    <3> QED BY <1>1, <2>2, <3>1
  <2> QED BY <2>1, <2>2
<1> HIDE DEF up, depth
<1>5. new \in Identity /\ new.pid = p /\ new.parent = up /\ new.depth = depth
  BY <1>1, <1>2, <1>3, <1>4 DEF Identity
<1> HIDE DEF new
<1>6. /\ ids' \in Seq(Identity) /\ Len(ids') = n + 1 /\ DOMAIN ids' = 1..(n + 1)
      /\ ids'[n + 1] = new /\ \A i \in 1..n : ids'[i] = ids[i]
  BY <1>1, <1>2, <1>5
<1> HIDE DEF n
<1>7. ASSUME NEW i \in 1..(n + 1) PROVE Sound(i)' /\ ids'[i].depth < i
  <2>1. CASE i = n + 1
    <3>1. ids'[i].parent = up /\ ids'[i].depth = depth
      BY <1>5, <1>6, <2>1
    <3>2. up # 0 => ids'[up] = ids[up]
      BY <1>1, <1>3, <1>6
    <3> QED BY <1>1, <1>3, <1>4, <2>1, <3>1, <3>2 DEF Sound, depth
  <2>2. CASE i \in 1..n
    <3>1. ids'[i] = ids[i] /\ Sound(i) /\ ids[i].depth < i /\ ids[i].parent \in Nat
      <4>1. ids[i] \in Identity
        BY <1>1, <2>2
      <4>2. ids[i].parent \in Nat
        BY <4>1 DEF Identity
      <4> QED BY <1>1, <1>6, <2>2, <4>2
    <3>2. ids[i].parent # 0 => ids'[ids[i].parent] = ids[ids[i].parent]
      <4>1. ids[i].parent < i
        BY <3>1 DEF Sound
      <4> QED BY <1>1, <1>6, <2>2, <3>1, <4>1
    <3> QED BY <3>1, <3>2 DEF Sound
  <2> QED BY <1>1, <2>1, <2>2
<1>8. pidMap' \in [AllPid -> 0..(n + 1)]
      /\ \A r \in AllPid : pidMap'[r] = IF r = p THEN n + 1 ELSE pidMap[r]
  BY <1>1, <1>2
<1>9. ASSUME NEW r \in AllPid, pidMap'[r] # 0 PROVE ids'[pidMap'[r]].pid = r
  <2>1. CASE r = p
    BY <1>5, <1>6, <1>8, <2>1
  <2>2. CASE r # p
    <3>1. pidMap'[r] = pidMap[r] /\ pidMap[r] \in 1..n
      BY <1>1, <1>8, <1>9, <2>2
    <3> QED BY <1>1, <1>6, <3>1
  <2> QED BY <2>1, <2>2
<1> QED BY <1>1, <1>2, <1>6, <1>7, <1>8, <1>9 DEF IdentitiesSound

LEMMA RegisterSound ==
  ASSUME IdentitiesSound, NEW p \in AllPid, NEW q \in AllPid, RegisterAgent(p, q)
  PROVE  IdentitiesSound'
<1>1. CASE pidMap[p] # 0
  <2> DEFINE k == pidMap[p]
             n == Len(ids)
  <2>1. /\ ids \in Seq(Identity) /\ n <= MaxIds /\ n \in Nat /\ DOMAIN ids = 1..n
        /\ pidMap \in [AllPid -> 0..n]
        /\ \A i \in 1..n : ids[i] \in Identity /\ Sound(i) /\ ids[i].depth < i
        /\ \A r \in AllPid : pidMap[r] # 0 => ids[pidMap[r]].pid = r
    BY DEF IdentitiesSound
  <2>2. ids' = [ids EXCEPT ![k].ppid = q] /\ pidMap' = pidMap /\ k \in 1..n
    BY <1>1, <2>1 DEF RegisterAgent
  <2> HIDE DEF k
  <2>3. ASSUME NEW i \in 1..n
        PROVE  /\ ids'[i] \in Identity /\ ids'[i].parent = ids[i].parent
               /\ ids'[i].depth = ids[i].depth /\ ids'[i].pid = ids[i].pid
    <3>1. ids'[i] = IF i = k THEN [ids[i] EXCEPT !.ppid = q] ELSE ids[i]
      BY <2>1, <2>2
    <3> QED BY <2>1, <3>1 DEF Identity
  <2>4. ids' \in [1..n -> Identity]
    <3>1. ids' = [i \in 1..n |-> ids'[i]]
      BY <2>1, <2>2
    <3> HIDE DEF n
    <3> QED BY <2>3, <3>1
  <2>5. ids' \in Seq(Identity) /\ Len(ids') = n /\ DOMAIN ids' = 1..n
    BY <2>1, <2>4
  <2> HIDE DEF n
  <2>6. ASSUME NEW i \in 1..n PROVE Sound(i)' /\ ids'[i].depth < i
    <3>1. Sound(i) /\ ids[i].depth < i /\ ids[i].parent \in Nat
      BY <2>1 DEF Identity
    <3>2. ids[i].parent # 0 => ids[i].parent \in 1..n
      <4>1. ids[i].parent < i
        BY <3>1 DEF Sound
      <4> QED BY <2>1, <3>1, <4>1
    <3> QED BY <2>3, <3>1, <3>2 DEF Sound
  <2>7. \A r \in AllPid : pidMap'[r] # 0 => ids'[pidMap'[r]].pid = r
    BY <2>1, <2>2, <2>3
  <2> QED BY <2>1, <2>2, <2>5, <2>6, <2>7 DEF IdentitiesSound
<1>2. CASE pidMap[p] = 0
  BY <1>2, NewIdentitySound DEF RegisterAgent
<1> QED BY <1>1, <1>2

LEMMA SameIdentities == IdentitiesSound /\ UNCHANGED <<pidMap, ids>> => IdentitiesSound'
BY DEF IdentitiesSound, Sound

-----------------------------------------------------------------------------
(* The kernel's steps.                                                     *)

LEMMA EventFields ==
  ASSUME NEW kind \in {"exec", "exit", "fork"}, NEW p \in AllPid, NEW q \in AllPid
  PROVE  [kind |-> kind, pid |-> p, ppid |-> q] \in Event
BY DEF Event

LEMMA EmitAppends ==
  ASSUME NEW e \in Event, events \in Seq(Event), Len(events) <= MaxEvents, Emit(e)
  PROVE  /\ events' \in Seq(Event) /\ Len(events') <= MaxEvents
         /\ \A i \in DOMAIN events : i \in DOMAIN events' /\ events'[i] = events[i]
         /\ ~fallback /\ Len(events) # MaxEvents => \E i \in DOMAIN events' : events'[i] = e
<1> USE KernelBounds
<1>1. CASE ~fallback /\ Len(events) < MaxEvents
  <2>1. events' = Append(events, e) /\ Len(events) + 1 \in DOMAIN events' /\ events'[Len(events) + 1] = e
    BY <1>1 DEF Emit
  <2> QED BY <1>1, <2>1
<1>2. CASE ~(~fallback /\ Len(events) < MaxEvents)
  BY <1>2 DEF Emit
<1> QED BY <1>1, <1>2

HasExit(es, p) == \E i \in DOMAIN es : es[i].kind = "exit" /\ es[i].pid = p

LEMMA KernelStepInv ==
  ASSUME KernelInv, UNCHANGED engine, UNCHANGED fallback, StreamTyped',
         fallback => \A p \in known : (Watched(p) \/ p \in unseen \/ HasExit(events, p))
                          => (Watched(p)' \/ p \in unseen' \/ HasExit(events', p))
  PROVE  KernelInv'
<1>1. IdentitiesSound'
  BY SameIdentities DEF KernelInv, engine
<1>2. KnownAreWatched'
  BY DEF KernelInv, KnownAreWatched, Told, HasExit, engine
<1> QED BY <1>1, <1>2 DEF KernelInv

LEMMA StartKeepsInv ==
  ASSUME KernelInv, NEW p \in Pid, NEW q \in AllPid, NEW u \in AllPid, StartProcess(p, q, u)
  PROVE  KernelInv'
<1> DEFINE e == [kind |-> "exec", pid |-> u, ppid |-> Zero]
<1>1. /\ process' = [process EXCEPT ![p] = q] /\ Emit(e)
      /\ unseen' = IF fallback THEN unseen ELSE unseen \ {p}
      /\ UNCHANGED <<fallback, prev, announced, engine>>
  BY DEF StartProcess
<1>2. StreamTyped /\ e \in Event
  BY KernelBounds, EventFields DEF KernelInv
<1> HIDE DEF e
<1>3. /\ events' \in Seq(Event) /\ Len(events') <= MaxEvents
      /\ \A i \in DOMAIN events : i \in DOMAIN events' /\ events'[i] = events[i]
  BY <1>1, <1>2, EmitAppends DEF StreamTyped
<1>4. StreamTyped'
  BY <1>1, <1>2, <1>3 DEF StreamTyped, engine
<1>5. \A r \in Running : r \in Running'
  <2>1. q # "down"
    BY KernelAssumption DEF StartProcess, Running, Zero
  <2> QED BY <1>1, <1>2, <2>1 DEF Running, StreamTyped
<1>6. p \in Running'
  <2>1. q # "down"
    BY KernelAssumption DEF StartProcess, Running, Zero
  <2> QED BY <1>1, <1>2, <2>1 DEF Running, StreamTyped
<1>7. \A r \in known : (Watched(r) \/ r \in unseen \/ HasExit(events, r))
                       => (Watched(r)' \/ r \in unseen' \/ HasExit(events', r))
  <2>1. \A r : HasExit(events, r) => HasExit(events', r)
    BY <1>3 DEF HasExit
  <2>2. \A r : Watched(r) => Watched(r)'
    BY <1>1, <1>5 DEF Watched
  <2>3. \A r \in unseen : r \in unseen' \/ Watched(r)'
    BY <1>1, <1>6 DEF Watched
  <2> QED BY <2>1, <2>2, <2>3
<1> QED BY <1>1, <1>4, <1>7, KernelStepInv

LEMMA ExitKeepsInv ==
  ASSUME KernelInv, NEW p \in Pid, NEW u \in AllPid, ExitProcess(p, u)
  PROVE  KernelInv'
<1> DEFINE e == [kind |-> "exit", pid |-> u, ppid |-> Zero]
<1>1. /\ process' = Orphaned(p) /\ Emit(e)
      /\ unseen' = IF ~fallback /\ Len(events) = MaxEvents THEN unseen \cup {p} ELSE unseen
      /\ UNCHANGED <<fallback, prev, announced, engine>>
  BY DEF ExitProcess
<1>2. StreamTyped /\ e \in Event
  BY KernelBounds, EventFields DEF KernelInv
<1> HIDE DEF e
<1>3. /\ events' \in Seq(Event) /\ Len(events') <= MaxEvents
      /\ \A i \in DOMAIN events : i \in DOMAIN events' /\ events'[i] = events[i]
  BY <1>1, <1>2, EmitAppends DEF StreamTyped
<1>4. process' \in [Pid -> AllPid \cup {"down"}]
  BY <1>1, <1>2, KernelBounds DEF Orphaned, StreamTyped
<1>5. StreamTyped'
  BY <1>1, <1>2, <1>3, <1>4 DEF StreamTyped, engine
<1>6. ASSUME fallback, NEW r \in known, Watched(r) \/ r \in unseen \/ HasExit(events, r)
      PROVE  Watched(r)' \/ r \in unseen' \/ HasExit(events', r)
  <2>1. HasExit(events, r) => HasExit(events', r)
    BY <1>3 DEF HasExit
  <2>2. Watched(r) => Watched(r)'
    BY <1>1, <1>6 DEF Watched
  <2>3. unseen' = unseen
    BY <1>1, <1>6
  <2> QED BY <1>6, <2>1, <2>2, <2>3
<1> QED BY <1>1, <1>5, <1>6, KernelStepInv

LEMMA ScanKeepsInv ==
  ASSUME KernelInv, Scan
  PROVE  KernelInv'
<1> USE KernelBounds
<1>1. /\ process \in [Pid -> AllPid \cup {"down"}] /\ prev \subseteq Pid /\ events \in Seq(Event)
      /\ StreamTyped
  BY DEF KernelInv, StreamTyped
<1>2. PICK listed \in {Running, {}} :
       \E new \in Listings(listed \ prev), old \in Listings(Gone(listed)) :
         /\ events' = events \o [i \in DOMAIN new |-> [kind |-> "exec", pid |-> new[i],
                                                       ppid |-> process[new[i]]]]
                             \o [i \in DOMAIN old |-> [kind |-> "exit", pid |-> old[i],
                                                       ppid |-> Zero]]
         /\ Len(events') <= MaxEvents
         /\ prev' = listed
         /\ unseen' = unseen \ listed
  BY DEF Scan
<1>3. PICK new \in Listings(listed \ prev), old \in Listings(Gone(listed)) :
         /\ events' = events \o [i \in DOMAIN new |-> [kind |-> "exec", pid |-> new[i],
                                                       ppid |-> process[new[i]]]]
                             \o [i \in DOMAIN old |-> [kind |-> "exit", pid |-> old[i],
                                                       ppid |-> Zero]]
         /\ Len(events') <= MaxEvents
         /\ prev' = listed
         /\ unseen' = unseen \ listed
  BY <1>2
<1>4. listed \in SUBSET Pid /\ \A r \in listed : process[r] \in AllPid
  BY <1>1, <1>2 DEF Running
<1> DEFINE execs == [i \in DOMAIN new |-> [kind |-> "exec", pid |-> new[i], ppid |-> process[new[i]]]]
           exits == [i \in DOMAIN old |-> [kind |-> "exit", pid |-> old[i], ppid |-> Zero]]
           n == Cardinality(listed \ prev)
           k == Cardinality(Gone(listed))
<1>5. n \in Nat /\ new \in [1..n -> listed \ prev]
  BY <1>4, ListingsAreComplete
<1>6. /\ k \in Nat /\ old \in [1..k -> Gone(listed)]
      /\ \A x \in Gone(listed) : \E i \in 1..k : old[i] = x
  <2>1. Gone(listed) \in SUBSET Pid
    BY <1>1 DEF Gone
  <2> QED BY <2>1, ListingsAreComplete
<1>7. execs \in Seq(Event)
  <2> HIDE DEF n
  <2>1. execs \in [1..n -> Event]
    BY <1>4, <1>5 DEF Event
  <2> HIDE DEF execs
  <2> QED BY <1>5, <2>1
<1>8. exits \in Seq(Event) /\ Len(exits) = k /\ \A i \in 1..k : exits[i].kind = "exit" /\ exits[i].pid = old[i]
  <2> HIDE DEF k
  <2>1. exits \in [1..k -> Event] /\ \A i \in 1..k : exits[i].kind = "exit" /\ exits[i].pid = old[i]
    BY <1>1, <1>6 DEF Event, Gone
  <2> HIDE DEF exits
  <2> QED BY <1>6, <2>1
<1>9. events' = (events \o execs) \o exits
  BY <1>3
<1> HIDE DEF execs, exits, n, k
<1>10. events \o execs \in Seq(Event) /\ Len(events) \in Nat
       /\ \A i \in 1..Len(events) : i \in 1..Len(events \o execs) /\ (events \o execs)[i] = events[i]
  BY <1>1, <1>7
<1> DEFINE first == events \o execs
<1> HIDE DEF first
<1>11. /\ events' \in Seq(Event) /\ DOMAIN events' = 1..(Len(first) + k) /\ Len(first) \in Nat
       /\ \A i \in 1..Len(first) : events'[i] = first[i]
       /\ \A i \in 1..k : events'[Len(first) + i] = exits[i]
  <2>1. first \in Seq(Event) /\ events' = first \o exits
    BY <1>9, <1>10 DEF first
  <2>2. /\ events' \in Seq(Event) /\ Len(events') = Len(first) + k /\ Len(first) \in Nat
        /\ \A i \in 1..(Len(first) + k) : events'[i] = IF i <= Len(first) THEN first[i]
                                                       ELSE exits[i - Len(first)]
    <3>1. exits \in Seq(Event) /\ first \in Seq(Event) /\ Len(exits) = k /\ Len(first) \in Nat
      BY <1>8, <2>1
    <3>2. /\ first \o exits \in Seq(Event) /\ Len(first \o exits) = Len(first) + Len(exits)
          /\ \A i \in 1..(Len(first) + Len(exits)) :
                (first \o exits)[i] = IF i <= Len(first) THEN first[i] ELSE exits[i - Len(first)]
      BY <3>1, ConcatProperties
    <3> QED BY <2>1, <3>1, <3>2
  <2>3. ASSUME NEW i \in 1..k PROVE events'[Len(first) + i] = exits[i]
    <3>1. /\ Len(first) + i \in 1..(Len(first) + k) /\ ~(Len(first) + i <= Len(first))
          /\ Len(first) + i - Len(first) = i
      BY <1>6, <2>2
    <3> QED BY <2>2, <3>1
  <2> QED BY <1>6, <2>2, <2>3
<1>12. StreamTyped'
  <2>1. UNCHANGED <<process, fallback, announced, engine>>
    BY DEF Scan
  <2> QED BY <1>1, <1>3, <1>4, <1>11, <2>1 DEF StreamTyped, engine
<1>13. ASSUME NEW r \in known, Watched(r) \/ r \in unseen \/ HasExit(events, r)
       PROVE  Watched(r)' \/ r \in unseen' \/ HasExit(events', r)
  <2>1. fallback /\ fallback' = fallback
    BY DEF Scan
  <2>2. CASE HasExit(events, r)
    <3>1. PICK i \in 1..Len(events) : events[i].kind = "exit" /\ events[i].pid = r
      BY <1>1, <2>2 DEF HasExit
    <3>2. i \in DOMAIN events' /\ events'[i] = events[i]
      BY <1>6, <1>10, <1>11, <3>1 DEF first
    <3> QED BY <3>1, <3>2 DEF HasExit
  <2>3. CASE r \in unseen
    BY <1>3, <2>1, <2>3 DEF Watched
  <2>4. CASE Watched(r)
    <3>1. r \in prev
      BY <2>1, <2>4 DEF Watched
    <3>2. CASE r \in listed
      BY <1>3, <2>1, <3>2 DEF Watched
    <3>3. CASE r \notin listed
      <4>1. PICK i \in 1..k : old[i] = r
        BY <1>6, <3>1, <3>3 DEF Gone
      <4>2. Len(first) + i \in DOMAIN events'
        BY <1>6, <1>11
      <4>3. events'[Len(first) + i].kind = "exit" /\ events'[Len(first) + i].pid = r
        BY <1>8, <1>11, <4>1
      <4> QED BY <4>2, <4>3 DEF HasExit
    <3> QED BY <3>2, <3>3
  <2> QED BY <1>13, <2>2, <2>3, <2>4
<1>14. UNCHANGED <<fallback, engine>>
  BY DEF Scan
<1> QED BY <1>12, <1>13, <1>14, KernelStepInv

LEMMA TakeAnnouncementKeepsInv ==
  ASSUME KernelInv, TakeAnnouncement
  PROVE  KernelInv'
<1> USE KernelBounds
<1> DEFINE p == Head(announced)
<1>1. /\ announced # <<>> /\ announced' = Tail(announced) /\ RegisterAgent(p, Zero)
      /\ unseen' = IF Watched(p) THEN unseen ELSE unseen \cup {p}
      /\ UNCHANGED <<process, fallback, prev, events>>
  BY DEF TakeAnnouncement
<1>2. StreamTyped /\ IdentitiesSound /\ KnownAreWatched
  BY DEF KernelInv
<1>3. p \in Pid /\ announced' \in Seq(Pid) /\ Len(announced') <= MaxAnnounced
  BY <1>1, <1>2 DEF StreamTyped
<1> HIDE DEF p
<1>4. IdentitiesSound'
  BY <1>1, <1>2, <1>3, RegisterSound
<1>5. known' = known \cup {p}
  BY <1>1 DEF RegisterAgent
<1>6. StreamTyped'
  BY <1>1, <1>2, <1>3, <1>5 DEF StreamTyped
<1>7. KnownAreWatched'
  <2>1. \A r : Watched(r)' <=> Watched(r)
    BY <1>1 DEF Watched, Running
  <2> QED BY <1>1, <1>2, <1>5, <2>1 DEF KnownAreWatched, Told
<1> QED BY <1>4, <1>6, <1>7 DEF KernelInv

LEMMA TakeEventKeepsInv ==
  ASSUME KernelInv, TakeEvent
  PROVE  KernelInv'
<1> USE KernelBounds
<1> DEFINE e == Head(events)
<1>1. /\ events # <<>> /\ events' = Tail(events)
      /\ CASE e.kind = "exec" -> RecordExec(e.pid, e.ppid)
           [] e.kind = "exit" -> RecordExit(e.pid)
           [] e.kind = "fork" -> RecordFork(e.pid, e.ppid)
      /\ UNCHANGED <<process, fallback, prev, announced, unseen>>
  BY DEF TakeEvent
<1>2. StreamTyped /\ IdentitiesSound /\ KnownAreWatched
  BY DEF KernelInv
<1>3. /\ e \in Event /\ e = events[1] /\ events' \in Seq(Event) /\ Len(events') <= MaxEvents
      /\ \A i \in DOMAIN events : i = 1 \/ (i - 1 \in DOMAIN events' /\ events'[i - 1] = events[i])
  BY <1>1, <1>2 DEF StreamTyped
<1> HIDE DEF e
<1>4. e.kind \in {"exec", "exit", "fork"} /\ e.pid \in AllPid /\ e.ppid \in AllPid
  BY <1>3 DEF Event
<1>5. \/ NewIdentity(e.pid, e.ppid) /\ e.kind # "exit" /\ known' = known
      \/ UNCHANGED <<pidMap, ids>> /\ e.kind # "exit" /\ known' = known
      \/ UNCHANGED <<pidMap, ids>> /\ e.kind = "exit" /\ known' = known \ {e.pid}
  BY <1>1, <1>4 DEF RecordExec, RecordExit, RecordFork
<1>6. IdentitiesSound'
  BY <1>2, <1>4, <1>5, NewIdentitySound, SameIdentities
<1>7. StreamTyped'
  BY <1>1, <1>2, <1>3, <1>5 DEF StreamTyped
<1>8. KnownAreWatched'
  <2>1. \A r : Watched(r)' <=> Watched(r)
    BY <1>1 DEF Watched, Running
  <2>2. ASSUME fallback', NEW r \in known'
        PROVE  Watched(r)' \/ r \in unseen' \/ HasExit(events', r)
    <3>1. r \in known /\ (e.kind = "exit" => r # e.pid)
      BY <1>5
    <3>2. CASE Watched(r) \/ r \in unseen
      BY <1>1, <2>1, <3>2
    <3>3. CASE HasExit(events, r)
      <4>1. PICK i \in DOMAIN events : events[i].kind = "exit" /\ events[i].pid = r
        BY <3>3 DEF HasExit
      <4>2. i # 1
        BY <1>3, <3>1, <4>1
      <4> QED BY <1>3, <4>1, <4>2 DEF HasExit
    <3> QED BY <1>1, <1>2, <2>2, <3>1, <3>2, <3>3 DEF KnownAreWatched, Told, HasExit
  <2> QED BY <2>2 DEF KnownAreWatched, Told, HasExit
<1> QED BY <1>6, <1>7, <1>8 DEF KernelInv

LEMMA KernelNextInv == KernelInv /\ [KernelNext]_kernelVars => KernelInv'
<1> SUFFICES ASSUME KernelInv, [KernelNext]_kernelVars PROVE KernelInv'
  OBVIOUS
<1> USE KernelBounds
<1>1. StreamTyped
  BY DEF KernelInv
<1>2. ASSUME NEW p \in Pid, AnnounceProcess(p) PROVE KernelInv'
  <2>1. announced' \in Seq(Pid) /\ Len(announced') <= MaxAnnounced
    BY <1>1, <1>2 DEF AnnounceProcess, StreamTyped
  <2>2. StreamTyped'
    BY <1>1, <1>2, <2>1 DEF AnnounceProcess, StreamTyped, engine
  <2> QED BY <1>2, <2>2, KernelStepInv DEF AnnounceProcess, Watched, Running
<1>3. ASSUME NEW q \in Pid, Clone(q) PROVE KernelInv'
  <2> DEFINE e == [kind |-> "fork", pid |-> Zero, ppid |-> q]
  <2>1. e \in Event /\ events' = Append(events, e) /\ Len(events) < MaxEvents
        /\ UNCHANGED <<process, fallback, prev, announced, engine, unseen>>
    BY <1>3, EventFields DEF Clone
  <2> HIDE DEF e
  <2>2. /\ events' \in Seq(Event) /\ Len(events') <= MaxEvents
        /\ \A i \in DOMAIN events : i \in DOMAIN events' /\ events'[i] = events[i]
    BY <1>1, <2>1 DEF StreamTyped
  <2>3. StreamTyped'
    BY <1>1, <2>1, <2>2 DEF StreamTyped, engine
  <2>4. \A r : HasExit(events, r) => HasExit(events', r)
    BY <2>2 DEF HasExit
  <2> QED BY <2>1, <2>3, <2>4, KernelStepInv DEF Watched, Running
<1>4. ASSUME NEW kind \in {"exec", "exit"}, NEW u \in AllPid, OtherRecord(kind, u) PROVE KernelInv'
  <2> DEFINE e == [kind |-> kind, pid |-> u, ppid |-> Zero]
  <2>1. e \in Event /\ events' = Append(events, e) /\ Len(events) < MaxEvents /\ ~fallback
        /\ UNCHANGED <<process, fallback, prev, announced, engine, unseen>>
    BY <1>4, EventFields DEF OtherRecord
  <2> HIDE DEF e
  <2>2. StreamTyped'
    BY <1>1, <2>1 DEF StreamTyped, engine
  <2> QED BY <2>1, <2>2, KernelStepInv
<1>5. CASE UNCHANGED kernelVars
  <2>1. StreamTyped'
    BY <1>1, <1>5 DEF kernelVars, StreamTyped
  <2> QED BY <1>5, <2>1, KernelStepInv DEF kernelVars, engine, Watched, Running
<1> QED BY <1>2, <1>3, <1>4, <1>5, StartKeepsInv, ExitKeepsInv, ScanKeepsInv, TakeAnnouncementKeepsInv,
           TakeEventKeepsInv DEF KernelNext

LEMMA KernelInvHolds == KernelSpec => []KernelInv
BY KernelInitInv, KernelNextInv, PTL DEF KernelSpec

(* Type correctness of the sensor and the identities; in it, that an       *)
(* identity's parent is an earlier one, and its depth the parent's and one.*)
THEOREM KernelTypes == KernelSpec => []KernelTypeOK
BY KernelInvIsTyped, KernelInvHolds, PTL

(* For any processes and channels of any size, with the scans: whoever     *)
(* counts as an agent is watched, has its end on its way, or was missed.   *)
THEOREM AgentsAreWatched == KernelSpec => []KnownAreWatched
<1>1. KernelInv => KnownAreWatched
  BY DEF KernelInv
<1> QED BY <1>1, KernelInvHolds, PTL
=============================================================================
