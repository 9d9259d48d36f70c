--------------------------- MODULE InductionTheorems ---------------------------
(***************************************************************************)
(* Induction by sets.  The library's induction theorems take a predicate;  *)
(* here it is the set of the values it holds of, so that the backends can  *)
(* use them: over the natural numbers, over finite sets, and over the      *)
(* folds of the community modules; and the recursive functions on the      *)
(* natural numbers.  All rest on the well-foundedness of these (WFMin,     *)
(* NatLessThanWellFounded).                                                *)
(***************************************************************************)
EXTENDS WellFoundedInduction, FiniteSetTheorems, FiniteSetsExt, TLAPS

(* A set of natural numbers with 0 and with the successor of each of its   *)
(* elements is the set of all.                                             *)
LEMMA NatSetInduction ==
  ASSUME NEW S \in SUBSET Nat, 0 \in S, \A n \in S : n + 1 \in S
  PROVE  S = Nat
<1> DEFINE T == Nat \ S
           R == OpToRel(<, Nat)
<1>1. SUFFICES ASSUME T # {} PROVE FALSE
  OBVIOUS
<1>2. IsWellFoundedOn(R, Nat)
  BY NatLessThanWellFounded
<1>3. T \subseteq Nat
  OBVIOUS
<1> HIDE DEF R
<1>4. PICK x \in T : \A y \in T : ~(<<y, x>> \in R)
  <2> HIDE DEF T
  <2> QED BY <1>1, <1>2, <1>3, WFMin
<1>5. x \in Nat /\ x \notin S /\ x # 0
  OBVIOUS
<1>6. x - 1 \in T
  BY <1>5
<1>7. <<x - 1, x>> \in R
  BY <1>5 DEF R, OpToRel
<1> QED BY <1>4, <1>6, <1>7

(* Each nonempty set of numbers up to n has a greatest element.            *)
LEMMA MaxOfBounded ==
  ASSUME NEW n \in Nat, NEW s \in SUBSET (1..n), s # {}
  PROVE  Max(s) \in s /\ \A y \in s : y <= Max(s)
<1> DEFINE K == {k \in Nat : \A t \in SUBSET (1..k) : t # {} => \E x \in t : \A y \in t : x >= y}
<1>1. 0 \in K
  <2>1. \A t \in SUBSET (1..0) : t = {}
    OBVIOUS
  <2> QED BY <2>1
<1>2. ASSUME NEW k \in K PROVE k + 1 \in K
  <2> SUFFICES ASSUME NEW t \in SUBSET (1..(k + 1)), t # {}
               PROVE  \E x \in t : \A y \in t : x >= y
    OBVIOUS
  <2>1. CASE k + 1 \in t
    BY <2>1
  <2>2. CASE k + 1 \notin t
    <3>1. t \in SUBSET (1..k)
      BY <2>2
    <3> QED BY <3>1
  <2> QED BY <2>1, <2>2
<1>3. K = Nat
  <2>1. K \in SUBSET Nat
    OBVIOUS
  <2> HIDE DEF K
  <2> QED BY <1>1, <1>2, <2>1, NatSetInduction
<1>4. \E x \in s : \A y \in s : x >= y
  BY <1>3
<1> QED BY <1>4 DEF Max

-----------------------------------------------------------------------------
(* MapThenFoldSet as an equation: g is the fold of each subset of S.       *)
IsFold(g, S, base, pick, step) ==
  g = [s \in SUBSET S |-> IF s = {} THEN base ELSE step[<<pick[s], g[s \ {pick[s]}]>>]]

Picks(S, pick) == \A s \in SUBSET S : s # {} => pick[s] \in s

(* There is such a function, and it stays in every set V the base is in    *)
(* and no step leaves.                                                     *)
LEMMA FoldExists ==
  ASSUME NEW S, IsFiniteSet(S), NEW V, NEW base \in V,
         NEW pick, Picks(S, pick), NEW step \in [S \X V -> V]
  PROVE  \E g \in [SUBSET S -> V] : IsFold(g, S, base, pick, step)
<1> DEFINE Up(n) == {s \in SUBSET S : Cardinality(s) <= n}
           Next(g, s) == IF s = {} THEN base ELSE step[<<pick[s], g[s \ {pick[s]}]>>]
           Done == {n \in Nat : \E g \in [Up(n) -> V] : g = [s \in Up(n) |-> Next(g, s)]}
<1>1. \A s \in SUBSET S : /\ IsFiniteSet(s) /\ Cardinality(s) \in Nat
                          /\ Cardinality(s) <= Cardinality(S)
                          /\ (Cardinality(s) = 0 <=> s = {})
  BY FS_Subset, FS_CardinalityType, FS_EmptySet
<1>2. \A s \in SUBSET S : s # {} => /\ s \ {pick[s]} \in SUBSET S
                                   /\ Cardinality(s \ {pick[s]}) = Cardinality(s) - 1
  BY <1>1, FS_RemoveElement DEF Picks
<1>3. ASSUME NEW n \in Nat, NEW m \in Nat, m <= n + 1, NEW g \in [Up(n) -> V], NEW s \in Up(m)
      PROVE  Next(g, s) \in V
  <2>1. CASE s = {}
    BY <2>1
  <2>2. CASE s # {}
    <3>1. pick[s] \in S /\ s \ {pick[s]} \in Up(n)
      BY <1>1, <1>2, <1>3, <2>2
    <3> QED BY <2>2, <3>1
  <2> QED BY <2>1, <2>2
<1>4. 0 \in Done
  <2> DEFINE g == [s \in Up(0) |-> base]
  <2>1. \A s \in Up(0) : s = {}
    BY <1>1
  <2>2. g \in [Up(0) -> V] /\ g = [s \in Up(0) |-> Next(g, s)]
    BY <2>1
  <2> QED BY <2>2
<1>5. ASSUME NEW n \in Done PROVE n + 1 \in Done
  <2> DEFINE W == Up(n + 1)
  <2>1. n \in Nat /\ n + 1 \in Nat
    OBVIOUS
  <2>2. PICK g \in [Up(n) -> V] : g = [s \in Up(n) |-> Next(g, s)]
    OBVIOUS
  <2> DEFINE h == [s \in W |-> Next(g, s)]
  <2>3. h \in [W -> V]
    <3>1. \A s \in W : Next(g, s) \in V
      <4> HIDE DEF Next, Up
      <4> QED BY <1>3, <2>1, n + 1 <= n + 1
    <3> HIDE DEF Next, W
    <3> QED BY <3>1
  <2>4. \A s \in Up(n) : s \in W /\ h[s] = g[s]
    <3>1. \A s \in Up(n) : s \in W
      BY <1>1, <2>1
    <3> HIDE DEF Up, W, Next
    <3> QED BY <2>2, <3>1
  <2>5. ASSUME NEW s \in W PROVE h[s] = Next(h, s)
    <3>1. CASE s = {}
      BY <3>1
    <3>2. CASE s # {}
      <4>1. s \ {pick[s]} \in Up(n)
        BY <1>1, <1>2, <2>1, <3>2
      <4>2. h[s \ {pick[s]}] = g[s \ {pick[s]}]
        BY <2>4, <4>1
      <4>3. h[s] = Next(g, s)
        OBVIOUS
      <4> HIDE DEF h
      <4> QED BY <4>2, <4>3
    <3> QED BY <3>1, <3>2
  <2>6. h = [s \in W |-> Next(h, s)]
    <3>1. h = [s \in W |-> h[s]]
      OBVIOUS
    <3> HIDE DEF h, Next
    <3> QED BY <2>5, <3>1
  <2> HIDE DEF h, Next, W
  <2> QED BY <2>1, <2>3, <2>6 DEF W
<1>6. Done = Nat
  <2>1. Done \in SUBSET Nat
    OBVIOUS
  <2> HIDE DEF Done
  <2> QED BY <1>4, <1>5, <2>1, NatSetInduction
<1>7. Up(Cardinality(S)) = SUBSET S /\ Cardinality(S) \in Done
  BY <1>1, <1>6
<1>8. PICK g \in [Up(Cardinality(S)) -> V] : g = [s \in Up(Cardinality(S)) |-> Next(g, s)]
  BY <1>7
<1>9. g \in [SUBSET S -> V] /\ g = [s \in SUBSET S |-> Next(g, s)]
  <2> HIDE DEF Up, Next
  <2> QED BY <1>7, <1>8
<1> QED BY <1>9 DEF IsFold

(* A family of subsets that has the empty set, and with each set without   *)
(* the element that is picked the set itself, has all of them.             *)
Closed(S, F, pick) == \A s \in SUBSET S : s # {} /\ s \ {pick[s]} \in F => s \in F

LEMMA FoldInduction ==
  ASSUME NEW S, IsFiniteSet(S), NEW pick, Picks(S, pick),
         NEW F, {} \in F, Closed(S, F, pick)
  PROVE  SUBSET S \subseteq F
<1> DEFINE K == {n \in Nat : \A s \in SUBSET S : Cardinality(s) = n => s \in F}
<1>1. \A s \in SUBSET S : /\ IsFiniteSet(s) /\ Cardinality(s) \in Nat
                          /\ (Cardinality(s) = 0 <=> s = {})
  BY FS_Subset, FS_CardinalityType, FS_EmptySet
<1>2. 0 \in K
  BY <1>1
<1>3. ASSUME NEW n \in K PROVE n + 1 \in K
  <2> SUFFICES ASSUME NEW s \in SUBSET S, Cardinality(s) = n + 1 PROVE s \in F
    OBVIOUS
  <2>1. s # {} /\ pick[s] \in s
    BY <1>1 DEF Picks
  <2>2. s \ {pick[s]} \in SUBSET S /\ Cardinality(s \ {pick[s]}) = n
    BY <1>1, <2>1, FS_RemoveElement
  <2> QED BY <2>1, <2>2 DEF Closed
<1>4. K = Nat
  <2>1. K \in SUBSET Nat
    OBVIOUS
  <2> HIDE DEF K
  <2> QED BY <1>2, <1>3, <2>1, NatSetInduction
<1> QED BY <1>1, <1>4

(* Two functions that are determined, at each subset, by their values at   *)
(* the subset without the element that is picked, are equal.               *)
SameStep(S, g, h, pick) ==
  \A s \in SUBSET S : s # {} /\ g[s \ {pick[s]}] = h[s \ {pick[s]}] => g[s] = h[s]

Agree(S, g, h) == \A s \in SUBSET S : g[s] = h[s]

LEMMA FoldUnique ==
  ASSUME NEW S, IsFiniteSet(S), NEW g, NEW h, g[{}] = h[{}],
         NEW pick, Picks(S, pick), SameStep(S, g, h, pick)
  PROVE  Agree(S, g, h)
<1> DEFINE F == {s \in SUBSET S : g[s] = h[s]}
<1>1. {} \in F /\ Closed(S, F, pick)
  BY DEF SameStep, Closed, Picks
<1>2. SUBSET S \subseteq F
  <2> HIDE DEF F
  <2> QED BY <1>1, FoldInduction
<1> QED BY <1>2 DEF Agree

-----------------------------------------------------------------------------
(* Recursion over the natural numbers: there is a function that starts with*)
(* base and takes a step from each number to the next.                     *)
IsRecursive(g, base, step) ==
  g = [n \in Nat |-> IF n = 0 THEN base ELSE step[g[n - 1]]]

LEMMA NatRecursion ==
  ASSUME NEW V, NEW base \in V, NEW step \in [V -> V]
  PROVE  \E g \in [Nat -> V] : IsRecursive(g, base, step)
<1> DEFINE UpTo(g, n) == g[0] = base /\ \A m \in 1..n : g[m] = step[g[m - 1]]
           K == {n \in Nat : \E g \in [Nat -> V] : UpTo(g, n)}
           U == {n \in Nat : \A g, h \in [Nat -> V] :
                               UpTo(g, n) /\ UpTo(h, n) => g[n] = h[n]}
<1>1. 0 \in K
  <2> DEFINE g == [m \in Nat |-> base]
  <2>1. g \in [Nat -> V] /\ UpTo(g, 0)
    OBVIOUS
  <2> QED BY <2>1
<1>2. ASSUME NEW n \in K PROVE n + 1 \in K
  <2>1. PICK g \in [Nat -> V] : UpTo(g, n)
    OBVIOUS
  <2> DEFINE h == [m \in Nat |-> IF m = n + 1 THEN step[g[n]] ELSE g[m]]
  <2>2. n \in Nat /\ h \in [Nat -> V]
    OBVIOUS
  <2>3. h[0] = base
    BY <2>1, <2>2
  <2>4. ASSUME NEW m \in 1..(n + 1) PROVE h[m] = step[h[m - 1]]
    <3>1. CASE m = n + 1
      BY <2>2, <3>1
    <3>2. CASE m # n + 1
      <4>1. m \in 1..n /\ m - 1 # n + 1 /\ m \in Nat /\ m - 1 \in Nat
        BY <2>2, <3>2
      <4> QED BY <2>1, <4>1
    <3> QED BY <3>1, <3>2
  <2> HIDE DEF h
  <2> QED BY <2>2, <2>3, <2>4
<1>3. K = Nat
  <2>1. K \in SUBSET Nat
    OBVIOUS
  <2> HIDE DEF K
  <2> QED BY <1>1, <1>2, <2>1, NatSetInduction
<1>4. 0 \in U
  OBVIOUS
<1>5. ASSUME NEW n \in U PROVE n + 1 \in U
  <2> SUFFICES ASSUME NEW g \in [Nat -> V], NEW h \in [Nat -> V],
                      UpTo(g, n + 1), UpTo(h, n + 1)
               PROVE  g[n + 1] = h[n + 1]
    OBVIOUS
  <2>1. n \in Nat /\ n + 1 \in 1..(n + 1) /\ (n + 1) - 1 = n /\ 1..n \subseteq 1..(n + 1)
    OBVIOUS
  <2>2. UpTo(g, n) /\ UpTo(h, n)
    BY <2>1
  <2>3. g[n] = h[n]
    BY <2>2
  <2> QED BY <2>1, <2>3
<1>6. U = Nat
  <2>1. U \in SUBSET Nat
    OBVIOUS
  <2> HIDE DEF U
  <2> QED BY <1>4, <1>5, <2>1, NatSetInduction
<1> DEFINE start(n) == CHOOSE g \in [Nat -> V] : UpTo(g, n)
           f == [n \in Nat |-> start(n)[n]]
<1>7. ASSUME NEW n \in Nat PROVE start(n) \in [Nat -> V] /\ UpTo(start(n), n)
  <2>1. \E g \in [Nat -> V] : UpTo(g, n)
    BY <1>3
  <2> HIDE DEF UpTo
  <2> QED BY <2>1
<1>8. f \in [Nat -> V] /\ f[0] = base
  <2> HIDE DEF start
  <2> QED BY <1>7
<1>9. ASSUME NEW n \in Nat \ {0} PROVE f[n] = step[f[n - 1]]
  <2>1. n - 1 \in Nat /\ n \in 1..n /\ 1..(n - 1) \subseteq 1..n
    OBVIOUS
  <2> HIDE DEF start
  <2>2. /\ start(n) \in [Nat -> V] /\ UpTo(start(n), n)
        /\ start(n - 1) \in [Nat -> V] /\ UpTo(start(n - 1), n - 1)
    BY <1>7, <2>1
  <2>3. UpTo(start(n), n - 1)
    BY <2>1, <2>2
  <2>4. start(n)[n - 1] = start(n - 1)[n - 1]
    <3> HIDE DEF UpTo
    <3> QED BY <1>6, <2>1, <2>2, <2>3
  <2>5. start(n)[n] = step[start(n)[n - 1]]
    BY <2>1, <2>2
  <2> QED BY <2>1, <2>4, <2>5
<1>10. f = [n \in Nat |-> IF n = 0 THEN base ELSE step[f[n - 1]]]
  <2>1. f = [n \in Nat |-> f[n]]
    OBVIOUS
  <2> HIDE DEF f
  <2> QED BY <1>8, <1>9, <2>1
<1> HIDE DEF f
<1> QED BY <1>8, <1>10 DEF IsRecursive
=============================================================================
