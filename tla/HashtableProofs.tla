-------------------------- MODULE HashtableProofs --------------------------
(***************************************************************************)
(* For one thread, and for any paths, hash values, number of buckets and   *)
(* length of chains: the lists of the path hash table stay sound, its      *)
(* counts exact, and a lookup finds just the entries there are, through    *)
(* every doubling of the buckets.                                          *)
(***************************************************************************)
EXTENDS Hashtable, FiniteSetTheorems, WellFoundedInduction, TLAPS

-----------------------------------------------------------------------------
(* Induction over numbers, for sets: the least number outside the set.     *)

\* A set of naturals that is not empty has a least element.
LEMMA Least ==
  ASSUME NEW S, S \subseteq Nat, S # {}
  PROVE  \E m \in S : \A n \in S : m <= n
  <1>1. PICK m \in S : \A n \in S : ~ (<<n, m>> \in OpToRel(<, Nat))
    <2> DEFINE R == OpToRel(<, Nat)
    <2>1. IsWellFoundedOn(R, Nat)
      BY NatLessThanWellFounded DEF R
    <2> HIDE DEF R
    <2>2. \E m \in S : \A n \in S : ~ (<<n, m>> \in R)
      BY <2>1, WFMin
    <2> QED BY <2>2 DEF R
  <1>2. \A n \in S : ~ n < m
    <2> SUFFICES ASSUME NEW n \in S, n < m PROVE FALSE
      OBVIOUS
    <2>1. <<n, m>> \in Nat \X Nat /\ <<n, m>>[1] < <<n, m>>[2]
      OBVIOUS
    <2>2. <<n, m>> \in OpToRel(<, Nat)
      BY <2>1 DEF OpToRel
    <2> QED BY <1>1, <2>2
  <1> QED BY <1>2

\* A set that has zero and with each number the next one has every number.
LEMMA Induction ==
  ASSUME NEW T, 0 \in T, \A n \in Nat : n \in T => n + 1 \in T
  PROVE  \A n \in Nat : n \in T
  <1> SUFFICES ASSUME NEW n \in Nat, n \notin T PROVE FALSE
    OBVIOUS
  <1>1. PICK m \in Nat \ T : \A k \in Nat \ T : m <= k
    <2> DEFINE S == Nat \ T
    <2>1. S \subseteq Nat /\ S # {}
      OBVIOUS
    <2> HIDE DEF S
    <2>2. \E m \in S : \A k \in S : m <= k
      BY <2>1, Least
    <2> QED BY <2>2 DEF S
  <1>2. m \in Nat /\ m # 0 /\ m - 1 \in Nat /\ (m - 1) + 1 = m
    OBVIOUS
  <1>3. m - 1 \in T
    BY <1>1, <1>2
  <1> QED BY <1>2, <1>3

\* A bounded set of numbers that is not empty has a largest and a least element.
LEMMA Extremes ==
  ASSUME NEW n \in Nat, NEW T \in SUBSET (1..n), T # {}
  PROVE  /\ Max(T) \in T /\ \A k \in T : k <= Max(T)
         /\ Min(T) \in T /\ \A k \in T : Min(T) <= k
  <1>1. \E x \in T : \A k \in T : x <= k
    <2>1. T \subseteq Nat
      OBVIOUS
    <2> QED BY <2>1, Least
  <1>2. \E x \in T : \A k \in T : x >= k
    <2> DEFINE D == {d \in Nat : n - d \in T}
    <2>1. \A k \in T : n - k \in D
      OBVIOUS
    <2>2. D \subseteq Nat /\ D # {}
      BY <2>1
    <2> HIDE DEF D
    <2>3. PICK d \in D : \A e \in D : d <= e
      BY <2>2, Least
    <2>4. n - d \in T /\ d \in Nat
      BY DEF D
    <2>5. \A k \in T : n - d >= k
      BY <2>1, <2>3, <2>4
    <2> QED BY <2>4, <2>5
  <1>3. Max(T) \in T /\ \A k \in T : Max(T) >= k
    BY <1>2 DEF Max
  <1>4. Min(T) \in T /\ \A k \in T : Min(T) <= k
    BY <1>1 DEF Min
  <1> QED BY <1>3, <1>4

-----------------------------------------------------------------------------
(* Lists: the set S of their entries in the order of the ranks r, with     *)
(* links next and prev.                                                    *)

Ranked(S, r) == r \in [Paths -> Int] /\ \A p, q \in S : r[p] = r[q] => p = q

IsFirst(S, r, x) ==
  \/ x = Null /\ S = {}
  \/ x \in S /\ \A q \in S : r[x] <= r[q]

IsLast(S, r, x) ==
  \/ x = Null /\ S = {}
  \/ x \in S /\ \A q \in S : r[q] <= r[x]

IsNext(S, r, p, x) ==
  \/ x = Null /\ \A q \in S : r[q] <= r[p]
  \/ x \in S /\ r[p] < r[x] /\ \A q \in S : r[q] <= r[p] \/ r[x] <= r[q]

IsPrev(S, r, p, x) ==
  \/ x = Null /\ \A q \in S : r[p] <= r[q]
  \/ x \in S /\ r[x] < r[p] /\ \A q \in S : r[q] <= r[x] \/ r[p] <= r[q]

IsChain(S, r, first, next) ==
  Ranked(S, r) /\ IsFirst(S, r, first) /\ \A p \in S : IsNext(S, r, p, next[p])

\* w is the list as a sequence.
Lists(w, S, r) ==
  /\ Len(w) \in Nat /\ w \in [1..Len(w) -> S]
  /\ \A j, k \in 1..Len(w) : j < k => r[w[j]] < r[w[k]]
  /\ \A p \in S : \E k \in 1..Len(w) : w[k] = p
  /\ Len(w) = Cardinality(S)

-----------------------------------------------------------------------------
(* What Walk computes.                                                     *)

\* The entry at each place, as Walk defines it.
At1(next, start, f, k) ==
  IF k = 1 THEN start ELSE IF f[k - 1] = Null THEN Null ELSE next[f[k - 1]]

\* The recursion of Walk has a solution.
LEMMA PlacesExist ==
  ASSUME NEW next, NEW start
  PROVE  \A n \in Nat : \E f : f = [k \in 1..n |-> At1(next, start, f, k)]
  <1> DEFINE T == {n \in Nat : \E f : f = [k \in 1..n |-> At1(next, start, f, k)]}
  <1>1. 0 \in T
    <2> DEFINE f == [k \in 1..0 |-> Null]
    <2>1. f = [k \in 1..0 |-> At1(next, start, f, k)]
      OBVIOUS
    <2> QED BY <2>1
  <1>2. ASSUME NEW n \in Nat, n \in T PROVE n + 1 \in T
    <2>1. PICK f : f = [k \in 1..n |-> At1(next, start, f, k)]
      BY <1>2
    <2> DEFINE g == [k \in 1..(n + 1) |-> IF k = n + 1 THEN At1(next, start, f, k) ELSE f[k]]
    <2>2. \A k \in 1..(n + 1) : At1(next, start, g, k) = At1(next, start, f, k)
      <3> SUFFICES ASSUME NEW k \in 1..(n + 1), k # 1 PROVE g[k - 1] = f[k - 1]
        BY DEF At1
      <3> QED OBVIOUS
    <2>3. \A k \in 1..n : f[k] = At1(next, start, f, k)
      BY <2>1
    <2>4. \A k \in 1..(n + 1) : g[k] = At1(next, start, g, k)
      <3> SUFFICES ASSUME NEW k \in 1..(n + 1) PROVE g[k] = At1(next, start, f, k)
        BY <2>2
      <3>1. CASE k = n + 1
        BY <3>1
      <3>2. CASE k # n + 1
        <4>1. k \in 1..n
          BY <3>2
        <4> QED BY <3>2, <4>1, <2>3
      <3> QED BY <3>1, <3>2
    <2> HIDE DEF g
    <2>5. g = [k \in 1..(n + 1) |-> g[k]]
      BY DEF g
    <2>6. g = [k \in 1..(n + 1) |-> At1(next, start, g, k)]
      BY <2>4, <2>5
    <2> QED BY <2>6
  <1> HIDE DEF T
  <1>3. \A n \in Nat : n \in T
    BY <1>1, <1>2, Induction
  <1> QED BY <1>3 DEF T

IsWalk(next, start, n, at) ==
  /\ at = [k \in 1..n |-> at[k]]
  /\ \A k \in 1..n : at[k] = At1(next, start, at, k)
  /\ Walk(next, start) = [k \in 1..Cardinality({j \in 1..n : at[j] # Null}) |-> at[k]]

\* Walk lists the entries at its places, up to the first Null.
LEMMA WalkPlaces ==
  ASSUME NEW next, NEW start, NEW n, n = Cardinality(Paths) + 1
  PROVE  \E at : IsWalk(next, start, n, at)
  <1> DEFINE at == CHOOSE at : at = [k \in 1..n |->
                     IF k = 1 THEN start
                     ELSE IF at[k - 1] = Null THEN Null ELSE next[at[k - 1]]]
  <1>1. n \in Nat
    BY FS_CardinalityType, HashAssumption
  <1>2. \E f : f = [k \in 1..n |-> At1(next, start, f, k)]
    BY <1>1, PlacesExist
  <1>3. at = [k \in 1..n |-> At1(next, start, at, k)]
    BY <1>2 DEF At1
  <1>4. Walk(next, start) = [k \in 1..Cardinality({j \in DOMAIN at : at[j] # Null}) |-> at[k]]
    BY DEF Walk
  <1> HIDE DEF at
  <1>5. /\ DOMAIN at = 1..n /\ at = [k \in 1..n |-> at[k]]
        /\ \A k \in 1..n : at[k] = At1(next, start, at, k)
    BY <1>3
  <1>6. Walk(next, start) = [k \in 1..Cardinality({j \in 1..n : at[j] # Null}) |-> at[k]]
    BY <1>4, <1>5
  <1>7. IsWalk(next, start, n, at)
    BY <1>5, <1>6 DEF IsWalk
  <1> QED BY <1>7

\* From the first entry of a list on, Walk gives the whole list in its order.
LEMMA WalkLists ==
  ASSUME NEW S \in SUBSET Paths, NEW r, NEW first, NEW next,
         IsChain(S, r, first, next)
  PROVE  Lists(Walk(next, first), S, r)
  <1> DEFINE n == Cardinality(Paths)
  <1>0. n \in Nat /\ IsFiniteSet(Paths) /\ Null \notin Paths
    BY FS_CardinalityType, HashAssumption
  <1> HIDE DEF n
  <1>1. PICK at : IsWalk(next, first, n + 1, at)
    <2>1. n + 1 = Cardinality(Paths) + 1
      BY DEF n
    <2> QED BY <2>1, WalkPlaces
  <1>2. \A k \in 1..(n + 1) : at[k] = At1(next, first, at, k)
    BY <1>1 DEF IsWalk
  <1>3. Ranked(S, r) /\ IsFirst(S, r, first) /\ \A p \in S : IsNext(S, r, p, next[p])
    BY DEF IsChain
  <1>4. \A p \in S : r[p] \in Int
    BY <1>3 DEF Ranked
  \* The places hold entries and Null, which ends them.
  <1>5. \A k \in 1..(n + 1) : at[k] \in S \cup {Null}
    <2> DEFINE T == {k \in Nat : k + 1 \in 1..(n + 1) => at[k + 1] \in S \cup {Null}}
    <2>1. 0 \in T
      <3>1. 1 \in 1..(n + 1)
        BY <1>0
      <3>2. at[1] = first
        BY <1>2, <3>1 DEF At1
      <3> QED BY <1>3, <3>2 DEF IsFirst
    <2>2. ASSUME NEW k \in Nat, k \in T PROVE k + 1 \in T
      <3> SUFFICES ASSUME k + 2 \in 1..(n + 1) PROVE at[k + 2] \in S \cup {Null}
        OBVIOUS
      <3>1. at[k + 1] \in S \cup {Null} /\ (k + 2) - 1 = k + 1 /\ k + 2 # 1
        BY <1>0, <2>2
      <3>2. at[k + 2] = IF at[k + 1] = Null THEN Null ELSE next[at[k + 1]]
        BY <1>2, <3>1 DEF At1
      <3> QED BY <1>3, <3>1, <3>2 DEF IsNext
    <2> HIDE DEF T
    <2>3. \A k \in Nat : k \in T
      BY <2>1, <2>2, Induction
    <2> SUFFICES ASSUME NEW k \in 1..(n + 1) PROVE at[k] \in S \cup {Null}
      OBVIOUS
    <2>4. k - 1 \in T /\ (k - 1) + 1 = k
      BY <1>0, <2>3
    <2> QED BY <2>4 DEF T
  <1>6. \A k \in 1..n : at[k + 1] = IF at[k] = Null THEN Null ELSE next[at[k]]
    <2> SUFFICES ASSUME NEW k \in 1..n PROVE at[k + 1] = IF at[k] = Null THEN Null ELSE next[at[k]]
      OBVIOUS
    <2>1. k + 1 \in 1..(n + 1) /\ (k + 1) - 1 = k /\ k + 1 # 1
      BY <1>0
    <2> QED BY <1>2, <2>1 DEF At1
  <1>7. \A k \in 1..n : at[k + 1] # Null => /\ at[k] # Null /\ at[k] \in S /\ at[k + 1] \in S
                                            /\ r[at[k]] < r[at[k + 1]]
    <2> SUFFICES ASSUME NEW k \in 1..n, at[k + 1] # Null
                 PROVE  at[k] # Null /\ at[k] \in S /\ at[k + 1] \in S /\ r[at[k]] < r[at[k + 1]]
      OBVIOUS
    <2>1. k \in 1..(n + 1) /\ k + 1 \in 1..(n + 1)
      BY <1>0
    <2>2. at[k] \in S /\ at[k + 1] = next[at[k]] /\ at[k + 1] \in S
      BY <1>5, <1>6, <2>1
    <2> QED BY <1>0, <1>3, <2>2 DEF IsNext
  \* The ranks grow along the places.
  <1>8. \A j, k \in 1..(n + 1) : j < k /\ at[k] # Null => at[j] # Null /\ r[at[j]] < r[at[k]]
    <2> SUFFICES ASSUME NEW j \in 1..(n + 1)
                 PROVE  \A k \in 1..(n + 1) :
                          j < k /\ at[k] # Null => at[j] # Null /\ r[at[j]] < r[at[k]]
      OBVIOUS
    <2> DEFINE Grown(k) == at[k] # Null => at[j] # Null /\ r[at[j]] < r[at[k]]
               T == {i \in Nat : j + i + 1 \in 1..(n + 1) => Grown(j + i + 1)}
    <2>1. 0 \in T
      <3> SUFFICES ASSUME j + 1 \in 1..(n + 1) PROVE Grown(j + 1)
        OBVIOUS
      <3>1. j \in 1..n
        BY <1>0
      <3> QED BY <1>7, <3>1
    <2>2. ASSUME NEW i \in Nat, i \in T PROVE i + 1 \in T
      <3> SUFFICES ASSUME j + i + 2 \in 1..(n + 1), at[j + i + 2] # Null
                   PROVE  at[j] # Null /\ r[at[j]] < r[at[j + i + 2]]
        OBVIOUS
      <3>1. j + i + 1 \in 1..n /\ j + i + 1 \in 1..(n + 1) /\ (j + i + 1) + 1 = j + i + 2
        BY <1>0
      <3>2. /\ at[j + i + 1] # Null /\ at[j + i + 1] \in S /\ at[j + i + 2] \in S
            /\ r[at[j + i + 1]] < r[at[j + i + 2]]
        BY <1>7, <3>1
      <3>3. at[j] # Null /\ r[at[j]] < r[at[j + i + 1]]
        BY <2>2, <3>1, <3>2
      <3>4. at[j] \in S
        BY <1>5, <3>3
      <3> QED BY <1>4, <3>2, <3>3, <3>4
    <2> HIDE DEF T
    <2>3. \A i \in Nat : i \in T
      BY <2>1, <2>2, Induction
    <2> SUFFICES ASSUME NEW k \in 1..(n + 1), j < k PROVE Grown(k)
      OBVIOUS
    <2>4. k - j - 1 \in Nat /\ j + (k - j - 1) + 1 = k
      BY <1>0
    <2> HIDE DEF Grown
    <2>5. k - j - 1 \in T
      BY <2>3, <2>4
    <2> QED BY <2>4, <2>5 DEF T
  \* So they are different, and the walk comes to an end.
  <1>9. PICK d \in 0..n : \A k \in 1..(n + 1) : at[k] # Null <=> k <= d
    <2> DEFINE D == {k \in 1..(n + 1) : at[k] # Null}
    <2>1. CASE D = {}
      <3>1. \A k \in 1..(n + 1) : at[k] # Null <=> k <= 0
        BY <1>0, <2>1
      <3> QED BY <1>0, <3>1
    <2>2. CASE D # {}
      <3>1. D \in SUBSET (1..(n + 1)) /\ n + 1 \in Nat
        BY <1>0
      <3> DEFINE d == Max(D)
      <3>2. d \in D /\ \A k \in D : k <= d
        <4> HIDE DEF D
        <4> QED BY <2>2, <3>1, Extremes
      <3> HIDE DEF d
      <3>3. \A k \in 1..(n + 1) : at[k] # Null <=> k <= d
        BY <1>8, <3>2
      <3>4. d # n + 1
        <4> SUFFICES ASSUME d = n + 1 PROVE FALSE
          OBVIOUS
        <4>1. at \in [1..(n + 1) -> Paths]
          <5>1. \A k \in 1..(n + 1) : at[k] \in Paths
            BY <1>5, <3>3
          <5>2. at = [k \in 1..(n + 1) |-> at[k]]
            BY <1>1 DEF IsWalk
          <5> QED BY <5>1, <5>2
        <4>2. \A j, k \in 1..(n + 1) : j # k => at[j] # at[k]
          <5> SUFFICES ASSUME NEW j \in 1..(n + 1), NEW k \in 1..(n + 1), j < k PROVE at[j] # at[k]
            BY <1>0
          <5>1. at[k] # Null /\ at[j] # Null /\ at[j] \in S /\ at[k] \in S
            BY <1>5, <3>3
          <5>2. r[at[j]] < r[at[k]]
            BY <1>8, <5>1
          <5> QED BY <1>4, <5>1, <5>2
        <4>3. IsFiniteSet(1..(n + 1)) /\ Cardinality(1..(n + 1)) = n + 1
          BY <1>0, FS_Interval
        <4>4. Cardinality(Paths) < Cardinality(1..(n + 1))
          BY <1>0, <4>3 DEF n
        <4>5. \E j, k \in 1..(n + 1) : j # k /\ at[j] = at[k]
          BY <1>0, <4>1, <4>3, <4>4, FS_PigeonHole
        <4> QED BY <4>2, <4>5
      <3> QED BY <1>0, <3>2, <3>3, <3>4
    <2> QED BY <2>1, <2>2
  <1> DEFINE w == Walk(next, first)
  <1>10. w = [k \in 1..d |-> at[k]] /\ d \in Nat
    <2>1. {j \in 1..(n + 1) : at[j] # Null} = 1..d
      BY <1>0, <1>2, <1>9
    <2>2. Cardinality(1..d) = d
      BY <1>0, <1>9, FS_Interval
    <2>3. Cardinality({j \in 1..(n + 1) : at[j] # Null}) = d
      BY <2>1, <2>2
    <2>4. d \in Nat
      BY <1>0, <1>9
    <2> QED BY <1>1, <2>3, <2>4 DEF IsWalk
  <1> HIDE DEF w
  <1>11. Len(w) = d /\ \A k \in 1..d : w[k] = at[k] /\ k \in 1..(n + 1) /\ at[k] \in S
    BY <1>0, <1>5, <1>9, <1>10
  <1>12. \A j, k \in 1..d : j < k => r[w[j]] < r[w[k]]
    BY <1>8, <1>9, <1>11
  \* No entry is passed over.
  <1>13. \A p \in S : \E k \in 1..d : w[k] = p
    <2> SUFFICES ASSUME NEW q \in S, \A k \in 1..d : at[k] # q PROVE FALSE
      BY <1>11
    <2> DEFINE I == {k \in 1..d : r[at[k]] < r[q]}
    <2>1. at[1] = first
      BY <1>0, <1>2 DEF At1
    <2>2. first # Null /\ 1 \in 1..d /\ first \in S
      BY <1>0, <1>3, <1>9, <2>1 DEF IsFirst
    <2>3. 1 \in I
      BY <1>0, <1>3, <2>1, <2>2 DEF IsFirst, Ranked
    <2>4. I \in SUBSET (1..d) /\ I # {}
      BY <2>3
    <2>5. PICK k \in I : \A j \in I : j <= k
      <3> HIDE DEF I
      <3> QED BY <1>10, <2>4, Extremes
    <2>6. k \in 1..d /\ k \in 1..n /\ at[k] \in S /\ r[at[k]] < r[q] /\ at[k] # Null
      BY <1>0, <1>9, <1>11, <2>5
    <2>7. at[k + 1] = next[at[k]]
      BY <1>6, <2>6
    <2>8. CASE at[k + 1] = Null
      <3>1. IsNext(S, r, at[k], Null)
        BY <1>3, <2>6, <2>7, <2>8
      <3>2. \A p \in S : r[p] <= r[at[k]]
        BY <1>0, <3>1 DEF IsNext
      <3> QED BY <1>4, <2>6, <3>2
    <2>9. CASE at[k + 1] # Null
      <3>1. k + 1 \in 1..d
        BY <1>0, <1>9, <2>6, <2>9
      <3>2. at[k + 1] \in S /\ r[at[k + 1]] <= r[q]
        BY <1>3, <1>4, <1>0, <2>6, <2>7, <2>9 DEF IsNext
      <3>3. k + 1 \notin I
        BY <2>5, <2>6
      <3>4. r[at[k + 1]] = r[q]
        BY <1>4, <3>1, <3>2, <3>3
      <3> QED BY <1>3, <3>1, <3>2, <3>4 DEF Ranked
    <2> QED BY <2>8, <2>9
  <1>14. d = Cardinality(S)
    <2>1. w \in [1..d -> S]
      BY <1>10, <1>11
    <2>2. \A j, k \in 1..d : w[j] = w[k] => j = k
      <3> SUFFICES ASSUME NEW j \in 1..d, NEW k \in 1..d, j < k PROVE w[j] # w[k]
        BY <1>10
      <3> QED BY <1>4, <1>11, <1>12
    <2>3. w \in Bijection(1..d, S)
      BY <1>13, <2>1, <2>2 DEF Bijection, Injection, Surjection, IsInjective
    <2>4. ExistsBijection(1..d, S)
      BY <2>3 DEF ExistsBijection
    <2> QED BY <1>10, <2>4, FS_CountingElements
  <1> QED BY <1>10, <1>11, <1>12, <1>13, <1>14 DEF Lists, w

-----------------------------------------------------------------------------
(* Lists with links in both directions, and what the macros do to them.    *)

IsList(S, r, first, next, prev) ==
  IsChain(S, r, first, next) /\ \A p \in S : IsPrev(S, r, p, prev[p])

\* Null is no entry.
LEMMA NullIsNoPath == Null \notin Paths
  BY HashAssumption

\* The links and the ranks are the same for S.
Agree(S, r, next, prev, r2, next2, prev2) ==
  \A q \in S : r2[q] = r[q] /\ next2[q] = next[q] /\ prev2[q] = prev[q]

\* Of a list only the links of its entries matter, and their ranks.
LEMMA ListSame ==
  ASSUME NEW S \in SUBSET Paths, NEW r, NEW first, NEW next, NEW prev,
         IsList(S, r, first, next, prev),
         NEW r2 \in [Paths -> Int], NEW next2, NEW prev2,
         Agree(S, r, next, prev, r2, next2, prev2)
  PROVE  IsList(S, r2, first, next2, prev2)
  <1>1. Ranked(S, r2) /\ IsFirst(S, r2, first)
    BY DEF IsList, IsChain, Ranked, IsFirst, Agree
  <1>2. ASSUME NEW p \in S PROVE IsNext(S, r2, p, next2[p])
    BY <1>2 DEF IsList, IsChain, IsNext, Agree
  <1>3. ASSUME NEW p \in S PROVE IsPrev(S, r2, p, prev2[p])
    BY <1>3 DEF IsList, IsPrev, Agree
  <1> QED BY <1>1, <1>2, <1>3 DEF IsList, IsChain

\* A list has no entry just if it has no first one, and then no last one.
LEMMA EmptyList ==
  ASSUME NEW S \in SUBSET Paths, NEW r, NEW x, IsFirst(S, r, x) \/ IsLast(S, r, x)
  PROVE  x = Null <=> S = {}
  BY NullIsNoPath DEF IsFirst, IsLast

\* The links of S when p comes after its last entry, and before its first one.
Appends(S, p, last, next, prev, next2, prev2) ==
  /\ next2[p] = Null /\ prev2[p] = last
  /\ \A q \in S : next2[q] = (IF q = last THEN p ELSE next[q]) /\ prev2[q] = prev[q]

Pushes(S, p, first, next, prev, next2, prev2) ==
  /\ next2[p] = first /\ prev2[p] = Null
  /\ \A q \in S : next2[q] = next[q] /\ prev2[q] = (IF q = first THEN p ELSE prev[q])

\* HASH_APPEND_LIST: an entry after the last one.
LEMMA ListAppend ==
  ASSUME NEW S \in SUBSET Paths, NEW r, NEW first, NEW last, NEW next, NEW prev,
         IsList(S, r, first, next, prev), IsLast(S, r, last),
         NEW p \in Paths \ S, NEW next2, NEW prev2,
         Appends(S, p, last, next, prev, next2, prev2)
  PROVE  \E r2 : /\ IsList(S \cup {p}, r2, IF first = Null THEN p ELSE first, next2, prev2)
                 /\ IsLast(S \cup {p}, r2, p)
  <1> USE DEF Appends
  <1> DEFINE r2 == [r EXCEPT ![p] = IF last = Null THEN 0 ELSE r[last] + 1]
             U == S \cup {p}
  <1>1. /\ Ranked(S, r) /\ IsFirst(S, r, first)
        /\ \A q \in S : IsNext(S, r, q, next[q]) /\ IsPrev(S, r, q, prev[q])
    BY DEF IsList, IsChain
  <1>2. r \in [Paths -> Int] /\ \A q, s \in S : r[q] = r[s] => q = s
    BY <1>1 DEF Ranked
  <1>3. (first = Null <=> S = {}) /\ (last = Null <=> S = {})
    BY <1>1, EmptyList
  <1>4. /\ r2 \in [Paths -> Int]
        /\ \A q \in S : r2[q] = r[q] /\ r2[q] \in Int /\ r2[q] < r2[p]
        /\ r2[p] \in Int
    BY <1>2, <1>3 DEF IsLast
  <1>5. last # Null => last \in S /\ \A q \in S : r2[q] <= r2[last]
    BY <1>3, <1>4 DEF IsLast
  <1> HIDE DEF r2
  <1>6. Ranked(U, r2)
    BY <1>2, <1>4 DEF Ranked
  <1>7. IsFirst(U, r2, IF first = Null THEN p ELSE first)
    BY <1>1, <1>3, <1>4 DEF IsFirst
  <1>8. IsLast(U, r2, p)
    BY <1>4 DEF IsLast
  <1>9. ASSUME NEW q \in U PROVE IsNext(U, r2, q, next2[q])
    <2>1. CASE q = p
      BY <1>4, <2>1 DEF IsNext
    <2>2. CASE q \in S /\ q = last
      BY <1>3, <1>4, <1>5, <2>2 DEF IsNext
    <2>3. CASE q \in S /\ q # last
      <3>1. next2[q] = next[q] /\ IsNext(S, r, q, next[q])
        BY <1>1, <2>3
      <3>2. last \in S /\ r[last] # r[q] /\ r[q] <= r[last] /\ r[q] \in Int /\ r[last] \in Int
        BY <1>2, <1>3, <2>3 DEF IsLast
      <3>3. next[q] \in S /\ r[q] < r[next[q]] /\ \A s \in S : r[s] <= r[q] \/ r[next[q]] <= r[s]
        BY <3>1, <3>2 DEF IsNext
      <3> QED BY <1>4, <3>1, <3>3 DEF IsNext
    <2> QED BY <2>1, <2>2, <2>3
  <1>10. ASSUME NEW q \in U PROVE IsPrev(U, r2, q, prev2[q])
    <2>1. CASE q = p
      BY <1>3, <1>4, <1>5, <2>1 DEF IsPrev
    <2>2. CASE q \in S
      <3>1. prev2[q] = prev[q] /\ IsPrev(S, r, q, prev[q])
        BY <1>1, <2>2
      <3> QED BY <1>4, <2>2, <3>1 DEF IsPrev
    <2> QED BY <2>1, <2>2
  <1>11. IsList(U, r2, IF first = Null THEN p ELSE first, next2, prev2)
    BY <1>6, <1>7, <1>9, <1>10 DEF IsList, IsChain
  <1> QED BY <1>8, <1>11

\* HASH_ADD_TO_BKT: an entry before the first one.
LEMMA ListPush ==
  ASSUME NEW S \in SUBSET Paths, NEW r, NEW first, NEW next, NEW prev,
         IsList(S, r, first, next, prev),
         NEW p \in Paths \ S, NEW r2, NEW next2, NEW prev2,
         r2 = [r EXCEPT ![p] = IF first = Null THEN 0 ELSE r[first] - 1],
         Pushes(S, p, first, next, prev, next2, prev2)
  PROVE  IsList(S \cup {p}, r2, p, next2, prev2)
  <1> USE DEF Pushes
  <1> DEFINE U == S \cup {p}
  <1>1. /\ Ranked(S, r) /\ IsFirst(S, r, first)
        /\ \A q \in S : IsNext(S, r, q, next[q]) /\ IsPrev(S, r, q, prev[q])
    BY DEF IsList, IsChain
  <1>2. r \in [Paths -> Int] /\ \A q, s \in S : r[q] = r[s] => q = s
    BY <1>1 DEF Ranked
  <1>3. first = Null <=> S = {}
    BY <1>1, EmptyList
  <1>4. /\ r2 \in [Paths -> Int]
        /\ \A q \in S : r2[q] = r[q] /\ r2[q] \in Int /\ r2[p] < r2[q]
        /\ r2[p] \in Int
    BY <1>1, <1>2, <1>3 DEF IsFirst
  <1>5. first # Null => first \in S /\ \A q \in S : r2[first] <= r2[q]
    BY <1>1, <1>3, <1>4 DEF IsFirst
  <1>6. Ranked(U, r2)
    BY <1>2, <1>4 DEF Ranked
  <1>7. IsFirst(U, r2, p)
    BY <1>4 DEF IsFirst
  <1>8. ASSUME NEW q \in U PROVE IsNext(U, r2, q, next2[q])
    <2>1. CASE q = p
      BY <1>3, <1>4, <1>5, <2>1 DEF IsNext
    <2>2. CASE q \in S
      <3>1. next2[q] = next[q] /\ IsNext(S, r, q, next[q])
        BY <1>1, <2>2
      <3> QED BY <1>4, <2>2, <3>1 DEF IsNext
    <2> QED BY <2>1, <2>2
  <1>9. ASSUME NEW q \in U PROVE IsPrev(U, r2, q, prev2[q])
    <2>1. CASE q = p
      BY <1>4, <2>1 DEF IsPrev
    <2>2. CASE q \in S /\ q = first
      BY <1>3, <1>4, <1>5, <2>2 DEF IsPrev
    <2>3. CASE q \in S /\ q # first
      <3>1. prev2[q] = prev[q] /\ IsPrev(S, r, q, prev[q])
        BY <1>1, <2>3
      <3>2. first \in S /\ r[first] # r[q] /\ r[first] <= r[q] /\ r[q] \in Int /\ r[first] \in Int
        BY <1>1, <1>2, <1>3, <2>3 DEF IsFirst
      <3>3. prev[q] \in S /\ r[prev[q]] < r[q] /\ \A s \in S : r[s] <= r[prev[q]] \/ r[q] <= r[s]
        BY <3>1, <3>2 DEF IsPrev
      <3> QED BY <1>4, <3>1, <3>3 DEF IsPrev
    <2> QED BY <2>1, <2>2, <2>3
  <1> QED BY <1>6, <1>7, <1>8, <1>9 DEF IsList, IsChain

\* The links of a list are inverse to one another.
LEMMA LinksAreInverse ==
  ASSUME NEW S \in SUBSET Paths, NEW r, NEW first, NEW next, NEW prev,
         IsList(S, r, first, next, prev), NEW p \in S, NEW q \in S
  PROVE  next[q] = p <=> prev[p] = q
  <1>1. /\ \A s \in S : r[s] \in Int
        /\ \A s, u \in S : r[s] = r[u] => s = u
        /\ IsNext(S, r, q, next[q]) /\ IsPrev(S, r, p, prev[p])
    BY DEF IsList, IsChain, Ranked
  <1>2. ASSUME next[q] = p PROVE prev[p] = q
    <2>1. r[q] < r[p] /\ \A s \in S : r[s] <= r[q] \/ r[p] <= r[s]
      BY <1>1, <1>2, NullIsNoPath DEF IsNext
    <2>2. prev[p] \in S /\ r[prev[p]] < r[p] /\ r[q] <= r[prev[p]]
      BY <1>1, <2>1 DEF IsPrev
    <2>3. r[prev[p]] = r[q]
      BY <1>1, <2>1, <2>2
    <2> QED BY <1>1, <2>2, <2>3
  <1>3. ASSUME prev[p] = q PROVE next[q] = p
    <2>1. r[q] < r[p] /\ \A s \in S : r[s] <= r[q] \/ r[p] <= r[s]
      BY <1>1, <1>3, NullIsNoPath DEF IsPrev
    <2>2. next[q] \in S /\ r[q] < r[next[q]] /\ r[next[q]] <= r[p]
      BY <1>1, <2>1 DEF IsNext
    <2>3. r[next[q]] = r[p]
      BY <1>1, <2>1, <2>2
    <2> QED BY <1>1, <2>2, <2>3
  <1> QED BY <1>2, <1>3

\* The neighbours of p are linked to one another.
Unlinks(S, p, next, prev, next2, prev2) ==
  \A q \in S \ {p} : /\ next2[q] = IF q = prev[p] THEN next[p] ELSE next[q]
                    /\ prev2[q] = IF q = next[p] THEN prev[p] ELSE prev[q]

\* HASH_DELETE and HASH_DEL_IN_BKT take an entry out of a list.
LEMMA ListDrop ==
  ASSUME NEW S \in SUBSET Paths, NEW r, NEW first, NEW next, NEW prev,
         IsList(S, r, first, next, prev), NEW p \in S, NEW next2, NEW prev2,
         Unlinks(S, p, next, prev, next2, prev2),
         NEW first2, first2 = IF first = p THEN next[p] ELSE first
  PROVE  IsList(S \ {p}, r, first2, next2, prev2)
  <1> DEFINE U == S \ {p}
  <1>1. /\ Ranked(S, r) /\ IsFirst(S, r, first)
        /\ \A q \in S : IsNext(S, r, q, next[q]) /\ IsPrev(S, r, q, prev[q])
    BY DEF IsList, IsChain
  <1>2. r \in [Paths -> Int] /\ \A q, s \in S : r[q] = r[s] => q = s
    BY <1>1 DEF Ranked
  <1>3. \A q \in S : (next[q] = p <=> prev[p] = q) /\ (prev[q] = p <=> next[p] = q)
    BY LinksAreInverse
  <1>4. IsNext(S, r, p, next[p]) /\ IsPrev(S, r, p, prev[p]) /\ r[p] \in Int
    BY <1>1, <1>2
  <1>5. Ranked(U, r)
    BY <1>2 DEF Ranked
  <1>6. IsFirst(U, r, first2)
    <2>1. CASE first = p
      <3>1. \A q \in S : r[p] <= r[q]
        BY <1>1, <2>1, NullIsNoPath DEF IsFirst
      <3>2. CASE next[p] = Null
        <4>1. \A q \in S : r[q] <= r[p]
          BY <1>4, <3>2, NullIsNoPath DEF IsNext
        <4>2. U = {}
          BY <1>2, <3>1, <4>1
        <4> QED BY <2>1, <3>2, <4>2 DEF IsFirst
      <3>3. CASE next[p] # Null
        <4>1. next[p] \in S /\ r[p] < r[next[p]] /\ \A q \in S : r[q] <= r[p] \/ r[next[p]] <= r[q]
          BY <1>4, <3>3 DEF IsNext
        <4>2. next[p] \in U /\ \A q \in U : r[next[p]] <= r[q]
          BY <1>2, <3>1, <4>1
        <4> QED BY <2>1, <4>2 DEF IsFirst
      <3> QED BY <3>2, <3>3
    <2>2. CASE first # p
      BY <1>1, <2>2 DEF IsFirst
    <2> QED BY <2>1, <2>2
  <1>7. ASSUME NEW q \in U PROVE IsNext(U, r, q, next2[q])
    <2>1. IsNext(S, r, q, next[q]) /\ r[q] \in Int /\ q \in S /\ q # p
      BY <1>1, <1>2
    <2>2. CASE q = prev[p]
      <3>1. next2[q] = next[p] /\ r[q] < r[p] /\ \A s \in S : r[s] <= r[q] \/ r[p] <= r[s]
        BY <1>4, <2>1, <2>2, NullIsNoPath DEF IsPrev, Unlinks
      <3>2. CASE next[p] = Null
        <4>1. \A s \in S : r[s] <= r[p]
          BY <1>4, <3>2, NullIsNoPath DEF IsNext
        <4>2. \A s \in U : r[s] <= r[q]
          BY <1>2, <1>4, <2>1, <3>1, <4>1
        <4> QED BY <3>1, <3>2, <4>2 DEF IsNext
      <3>3. CASE next[p] # Null
        <4>1. next[p] \in S /\ r[p] < r[next[p]] /\ \A s \in S : r[s] <= r[p] \/ r[next[p]] <= r[s]
          BY <1>4, <3>3 DEF IsNext
        <4>2. next[p] \in U /\ r[q] < r[next[p]]
          BY <1>2, <1>4, <2>1, <3>1, <4>1
        <4>3. \A s \in U : r[s] <= r[q] \/ r[next[p]] <= r[s]
          BY <1>2, <1>4, <2>1, <3>1, <4>1
        <4> QED BY <3>1, <4>2, <4>3 DEF IsNext
      <3> QED BY <3>2, <3>3
    <2>3. CASE q # prev[p]
      <3>1. next2[q] = next[q] /\ next[q] # p
        BY <1>3, <2>1, <2>3 DEF Unlinks
      <3> QED BY <2>1, <3>1 DEF IsNext
    <2> QED BY <2>2, <2>3
  <1>8. ASSUME NEW q \in U PROVE IsPrev(U, r, q, prev2[q])
    <2>1. IsPrev(S, r, q, prev[q]) /\ r[q] \in Int /\ q \in S /\ q # p
      BY <1>1, <1>2
    <2>2. CASE q = next[p]
      <3>1. prev2[q] = prev[p] /\ r[p] < r[q] /\ \A s \in S : r[s] <= r[p] \/ r[q] <= r[s]
        BY <1>4, <2>1, <2>2, NullIsNoPath DEF IsNext, Unlinks
      <3>2. CASE prev[p] = Null
        <4>1. \A s \in S : r[p] <= r[s]
          BY <1>4, <3>2, NullIsNoPath DEF IsPrev
        <4>2. \A s \in U : r[q] <= r[s]
          BY <1>2, <1>4, <2>1, <3>1, <4>1
        <4> QED BY <3>1, <3>2, <4>2 DEF IsPrev
      <3>3. CASE prev[p] # Null
        <4>1. prev[p] \in S /\ r[prev[p]] < r[p] /\ \A s \in S : r[s] <= r[prev[p]] \/ r[p] <= r[s]
          BY <1>4, <3>3 DEF IsPrev
        <4>2. prev[p] \in U /\ r[prev[p]] < r[q]
          BY <1>2, <1>4, <2>1, <3>1, <4>1
        <4>3. \A s \in U : r[s] <= r[prev[p]] \/ r[q] <= r[s]
          BY <1>2, <1>4, <2>1, <3>1, <4>1
        <4> QED BY <3>1, <4>2, <4>3 DEF IsPrev
      <3> QED BY <3>2, <3>3
    <2>3. CASE q # next[p]
      <3>1. prev2[q] = prev[q] /\ prev[q] # p
        BY <1>3, <2>1, <2>3 DEF Unlinks
      <3> QED BY <2>1, <3>1 DEF IsPrev
    <2> QED BY <2>2, <2>3
  <1> QED BY <1>5, <1>6, <1>7, <1>8 DEF IsList, IsChain

\* The last entry of a list that loses one.
LEMMA LastDrop ==
  ASSUME NEW S \in SUBSET Paths, NEW r, NEW first, NEW last, NEW next, NEW prev,
         IsList(S, r, first, next, prev), IsLast(S, r, last), NEW p \in S
  PROVE  IsLast(S \ {p}, r, IF last = p THEN prev[p] ELSE last)
  <1> DEFINE U == S \ {p}
  <1>1. /\ r \in [Paths -> Int] /\ \A q, s \in S : r[q] = r[s] => q = s
        /\ IsPrev(S, r, p, prev[p]) /\ r[p] \in Int
    BY DEF IsList, IsChain, Ranked
  <1>2. CASE last # p
    BY <1>2, NullIsNoPath DEF IsLast
  <1>3. CASE last = p
    <2>1. \A q \in S : r[q] <= r[p]
      BY <1>3, NullIsNoPath DEF IsLast
    <2>2. CASE prev[p] = Null
      <3>1. \A q \in S : r[p] <= r[q]
        BY <1>1, <2>2, NullIsNoPath DEF IsPrev
      <3>2. U = {}
        BY <1>1, <2>1, <3>1
      <3> QED BY <1>3, <2>2, <3>2 DEF IsLast
    <2>3. CASE prev[p] # Null
      <3>1. prev[p] \in S /\ r[prev[p]] < r[p] /\ \A q \in S : r[q] <= r[prev[p]] \/ r[p] <= r[q]
        BY <1>1, <2>3 DEF IsPrev
      <3>2. prev[p] \in U /\ \A q \in U : r[q] <= r[prev[p]]
        BY <1>1, <2>1, <3>1
      <3> QED BY <1>3, <3>2 DEF IsLast
    <2> QED BY <2>2, <2>3
  <1> QED BY <1>2, <1>3

-----------------------------------------------------------------------------
(* Lists as sequences.                                                     *)

\* What a sequence that lists a set says of ranks and places.
LEMMA PlacesAndRanks ==
  ASSUME NEW S \in SUBSET Paths, NEW r, NEW w, Ranked(S, r), Lists(w, S, r)
  PROVE  /\ \A p \in S : r[p] \in Int
         /\ \A k \in 1..Len(w) : w[k] \in S /\ r[w[k]] \in Int
         /\ \A j, k \in 1..Len(w) : r[w[j]] < r[w[k]] <=> j < k
         /\ \A j, k \in 1..Len(w) : w[j] = w[k] => j = k
  <1>1. /\ Len(w) \in Nat /\ \A p \in S : r[p] \in Int
        /\ \A k \in 1..Len(w) : w[k] \in S /\ r[w[k]] \in Int
        /\ \A j, k \in 1..Len(w) : j < k => r[w[j]] < r[w[k]]
    BY DEF Ranked, Lists
  <1>2. \A j, k \in 1..Len(w) : r[w[j]] < r[w[k]] => j < k
    BY <1>1
  <1>3. \A j, k \in 1..Len(w) : w[j] = w[k] => j = k
    BY <1>1
  <1> QED BY <1>1, <1>2, <1>3

\* The predecessor of an entry stands before it.
LEMMA PrevIsBefore ==
  ASSUME NEW S \in SUBSET Paths, NEW r, NEW w, Ranked(S, r), Lists(w, S, r),
         NEW k \in 1..Len(w), NEW x, IsPrev(S, r, w[k], x)
  PROVE  x = Before(w, k)
  <1>1. /\ Len(w) \in Nat
        /\ \A j \in 1..Len(w) : w[j] \in S /\ r[w[j]] \in Int
        /\ \A i, j \in 1..Len(w) : r[w[i]] < r[w[j]] <=> i < j
    BY PlacesAndRanks DEF Lists
  <1>2. CASE k = 1
    <2>1. \A p \in S : r[w[k]] <= r[p]
      <3> SUFFICES ASSUME NEW p \in S PROVE r[w[k]] <= r[p]
        OBVIOUS
      <3>1. PICK j \in 1..Len(w) : w[j] = p
        BY DEF Lists
      <3>2. ~ j < k
        BY <1>1, <1>2
      <3>3. ~ r[w[j]] < r[w[k]] /\ r[w[j]] \in Int /\ r[w[k]] \in Int
        BY <1>1, <3>2
      <3> QED BY <3>1, <3>3
    <2>2. x \notin S \/ ~ r[x] < r[w[k]]
      BY <1>1, <2>1 DEF Ranked
    <2>3. x = Null
      BY <2>2 DEF IsPrev
    <2> QED BY <1>2, <2>3 DEF Before
  <1>3. CASE k # 1
    <2>1. k - 1 \in 1..Len(w) /\ k - 1 < k
      BY <1>1, <1>3
    <2>2. w[k - 1] \in S /\ r[w[k - 1]] < r[w[k]] /\ r[w[k - 1]] \in Int /\ r[w[k]] \in Int
      BY <1>1, <2>1
    <2>3. x \in S /\ r[x] < r[w[k]] /\ r[w[k - 1]] <= r[x]
      BY <2>2 DEF IsPrev
    <2>4. PICK j \in 1..Len(w) : w[j] = x
      BY <2>3 DEF Lists
    <2>5. j < k /\ ~ j < k - 1
      BY <1>1, <2>1, <2>2, <2>3, <2>4
    <2>6. j = k - 1
      BY <1>1, <2>5
    <2> QED BY <1>3, <2>4, <2>6 DEF Before
  <1> QED BY <1>2, <1>3

\* The last entry stands at the end.
LEMMA LastIsAtEnd ==
  ASSUME NEW S \in SUBSET Paths, NEW r, NEW w, Ranked(S, r), Lists(w, S, r),
         NEW x, IsLast(S, r, x), x # Null
  PROVE  Len(w) >= 1 /\ w[Len(w)] = x
  <1>1. /\ Len(w) \in Nat
        /\ \A j \in 1..Len(w) : w[j] \in S /\ r[w[j]] \in Int
        /\ \A i, j \in 1..Len(w) : r[w[i]] < r[w[j]] <=> i < j
    BY PlacesAndRanks DEF Lists
  <1>2. x \in S /\ \A q \in S : r[q] <= r[x]
    BY DEF IsLast
  <1>3. PICK j \in 1..Len(w) : w[j] = x
    BY <1>2 DEF Lists
  <1>4. Len(w) \in 1..Len(w) /\ Len(w) >= 1
    BY <1>1, <1>3
  <1>5. r[w[Len(w)]] <= r[w[j]]
    BY <1>1, <1>2, <1>3, <1>4
  <1>6. ~ j < Len(w)
    BY <1>1, <1>4, <1>5
  <1>7. j = Len(w)
    BY <1>1, <1>6
  <1> QED BY <1>3, <1>4, <1>7

Reversed(r) == [p \in Paths |-> - r[p]]

\* Of the entries at some places of a list, the one at the last place is the first
\* one in the reversed order, and the other way round.
LEMMA FirstOfReversed ==
  ASSUME NEW S \in SUBSET Paths, NEW r, NEW w, Ranked(S, r), Lists(w, S, r),
         NEW ks \in SUBSET (1..Len(w)), NEW T, T = {w[k] : k \in ks}
  PROVE  IsFirst(T, Reversed(r), LastAt(w, ks)) /\ IsLast(T, Reversed(r), FirstAt(w, ks))
  <1>1. /\ Len(w) \in Nat
        /\ \A j \in 1..Len(w) : w[j] \in S /\ r[w[j]] \in Int
        /\ \A i, j \in 1..Len(w) : r[w[i]] < r[w[j]] <=> i < j
    BY PlacesAndRanks DEF Lists
  <1>2. CASE ks = {}
    BY <1>2 DEF IsFirst, IsLast, LastAt, FirstAt
  <1>3. CASE ks # {}
    <2>1. /\ Max(ks) \in ks /\ \A k \in ks : k <= Max(ks)
          /\ Min(ks) \in ks /\ \A k \in ks : Min(ks) <= k
      BY <1>1, <1>3, Extremes
    <2> DEFINE a == Min(ks)
               z == Max(ks)
    <2>2. /\ a \in ks /\ z \in ks
          /\ a \in 1..Len(w) /\ z \in 1..Len(w) /\ \A k \in ks : a <= k /\ k <= z /\ k \in 1..Len(w)
      BY <2>1
    <2>3. LastAt(w, ks) = w[z] /\ FirstAt(w, ks) = w[a]
      BY <1>3 DEF LastAt, FirstAt
    <2> HIDE DEF a, z
    <2>4. \A k \in ks : r[w[k]] <= r[w[z]] /\ r[w[a]] <= r[w[k]]
      BY <1>1, <2>2
    <2>5. \A k \in ks : Reversed(r)[w[z]] <= Reversed(r)[w[k]] /\ Reversed(r)[w[k]] <= Reversed(r)[w[a]]
      BY <1>1, <2>2, <2>4 DEF Reversed
    <2> QED BY <2>2, <2>3, <2>5 DEF IsFirst, IsLast
  <1> QED BY <1>2, <1>3

\* The places of the entries T in w.
PlacesOf(w, T) == {k \in 1..Len(w) : w[k] \in T}

\* The entries of w at the places ks follow each other the other way round.
TurnedRound(w, ks, next, prev) ==
  \A k \in ks : /\ next[w[k]] = LastAt(w, {j \in ks : j < k})
                /\ prev[w[k]] = FirstAt(w, {j \in ks : j > k})

\* The part of a list that goes to one of two new lists, turned round: the links
\* that HASH_EXPAND_BUCKETS sets make it a list.
LEMMA PartIsList ==
  ASSUME NEW S \in SUBSET Paths, NEW r, NEW w, Ranked(S, r), Lists(w, S, r),
         NEW T \in SUBSET S, NEW ks, ks = PlacesOf(w, T),
         NEW next, NEW prev, TurnedRound(w, ks, next, prev)
  PROVE  /\ IsList(T, Reversed(r), LastAt(w, ks), next, prev)
         /\ IsFiniteSet(ks) /\ Cardinality(ks) = Cardinality(T)
  <1> DEFINE R == Reversed(r)
  <1>1. /\ Len(w) \in Nat /\ \A p \in S : r[p] \in Int
        /\ \A j \in 1..Len(w) : w[j] \in S /\ r[w[j]] \in Int
        /\ \A i, j \in 1..Len(w) : r[w[i]] < r[w[j]] <=> i < j
        /\ \A i, j \in 1..Len(w) : w[i] = w[j] => i = j
    BY PlacesAndRanks DEF Lists
  <1> USE DEF TurnedRound, PlacesOf
  <1>2. ks \in SUBSET (1..Len(w)) /\ T = {w[k] : k \in ks}
    <2>1. \A p \in T : \E k \in ks : w[k] = p
      BY DEF Lists
    <2> QED BY <2>1
  <1>3. /\ R \in [Paths -> Int] /\ \A p \in S : R[p] = - r[p] /\ R[p] \in Int
        /\ \A i, j \in 1..Len(w) : R[w[i]] < R[w[j]] <=> j < i
    <2>1. r \in [Paths -> Int]
      BY DEF Ranked
    <2>2. R \in [Paths -> Int] /\ \A p \in S : R[p] = - r[p] /\ R[p] \in Int
      BY <2>1 DEF Reversed
    <2>3. \A i, j \in 1..Len(w) : R[w[i]] < R[w[j]] <=> r[w[j]] < r[w[i]]
      <3> HIDE DEF R
      <3> QED BY <1>1, <2>2
    <2> QED BY <1>1, <2>2, <2>3
  <1>4. IsFirst(T, R, LastAt(w, ks))
    BY <1>2, FirstOfReversed
  <1> HIDE DEF R
  <1>5. Ranked(T, R)
    BY <1>3 DEF Ranked
  <1>6. ASSUME NEW k \in ks
        PROVE  IsNext(T, R, w[k], LastAt(w, {j \in ks : j < k}))
    <2> DEFINE js == {j \in ks : j < k}
               U == {w[j] : j \in js}
               x == LastAt(w, js)
    <2>1. js \in SUBSET (1..Len(w))
      BY <1>2
    <2>2. IsFirst(U, R, x)
      BY <2>1, FirstOfReversed DEF R
    <2>3. ASSUME NEW q \in T PROVE q \in U \/ R[q] <= R[w[k]]
      <3>1. PICK i \in ks : w[i] = q
        BY <1>2
      <3>2. CASE i < k
        BY <3>1, <3>2
      <3>3. CASE ~ i < k
        <4>1. i \in 1..Len(w) /\ k \in 1..Len(w) /\ ~ R[w[k]] < R[w[i]]
          BY <1>1, <1>2, <1>3, <3>3
        <4> QED BY <1>1, <1>3, <3>1, <4>1
      <3> QED BY <3>2, <3>3
    <2>4. ASSUME NEW q \in U PROVE q \in T /\ R[w[k]] < R[q]
      <3>1. PICK i \in js : w[i] = q
        OBVIOUS
      <3>2. i \in 1..Len(w) /\ k \in 1..Len(w) /\ i < k /\ w[i] \in T
        BY <1>2, <2>1
      <3> QED BY <1>3, <3>1, <3>2
    <2> HIDE DEF js, U, x
    <2>5. IsNext(T, R, w[k], x)
      <3>1. CASE x = Null /\ U = {}
        BY <2>3, <3>1 DEF IsNext
      <3>2. CASE x \in U /\ \A q \in U : R[x] <= R[q]
        BY <2>3, <2>4, <3>2 DEF IsNext
      <3> QED BY <2>2, <3>1, <3>2 DEF IsFirst
    <2> QED BY <2>5 DEF js, x
  <1>7. ASSUME NEW k \in ks
        PROVE  IsPrev(T, R, w[k], FirstAt(w, {j \in ks : j > k}))
    <2> DEFINE js == {j \in ks : j > k}
               U == {w[j] : j \in js}
               x == FirstAt(w, js)
    <2>1. js \in SUBSET (1..Len(w))
      BY <1>2
    <2>2. IsLast(U, R, x)
      BY <2>1, FirstOfReversed DEF R
    <2>3. ASSUME NEW q \in T PROVE q \in U \/ R[w[k]] <= R[q]
      <3>1. PICK i \in ks : w[i] = q
        BY <1>2
      <3>2. CASE i > k
        BY <3>1, <3>2
      <3>3. CASE ~ i > k
        <4>1. i \in 1..Len(w) /\ k \in 1..Len(w) /\ ~ k < i
          BY <1>1, <1>2, <3>3
        <4>2. ~ R[w[i]] < R[w[k]]
          BY <1>3, <4>1
        <4> QED BY <1>1, <1>3, <3>1, <4>1, <4>2
      <3> QED BY <3>2, <3>3
    <2>4. ASSUME NEW q \in U PROVE q \in T /\ R[q] < R[w[k]]
      <3>1. PICK i \in js : w[i] = q
        OBVIOUS
      <3>2. i \in 1..Len(w) /\ k \in 1..Len(w) /\ k < i /\ w[i] \in T
        BY <1>2, <2>1
      <3> QED BY <1>3, <3>1, <3>2
    <2> HIDE DEF js, U, x
    <2>5. IsPrev(T, R, w[k], x)
      <3>1. CASE x = Null /\ U = {}
        BY <2>3, <3>1 DEF IsPrev
      <3>2. CASE x \in U /\ \A q \in U : R[q] <= R[x]
        BY <2>3, <2>4, <3>2 DEF IsPrev
      <3> QED BY <2>2, <3>1, <3>2 DEF IsLast
    <2> QED BY <2>5 DEF js, x
  <1>8. ASSUME NEW p \in T PROVE IsNext(T, R, p, next[p]) /\ IsPrev(T, R, p, prev[p])
    <2>1. PICK k \in ks : w[k] = p
      BY <1>2
    <2> QED BY <1>6, <1>7, <2>1
  <1>9. IsFiniteSet(ks) /\ Cardinality(ks) = Cardinality(T)
    <2>1. IsFiniteSet(ks)
      <3>1. IsFiniteSet(1..Len(w))
        BY <1>1, FS_Interval
      <3> QED BY <1>2, <3>1, FS_Subset
    <2> DEFINE f == [k \in ks |-> w[k]]
    <2>2. f \in Bijection(ks, T)
      <3>1. f \in [ks -> T]
        OBVIOUS
      <3>2. \A i, j \in ks : f[i] = f[j] => i = j
        BY <1>1, <1>2
      <3>3. \A p \in T : \E k \in ks : f[k] = p
        BY <1>2
      <3> QED BY <3>1, <3>2, <3>3 DEF Bijection, Injection, Surjection, IsInjective
    <2>3. ExistsBijection(ks, T)
      BY <2>2 DEF ExistsBijection
    <2> QED BY <2>1, <2>3, FS_Bijection
  <1> QED BY <1>4, <1>5, <1>8, <1>9 DEF IsList, IsChain, R

-----------------------------------------------------------------------------
(* Numbers of the table.                                                   *)

\* Quotient and remainder exist and are unique.
LEMMA Remainder ==
  ASSUME NEW a \in Nat, NEW n \in Nat \ {0}
  PROVE  /\ a % n \in 0..(n - 1)
         /\ \E q \in Nat : a = n * q + (a % n)
         /\ \A q \in Nat, m \in 0..(n - 1) : a = n * q + m => a % n = m
  <1>1. a % n \in 0..(n - 1)
    OBVIOUS
  <1>2. a \div n \in Nat /\ a = n * (a \div n) + (a % n)
    OBVIOUS
  <1>3. ASSUME NEW q \in Nat, NEW m \in 0..(n - 1), a = n * q + m
        PROVE  a % n = m
    <2>1. (q * n + m) % n = m
      OBVIOUS
    <2>2. q * n + m = a
      BY <1>3
    <2> QED BY <2>1, <2>2
  <1> QED BY <1>1, <1>2, <1>3

\* Twice the buckets part each bucket: what is in bucket b of 2 * n was in b % n.
LEMMA BucketOfHalf ==
  ASSUME NEW p \in Paths, NEW n \in Nat \ {0}
  PROVE  /\ Bucket(p, n) \in 0..(n - 1) /\ Bucket(p, 2 * n) \in 0..(2 * n - 1)
         /\ Bucket(p, 2 * n) % n = Bucket(p, n)
  <1> DEFINE a == Hash[p]
             m == 2 * n
             b == a % m
             c == b % n
  <1>1. a \in Nat /\ m \in Nat \ {0}
    BY HashAssumption
  <1> HIDE DEF a
  <1>2. b \in 0..(m - 1) /\ \E q \in Nat : a = m * q + b
    <2> HIDE DEF m
    <2> QED BY <1>1, Remainder
  <1>3. PICK q \in Nat : a = m * q + b
    BY <1>2
  <1>4. b \in Nat
    BY <1>1, <1>2
  <1> HIDE DEF b
  <1>5. c \in 0..(n - 1) /\ \E k \in Nat : b = n * k + c
    BY <1>4, Remainder
  <1>6. PICK k \in Nat : b = n * k + c
    BY <1>5
  <1> HIDE DEF c
  <1>7. a = n * (2 * q + k) + c /\ 2 * q + k \in Nat
    <2>1. m * q = n * (2 * q)
      OBVIOUS
    <2>2. n * (2 * q) + n * k = n * (2 * q + k)
      OBVIOUS
    <2>3. n * (2 * q) \in Nat /\ n * k \in Nat /\ c \in Nat
      BY <1>5
    <2> QED BY <1>3, <1>6, <2>1, <2>2, <2>3
  <1>8. a % n = c /\ a % n \in 0..(n - 1)
    <2> DEFINE s == 2 * q + k
    <2>1. s \in Nat /\ a = n * s + c
      BY <1>7
    <2> HIDE DEF s
    <2> QED BY <1>1, <1>5, <2>1, Remainder
  <1> QED BY <1>2, <1>8 DEF Bucket, a, b, c, m

\* The number of buckets is the size of their array.
LEMMA SizeOfBuckets ==
  ASSUME NEW n \in Nat, NEW buckets, DOMAIN buckets = 0..(n - 1)
  PROVE  Size(buckets) = n
  <1>1. Cardinality(0..(n - 1)) = IF 0 > n - 1 THEN 0 ELSE (n - 1) - 0 + 1
    BY FS_Interval
  <1> QED BY <1>1 DEF Size

Mult1(ideal, f, c) ==
  IF c <= ideal THEN 0 ELSE f[c - 1] + (IF c > f[c - 1] * ideal THEN 1 ELSE 0)

\* The recursion of ExpandMult has a solution.
LEMMA MultsExist ==
  ASSUME NEW ideal \in Nat
  PROVE  \A n \in Nat : \E f : f = [c \in 0..n |-> Mult1(ideal, f, c)]
  <1> DEFINE T == {n \in Nat : \E f : f = [c \in 0..n |-> Mult1(ideal, f, c)]}
  <1>1. 0 \in T
    <2> DEFINE f == [c \in 0..0 |-> 0]
    <2>1. f = [c \in 0..0 |-> Mult1(ideal, f, c)]
      BY DEF Mult1
    <2> QED BY <2>1
  <1>2. ASSUME NEW n \in Nat, n \in T PROVE n + 1 \in T
    <2>1. PICK f : f = [c \in 0..n |-> Mult1(ideal, f, c)]
      BY <1>2
    <2> DEFINE g == [c \in 0..(n + 1) |-> IF c = n + 1 THEN Mult1(ideal, f, c) ELSE f[c]]
    <2>2. \A c \in 0..(n + 1) : Mult1(ideal, g, c) = Mult1(ideal, f, c)
      <3> SUFFICES ASSUME NEW c \in 0..(n + 1), ~ c <= ideal PROVE g[c - 1] = f[c - 1]
        BY DEF Mult1
      <3> QED OBVIOUS
    <2>3. \A c \in 0..n : f[c] = Mult1(ideal, f, c)
      BY <2>1
    <2>4. \A c \in 0..(n + 1) : g[c] = Mult1(ideal, g, c)
      <3> SUFFICES ASSUME NEW c \in 0..(n + 1) PROVE g[c] = Mult1(ideal, f, c)
        BY <2>2
      <3>1. CASE c = n + 1
        BY <3>1
      <3>2. CASE c # n + 1
        <4>1. c \in 0..n
          BY <3>2
        <4> QED BY <3>2, <4>1, <2>3
      <3> QED BY <3>1, <3>2
    <2> HIDE DEF g
    <2>5. g = [c \in 0..(n + 1) |-> g[c]]
      BY DEF g
    <2>6. g = [c \in 0..(n + 1) |-> Mult1(ideal, g, c)]
      BY <2>4, <2>5
    <2> QED BY <2>6
  <1> HIDE DEF T
  <1>3. \A n \in Nat : n \in T
    BY <1>1, <1>2, Induction
  <1> QED BY <1>3 DEF T

\* The delay of a bucket is a number.
LEMMA ExpandMultType ==
  ASSUME NEW count \in Nat, NEW ideal \in Nat
  PROVE  ExpandMult(count, ideal) \in Nat
  <1> DEFINE mult == CHOOSE mult : mult = [c \in 0..count |->
                       IF c <= ideal THEN 0
                       ELSE mult[c - 1] + (IF c > mult[c - 1] * ideal THEN 1 ELSE 0)]
  <1>1. \E f : f = [c \in 0..count |-> Mult1(ideal, f, c)]
    BY MultsExist
  <1>2. mult = [c \in 0..count |-> Mult1(ideal, mult, c)]
    BY <1>1 DEF Mult1
  <1>3. ExpandMult(count, ideal) = mult[count]
    BY DEF ExpandMult
  <1> HIDE DEF mult
  <1>4. \A c \in 0..count : mult[c] = Mult1(ideal, mult, c)
    BY <1>2
  <1> DEFINE T == {c \in Nat : c <= count => mult[c] \in Nat}
  <1>5. 0 \in T
    <2>1. mult[0] = Mult1(ideal, mult, 0)
      BY <1>4
    <2> QED BY <2>1 DEF Mult1
  <1>6. ASSUME NEW c \in Nat, c \in T PROVE c + 1 \in T
    <2> SUFFICES ASSUME c + 1 <= count PROVE mult[c + 1] \in Nat
      OBVIOUS
    <2>1. mult[c] \in Nat /\ c + 1 \in 0..count /\ (c + 1) - 1 = c
      BY <1>6
    <2>2. mult[c + 1] = Mult1(ideal, mult, c + 1)
      BY <1>4, <2>1
    <2> QED BY <2>1, <2>2 DEF Mult1
  <1> HIDE DEF T
  <1>7. \A c \in Nat : c \in T
    BY <1>5, <1>6, Induction
  <1> QED BY <1>3, <1>7 DEF T

-----------------------------------------------------------------------------
(* The invariant.  TypeOK and HASH_FSCK say nothing of an entry that is    *)
(* not in its chain yet, nor of where a lookup is: Sound gives the entries *)
(* all, of which those of the set in are in their chains, with ranks r and *)
(* h for the two orders, and ThreadInv what a thread under way relies on.  *)

Links == [prev : Paths \cup {Null}, next : Paths \cup {Null},
          hh_prev : Paths \cup {Null}, hh_next : Paths \cup {Null}]

BucketType == [hh_head : Paths \cup {Null}, count : Nat, expand_mult : Nat]

TableType(n) ==
  [buckets : [0..(n - 1) -> BucketType], num_items : Nat, tail : Paths \cup {Null},
   ineff_expands : 0..2, noexpand : BOOLEAN]

NextIn(nodes) == [p \in Paths |-> nodes[p].next]
PrevIn(nodes) == [p \in Paths |-> nodes[p].prev]
HHNextIn(nodes) == [p \in Paths |-> nodes[p].hh_next]
HHPrevIn(nodes) == [p \in Paths |-> nodes[p].hh_prev]

InBucket(S, b, n) == {p \in S : Bucket(p, n) = b}

\* The table has the entries all as a list with tail as its last one.
Listed(nodes, first, tail, all, r) ==
  IsList(all, r, first, NextIn(nodes), PrevIn(nodes)) /\ IsLast(all, r, tail)

\* Every bucket has those of the entries in that belong to it as a list.
Chained(nodes, buckets, n, in, h) ==
  \A b \in 0..(n - 1) :
    IsList(InBucket(in, b, n), h, buckets[b].hh_head, HHNextIn(nodes), HHPrevIn(nodes))

CountsAre(t, n, all) ==
  /\ t.num_items = Cardinality(all)
  /\ \A b \in 0..(n - 1) : t.buckets[b].count = Cardinality(InBucket(all, b, n))

Sound(nodes, first, t, n, all, in, r, h) ==
  /\ n \in Nat \ {0} /\ nodes \in [Paths -> Links] /\ t \in TableType(n)
  /\ all \subseteq Paths /\ in \subseteq all /\ h \in [Paths -> Int]
  /\ Listed(nodes, first, t.tail, all, r)
  /\ Chained(nodes, t.buckets, n, in, h)
  /\ CountsAre(t, n, all)
  /\ t.noexpand \/ t.ineff_expands <= 1
  /\ \A p \in Paths \ all : nodes[p] = Loose
  /\ all = {} => t = NewTable

\* An insertion that has not reached its chain.
Linking(th, nodes, t, n, all, in, there) ==
  /\ th.pc = "link" /\ th.path \in all /\ in = all \ {th.path} /\ there = in
  /\ th.size = n
  /\ nodes[th.path].hh_next = t.buckets[Bucket(th.path, n)].hh_head
  /\ nodes[th.path].hh_prev = Null

\* A lookup has not passed the entry it is for.
Comparing(th, n, all, in, h, there) ==
  /\ th.pc = "compare" /\ th.path \in Paths /\ in = all
  /\ \/ th.op = "get" /\ there = all
     \/ th.op = "remove" /\ th.path \in all /\ there = all \ {th.path}
  /\ th.out = Null \/ th.out \in InBucket(all, Bucket(th.path, n), n)
  /\ th.path \in all => th.out # Null /\ h[th.out] <= h[th.path]

\* The table is being freed, from its first entry on.
Freeing(th, first, all, in) ==
  /\ th.pc = "free" /\ th.op = "free" /\ in = all /\ th.out = first /\ first # Null

ThreadInv(th, nodes, first, t, n, all, in, h, there) ==
  /\ th \in [pc : {"idle", "link", "compare", "free"}, op : {"none", "add", "get", "remove", "free"},
             path : Paths \cup {Null}, out : Paths \cup {Null}, size : Nat]
  /\ \/ th = Idle
     \/ Linking(th, nodes, t, n, all, in, there)
     \/ Comparing(th, n, all, in, h, there)
     \/ Freeing(th, first, all, in)

IInvFor(n, all, in, r, h) ==
  /\ Sound(node, head, tbl, n, all, in, r, h)
  /\ IsAlone => in = all /\ entries = all
  /\ \A t \in Threads : ThreadInv(thread[t], node, head, tbl, n, all, in, h, entries)

IInv ==
  /\ entries \subseteq Paths /\ DOMAIN thread = Threads
  /\ \E n, all, in, r, h : IInvFor(n, all, in, r, h)

-----------------------------------------------------------------------------
(* The invariant implies the properties.                                   *)

\* Only one thread runs.
OneThread == \A t, u \in Threads : t = u

\* In a sound table the walks give the order of the entries and the chains.
LEMMA SoundWalks ==
  ASSUME NEW nodes, NEW first, NEW t, NEW n, NEW all, NEW in, NEW r, NEW h,
         Sound(nodes, first, t, n, all, in, r, h)
  PROVE  /\ Ranked(all, r) /\ Lists(Walk([p \in Paths |-> nodes[p].next], first), all, r)
         /\ \A b \in 0..(n - 1) :
              /\ Ranked(InBucket(in, b, n), h)
              /\ Lists(Chain(nodes, t.buckets, b), InBucket(in, b, n), h)
  <1>1. all \in SUBSET Paths /\ IsChain(all, r, first, NextIn(nodes))
    BY DEF Sound, Listed, IsList
  <1>2. Lists(Walk(NextIn(nodes), first), all, r)
    BY <1>1, WalkLists
  <1>3. ASSUME NEW b \in 0..(n - 1)
        PROVE  /\ Ranked(InBucket(in, b, n), h)
               /\ Lists(Chain(nodes, t.buckets, b), InBucket(in, b, n), h)
    <2>1. /\ InBucket(in, b, n) \in SUBSET Paths
          /\ IsChain(InBucket(in, b, n), h, t.buckets[b].hh_head, HHNextIn(nodes))
      BY DEF Sound, Chained, IsList, InBucket
    <2>2. Lists(Walk(HHNextIn(nodes), t.buckets[b].hh_head), InBucket(in, b, n), h)
      BY <2>1, WalkLists
    <2> QED BY <2>1, <2>2 DEF Chain, HHNextIn, IsChain
  <1> QED BY <1>1, <1>2, <1>3 DEF NextIn, IsChain

\* There are finitely many entries; the table has n buckets.
LEMMA SoundSize ==
  ASSUME NEW nodes, NEW first, NEW t, NEW n, NEW all, NEW in, NEW r, NEW h,
         Sound(nodes, first, t, n, all, in, r, h)
  PROVE  /\ IsFiniteSet(all) /\ \A b : IsFiniteSet(InBucket(all, b, n))
         /\ DOMAIN t.buckets = 0..(n - 1) /\ Size(t.buckets) = n
         /\ \A p \in Paths : Bucket(p, n) \in 0..(n - 1)
  <1>1. n \in Nat \ {0} /\ all \in SUBSET Paths /\ t.buckets \in [0..(n - 1) -> BucketType]
    BY DEF Sound, TableType
  <1>2. IsFiniteSet(all) /\ \A b : IsFiniteSet(InBucket(all, b, n))
    <2>1. \A b : InBucket(all, b, n) \in SUBSET Paths
      BY <1>1 DEF InBucket
    <2> QED BY <1>1, <2>1, FS_Subset, HashAssumption
  <1>3. DOMAIN t.buckets = 0..(n - 1)
    BY <1>1
  <1>4. Size(t.buckets) = n
    BY <1>1, <1>3, SizeOfBuckets
  <1> QED BY <1>1, <1>2, <1>3, <1>4, BucketOfHalf

\* The types.
LEMMA InvImpliesTypeOK ==
  ASSUME IInv
  PROVE  TypeOK
  <1>1. PICK n, all, in, r, h : IInvFor(n, all, in, r, h)
    BY DEF IInv
  <1>2. Sound(node, head, tbl, n, all, in, r, h)
    BY <1>1 DEF IInvFor
  <1>3. DOMAIN tbl.buckets = 0..(n - 1) /\ Size(tbl.buckets) = n
    BY <1>2, SoundSize
  <1>4. node \in [Paths -> Links] /\ tbl \in TableType(n) /\ head \in Paths \cup {Null}
    BY <1>2 DEF Sound, Listed, IsList, IsChain, IsFirst
  <1>5. \A b \in DOMAIN tbl.buckets :
          /\ tbl.buckets[b].hh_head \in Paths \cup {Null}
          /\ tbl.buckets[b].count \in Nat /\ tbl.buckets[b].expand_mult \in Nat
    BY <1>3, <1>4 DEF TableType, BucketType
  <1>6. /\ tbl.num_items \in Nat /\ tbl.tail \in Paths \cup {Null}
        /\ tbl.ineff_expands \in 0..2 /\ tbl.noexpand \in BOOLEAN
    BY <1>4 DEF TableType
  <1>7. \A t \in Threads : thread[t].pc \in {"idle", "link", "compare", "free"}
    BY <1>1 DEF IInvFor, ThreadInv
  <1> QED BY <1>3, <1>4, <1>5, <1>6, <1>7 DEF IInv, TypeOK, Links

\* Where no insertion is under way, every entry is in its chain.
LEMMA AllAreIn ==
  ASSUME NEW n, NEW all, NEW in, NEW r, NEW h, IInvFor(n, all, in, r, h),
         OneThread, \A t \in Threads : ~ At(t, "link")
  PROVE  in = all
  <1>1. CASE IsAlone
    BY <1>1 DEF IInvFor
  <1>2. CASE ~ IsAlone
    <2>1. PICK t \in Threads : ~ At(t, "idle")
      BY <1>2 DEF IsAlone
    <2>2. ThreadInv(thread[t], node, head, tbl, n, all, in, h, entries) /\ ~ At(t, "link")
      BY DEF IInvFor
    <2> QED BY <2>1, <2>2 DEF ThreadInv, Idle, At, Linking, Comparing, Freeing
  <1> QED BY <1>1, <1>2

\* The chains of a sound table have together as many places as there are entries.
LEMMA SumOfChains ==
  ASSUME NEW nodes, NEW first, NEW t, NEW n, NEW all, NEW r, NEW h,
         Sound(nodes, first, t, n, all, all, r, h)
  PROVE  Cardinality(UNION {{b} \X DOMAIN Chain(nodes, t.buckets, b) : b \in DOMAIN t.buckets})
           = Cardinality(all)
  <1> DEFINE w(b) == Chain(nodes, t.buckets, b)
             P == UNION {{b} \X DOMAIN Chain(nodes, t.buckets, b) : b \in DOMAIN t.buckets}
             place(p) == CHOOSE k \in 1..Len(w(Bucket(p, n))) : w(Bucket(p, n))[k] = p
             f == [p \in all |-> <<Bucket(p, n), place(p)>>]
  <1>1. /\ IsFiniteSet(all) /\ DOMAIN t.buckets = 0..(n - 1) /\ all \in SUBSET Paths
        /\ \A p \in all : Bucket(p, n) \in 0..(n - 1)
    BY SoundSize DEF Sound
  <1>2. \A b \in 0..(n - 1) :
          /\ Len(w(b)) \in Nat /\ w(b) \in [1..Len(w(b)) -> InBucket(all, b, n)]
          /\ \A p \in InBucket(all, b, n) : \E k \in 1..Len(w(b)) : w(b)[k] = p
          /\ \A j, k \in 1..Len(w(b)) : w(b)[j] = w(b)[k] => j = k
    <2> SUFFICES ASSUME NEW b \in 0..(n - 1)
                 PROVE  /\ Len(w(b)) \in Nat /\ w(b) \in [1..Len(w(b)) -> InBucket(all, b, n)]
                        /\ \A p \in InBucket(all, b, n) : \E k \in 1..Len(w(b)) : w(b)[k] = p
                        /\ \A j, k \in 1..Len(w(b)) : w(b)[j] = w(b)[k] => j = k
      OBVIOUS
    <2>1. Ranked(InBucket(all, b, n), h) /\ Lists(w(b), InBucket(all, b, n), h)
      BY SoundWalks
    <2>2. InBucket(all, b, n) \in SUBSET Paths
      BY <1>1 DEF InBucket
    <2> HIDE DEF w
    <2>3. \A j, k \in 1..Len(w(b)) : w(b)[j] = w(b)[k] => j = k
      BY <2>1, <2>2, PlacesAndRanks
    <2> QED BY <2>1, <2>3 DEF Lists
  <1>3. P = UNION {{b} \X (1..Len(w(b))) : b \in 0..(n - 1)}
    <2>1. \A b \in 0..(n - 1) : DOMAIN w(b) = 1..Len(w(b))
      BY <1>2
    <2> QED BY <1>1, <2>1
  <1> HIDE DEF w, P
  <1>4. \A b, k : <<b, k>> \in P <=> b \in 0..(n - 1) /\ k \in 1..Len(w(b))
    BY <1>3
  <1>5. \A x \in P : x = <<x[1], x[2]>>
    BY <1>3
  <1>6. \A p \in all : place(p) \in 1..Len(w(Bucket(p, n))) /\ w(Bucket(p, n))[place(p)] = p
    <2> SUFFICES ASSUME NEW p \in all
                 PROVE  place(p) \in 1..Len(w(Bucket(p, n))) /\ w(Bucket(p, n))[place(p)] = p
      OBVIOUS
    <2>1. p \in InBucket(all, Bucket(p, n), n) /\ Bucket(p, n) \in 0..(n - 1)
      BY <1>1 DEF InBucket
    <2>2. \E k \in 1..Len(w(Bucket(p, n))) : w(Bucket(p, n))[k] = p
      BY <1>2, <2>1
    <2> QED BY <2>2
  <1> HIDE DEF place
  <1>7. f \in Bijection(all, P)
    <2>1. f \in [all -> P]
      BY <1>1, <1>4, <1>6
    <2>2. ASSUME NEW p \in all, NEW q \in all, f[p] = f[q] PROVE p = q
      <3>1. Bucket(p, n) = Bucket(q, n) /\ place(p) = place(q)
        BY <2>2
      <3> QED BY <1>6, <3>1
    <2>3. ASSUME NEW x \in P PROVE \E p \in all : f[p] = x
      <3>1. x = <<x[1], x[2]>> /\ x[1] \in 0..(n - 1) /\ x[2] \in 1..Len(w(x[1]))
        BY <1>4, <1>5
      <3> DEFINE b == x[1]
                 k == x[2]
                 p == w(b)[k]
      <3>2. x = <<b, k>> /\ b \in 0..(n - 1) /\ k \in 1..Len(w(b))
        BY <3>1
      <3> HIDE DEF b, k
      <3>3. p \in InBucket(all, b, n)
        BY <1>2, <3>2
      <3>4. p \in all /\ Bucket(p, n) = b
        BY <3>3 DEF InBucket
      <3> HIDE DEF p
      <3>5. place(p) \in 1..Len(w(b)) /\ w(b)[place(p)] = p
        BY <1>6, <3>4
      <3>6. place(p) = k
        BY <1>2, <3>2, <3>5 DEF p
      <3>7. f[p] = x
        BY <3>2, <3>4, <3>6
      <3> QED BY <3>4, <3>7
    <2> QED BY <2>1, <2>2, <2>3 DEF Bijection, Injection, Surjection, IsInjective
  <1>8. ExistsBijection(all, P)
    BY <1>7 DEF ExistsBijection
  <1>9. Cardinality(P) = Cardinality(all)
    BY <1>1, <1>8, FS_Bijection
  <1> QED BY <1>9 DEF P

\* What HASH_FSCK asks of the table.
LEMMA InvImpliesFSCK ==
  ASSUME IInv, OneThread
  PROVE  HASH_FSCK
  <1> SUFFICES ASSUME head # Null, \A t \in Threads : ~ At(t, "link")
               PROVE  /\ \A b \in DOMAIN tbl.buckets :
                           /\ LeadBack(ChainOf(b), [p \in Paths |-> node[p].hh_prev])
                           /\ Len(ChainOf(b)) = tbl.buckets[b].count
                      /\ tbl.num_items =
                           Cardinality(UNION {{b} \X DOMAIN ChainOf(b) : b \in DOMAIN tbl.buckets})
                      /\ LeadBack(Order, [p \in Paths |-> node[p].prev])
                      /\ Len(Order) = tbl.num_items
                      /\ Last(Order) = tbl.tail
    BY DEF HASH_FSCK
  <1>1. PICK n, all, in, r, h : IInvFor(n, all, in, r, h)
    BY DEF IInv
  <1>2. Sound(node, head, tbl, n, all, all, r, h)
    BY <1>1, AllAreIn DEF IInvFor
  <1>3. /\ DOMAIN tbl.buckets = 0..(n - 1) /\ all \in SUBSET Paths
        /\ tbl.num_items = Cardinality(all)
    BY <1>2, SoundSize DEF Sound, CountsAre
  <1>4. ASSUME NEW b \in 0..(n - 1)
        PROVE  /\ LeadBack(ChainOf(b), [p \in Paths |-> node[p].hh_prev])
               /\ Len(ChainOf(b)) = tbl.buckets[b].count
    <2> DEFINE S == InBucket(all, b, n)
               w == ChainOf(b)
    <2>1. Ranked(S, h) /\ Lists(w, S, h)
      BY <1>2, SoundWalks DEF ChainOf
    <2>2. S \in SUBSET Paths
      BY <1>3 DEF InBucket
    <2>3. Len(w) = tbl.buckets[b].count
      BY <1>2, <2>1 DEF Lists, Sound, CountsAre
    <2>4. \A p \in S : IsPrev(S, h, p, node[p].hh_prev)
      BY <1>2, <2>2 DEF Sound, Chained, IsList, HHPrevIn
    <2> HIDE DEF S, w
    <2>5. Len(w) \in Nat /\ DOMAIN w = 1..Len(w) /\ \A k \in 1..Len(w) : w[k] \in S
      BY <2>1 DEF Lists
    <2>6. \A k \in 1..Len(w) : node[w[k]].hh_prev = Before(w, k)
      BY <2>1, <2>2, <2>4, <2>5, PrevIsBefore
    <2>7. LeadBack(w, [p \in Paths |-> node[p].hh_prev])
      BY <2>2, <2>5, <2>6 DEF LeadBack
    <2> QED BY <2>3, <2>7 DEF w
  <1>5. /\ LeadBack(Order, [p \in Paths |-> node[p].prev]) /\ Len(Order) = tbl.num_items
        /\ Last(Order) = tbl.tail
    <2> DEFINE w == Order
    <2>1. Ranked(all, r) /\ Lists(w, all, r)
      BY <1>2, SoundWalks DEF Order
    <2>2. Len(w) = tbl.num_items
      BY <1>3, <2>1 DEF Lists
    <2>3. \A p \in all : IsPrev(all, r, p, node[p].prev)
      BY <1>2, <1>3 DEF Sound, Listed, IsList, PrevIn
    <2>4. IsFirst(all, r, head) /\ IsLast(all, r, tbl.tail)
      BY <1>2 DEF Sound, Listed, IsList, IsChain
    <2>5. tbl.tail # Null
      BY <1>3, <2>4, EmptyList
    <2> HIDE DEF w
    <2>6. Len(w) \in Nat /\ DOMAIN w = 1..Len(w) /\ \A k \in 1..Len(w) : w[k] \in all
      BY <2>1 DEF Lists
    <2>7. \A k \in 1..Len(w) : node[w[k]].prev = Before(w, k)
      BY <1>3, <2>1, <2>3, <2>6, PrevIsBefore
    <2>8. LeadBack(w, [p \in Paths |-> node[p].prev])
      BY <1>3, <2>6, <2>7 DEF LeadBack
    <2>9. Last(w) = tbl.tail
      BY <1>3, <2>1, <2>4, <2>5, LastIsAtEnd DEF Last
    <2> QED BY <2>2, <2>8, <2>9 DEF w
  <1>6. tbl.num_items = Cardinality(UNION {{b} \X DOMAIN ChainOf(b) : b \in DOMAIN tbl.buckets})
    BY <1>2, <1>3, SumOfChains DEF ChainOf
  <1> QED BY <1>3, <1>4, <1>5, <1>6

\* A lookup would find just the entries.
LEMMA InvImpliesFound ==
  ASSUME IInv
  PROVE  EntriesAreFound
  <1> SUFFICES ASSUME IsAlone
               PROVE  /\ entries = {} <=> head = Null
                      /\ \A p \in Paths :
                           p \in entries <=> p \in ToSet(ChainOf(Bucket(p, Size(tbl.buckets))))
    BY DEF EntriesAreFound
  <1>1. PICK n, all, in, r, h : IInvFor(n, all, in, r, h)
    BY DEF IInv
  <1>2. Sound(node, head, tbl, n, all, all, r, h) /\ entries = all
    BY <1>1 DEF IInvFor
  <1>3. /\ Size(tbl.buckets) = n /\ all \in SUBSET Paths
        /\ \A p \in Paths : Bucket(p, n) \in 0..(n - 1)
    BY <1>2, SoundSize DEF Sound
  <1>4. entries = {} <=> head = Null
    <2>1. IsFirst(all, r, head)
      BY <1>2 DEF Sound, Listed, IsList, IsChain
    <2> QED BY <1>2, <1>3, <2>1, EmptyList
  <1>5. ASSUME NEW p \in Paths
        PROVE  p \in entries <=> p \in ToSet(ChainOf(Bucket(p, Size(tbl.buckets))))
    <2> DEFINE b == Bucket(p, n)
               S == InBucket(all, b, n)
               w == ChainOf(b)
    <2>1. Lists(w, S, h)
      BY <1>2, <1>3, SoundWalks DEF ChainOf
    <2>2. p \in all <=> p \in S
      BY DEF InBucket
    <2> HIDE DEF S, w
    <2>3. p \in S <=> p \in ToSet(w)
      BY <2>1 DEF Lists, ToSet
    <2> QED BY <1>2, <1>3, <2>2, <2>3 DEF w
  <1> QED BY <1>4, <1>5

-----------------------------------------------------------------------------
(* Steps that leave the table alone.                                       *)

\* What is left to show when a step of the only thread has been described.
LEMMA StepKeepsInv ==
  ASSUME IInv, OneThread, NEW t \in Threads, NEW x,
         thread' = [thread EXCEPT ![t] = x], entries' \subseteq Paths,
         NEW n, NEW all, NEW in, NEW r, NEW h,
         Sound(node', head', tbl', n, all, in, r, h),
         ThreadInv(x, node', head', tbl', n, all, in, h, entries'),
         x.pc = "idle" => in = all /\ entries' = all
  PROVE  IInv'
  <1>1. DOMAIN thread' = Threads /\ \A u \in Threads : thread'[u] = x
    BY DEF IInv, OneThread
  <1>2. IsAlone' => in = all /\ entries' = all
    BY <1>1 DEF IsAlone, At
  <1>3. \A u \in Threads : ThreadInv(thread'[u], node', head', tbl', n, all, in, h, entries')
    BY <1>1
  <1>4. IInvFor(n, all, in, r, h)'
    BY <1>2, <1>3 DEF IInvFor
  <1> QED BY <1>1, <1>4 DEF IInv

\* The only thread is alone when it is idle.
LEMMA IdleIsAlone ==
  ASSUME OneThread, NEW t \in Threads, At(t, "idle")
  PROVE  IsAlone
  BY DEF OneThread, IsAlone

\* Returning leaves the table as it is.
LEMMA IdleType ==
  ASSUME NEW nodes, NEW first, NEW t, NEW n, NEW all, NEW in, NEW h, NEW there
  PROVE  ThreadInv(Idle, nodes, first, t, n, all, in, h, there)
  BY DEF ThreadInv, Idle

\* A lookup starts at or before the entry it is for.
LEMMA HeadOfChain ==
  ASSUME NEW nodes, NEW first, NEW t, NEW n, NEW all, NEW r, NEW h,
         Sound(nodes, first, t, n, all, all, r, h), NEW p \in Paths,
         NEW out, out = IF first = Null THEN Null ELSE t.buckets[Bucket(p, Size(t.buckets))].hh_head
  PROVE  /\ out = Null \/ out \in InBucket(all, Bucket(p, n), n)
         /\ p \in all => out # Null /\ h[out] <= h[p]
  <1> DEFINE b == Bucket(p, n)
             S == InBucket(all, b, n)
  <1>1. b \in 0..(n - 1) /\ Size(t.buckets) = n /\ S \in SUBSET Paths /\ all \in SUBSET Paths
    BY SoundSize DEF Sound, InBucket
  <1>2. IsFirst(S, h, t.buckets[b].hh_head)
    BY <1>1 DEF Sound, Chained, IsList, IsChain
  <1>3. first = Null <=> all = {}
    BY <1>1, EmptyList DEF Sound, Listed, IsList, IsChain
  <1>4. p \in all => p \in S
    BY DEF InBucket
  <1> HIDE DEF S, b
  <1>5. CASE first = Null
    BY <1>3, <1>5
  <1>6. CASE first # Null
    <2>1. out = t.buckets[b].hh_head
      BY <1>1, <1>6 DEF b
    <2>2. out = Null \/ out \in S
      BY <1>2, <2>1 DEF IsFirst
    <2>3. p \in all => out # Null /\ h[out] <= h[p]
      BY <1>1, <1>2, <1>4, <2>1, NullIsNoPath DEF IsFirst
    <2> QED BY <2>2, <2>3 DEF S, b
  <1> QED BY <1>5, <1>6

\* HASH_FIND starts.
LEMMA InvFind ==
  ASSUME IInv, OneThread, NEW t \in Threads, NEW p \in Paths,
         hashable_get_entry(t, p) \/ hashtable_remove_entry(t, p)
  PROVE  IInv'
  <1>1. PICK n, all, in, r, h : IInvFor(n, all, in, r, h)
    BY DEF IInv
  <1>2. IsAlone
    BY IdleIsAlone DEF hashable_get_entry, hashtable_remove_entry, IsFree
  <1>3. Sound(node, head, tbl, n, all, all, r, h) /\ entries = all /\ all \subseteq Paths
    BY <1>1, <1>2 DEF IInvFor, Sound
  <1>4. PICK op \in {"get", "remove"} :
          /\ Find(t, op, p)
          /\ op = "get" => entries' = entries
          /\ op = "remove" => p \in entries /\ entries' = entries \ {p}
    BY DEF hashable_get_entry, hashtable_remove_entry
  <1> DEFINE out == IF head = Null THEN Null ELSE tbl.buckets[Bucket(p, Size(tbl.buckets))].hh_head
             x == [pc |-> "compare", op |-> op, path |-> p, size |-> 0, out |-> out]
  <1>5. /\ out = Null \/ out \in InBucket(all, Bucket(p, n), n)
        /\ p \in all => out # Null /\ h[out] <= h[p]
    BY <1>3, HeadOfChain
  <1>6. /\ thread' = [thread EXCEPT ![t] = x] /\ entries' \subseteq Paths
        /\ node' = node /\ head' = head /\ tbl' = tbl
    BY <1>3, <1>4 DEF Find
  <1> HIDE DEF out
  <1>7. out \in Paths \cup {Null}
    BY <1>3, <1>5 DEF InBucket
  <1>8. Comparing(x, n, all, all, h, entries')
    BY <1>3, <1>4, <1>5 DEF Comparing
  <1>9. ThreadInv(x, node', head', tbl', n, all, all, h, entries')
    BY <1>7, <1>8 DEF ThreadInv
  <1>10. Sound(node', head', tbl', n, all, all, r, h)
    BY <1>3, <1>6
  <1>11. x.pc # "idle"
    OBVIOUS
  <1> HIDE DEF x
  <1> QED BY <1>6, <1>9, <1>10, <1>11, StepKeepsInv

\* A thread that compares is at an entry of the bucket, at or before its own.
LEMMA ComparingThread ==
  ASSUME NEW n, NEW all, NEW in, NEW r, NEW h, IInvFor(n, all, in, r, h),
         NEW t \in Threads, At(t, "compare")
  PROVE  /\ Comparing(thread[t], n, all, all, h, entries)
         /\ Sound(node, head, tbl, n, all, all, r, h)
         /\ all \subseteq Paths
  <1>1. ThreadInv(thread[t], node, head, tbl, n, all, in, h, entries)
    BY DEF IInvFor
  <1>2. Comparing(thread[t], n, all, in, h, entries)
    BY <1>1 DEF ThreadInv, At, Idle, Linking, Freeing
  <1>3. in = all
    BY <1>2 DEF Comparing
  <1> QED BY <1>2, <1>3 DEF IInvFor, Sound

\* HASH_FIND_IN_BKT goes on.
LEMMA InvCompare ==
  ASSUME IInv, OneThread, NEW t \in Threads, Compare(t)
  PROVE  IInv'
  <1>1. PICK n, all, in, r, h : IInvFor(n, all, in, r, h)
    BY DEF IInv
  <1> DEFINE th == thread[t]
             p == th.path
             out == th.out
             next == node[out].hh_next
             b == Bucket(p, n)
             S == InBucket(all, b, n)
             x == [th EXCEPT !.out = next]
  <1>2. /\ At(t, "compare") /\ out # Null /\ out # p
        /\ thread' = [thread EXCEPT ![t].out = next]
        /\ node' = node /\ head' = head /\ tbl' = tbl /\ entries' = entries
    BY DEF Compare
  <1>3. /\ Comparing(th, n, all, all, h, entries)
        /\ Sound(node, head, tbl, n, all, all, r, h) /\ all \subseteq Paths
    BY <1>1, <1>2, ComparingThread
  <1>4. /\ p \in Paths /\ out \in S /\ S \subseteq Paths
        /\ p \in all => h[out] <= h[p] /\ p \in S
        /\ b \in 0..(n - 1)
    BY <1>2, <1>3, SoundSize DEF Comparing, InBucket
  <1>5. /\ IsNext(S, h, out, next)
        /\ \A q \in S : h[q] \in Int /\ \A s \in S : h[q] = h[s] => q = s
    BY <1>3, <1>4 DEF Sound, Chained, IsList, IsChain, Ranked, HHNextIn
  <1>6. next = Null \/ next \in S
    BY <1>5 DEF IsNext
  <1>7. p \in all => next # Null /\ h[next] <= h[p]
    <2> SUFFICES ASSUME p \in all PROVE next # Null /\ h[next] <= h[p]
      OBVIOUS
    <2>1. h[out] < h[p] /\ p \in S
      BY <1>2, <1>4, <1>5
    <2> HIDE DEF S, next, out, p
    <2> QED BY <1>4, <1>5, <2>1, NullIsNoPath DEF IsNext
  <1>8. ThreadInv(th, node, head, tbl, n, all, in, h, entries)
    BY <1>1 DEF IInvFor
  <1>9. thread' = [thread EXCEPT ![t] = x]
    BY <1>2
  <1>10. next \in Paths \cup {Null}
    BY <1>4, <1>6
  <1>11. th \in [pc : {"idle", "link", "compare", "free"}, op : {"none", "add", "get", "remove", "free"},
                 path : Paths \cup {Null}, out : Paths \cup {Null}, size : Nat]
    BY <1>8 DEF ThreadInv
  <1>12. /\ x \in [pc : {"idle", "link", "compare", "free"}, op : {"none", "add", "get", "remove", "free"},
                   path : Paths \cup {Null}, out : Paths \cup {Null}, size : Nat]
         /\ x.pc = th.pc /\ x.op = th.op /\ x.path = th.path /\ x.out = next
    <2> HIDE DEF th, next
    <2> QED BY <1>10, <1>11
  <1>13. Comparing(x, n, all, all, h, entries)
    <2> HIDE DEF x, next
    <2> QED BY <1>3, <1>6, <1>7, <1>12 DEF Comparing
  <1>14. x.pc # "idle"
    BY <1>3, <1>12 DEF Comparing
  <1> HIDE DEF x
  <1>15. ThreadInv(x, node', head', tbl', n, all, all, h, entries')
    BY <1>2, <1>12, <1>13 DEF ThreadInv
  <1>16. Sound(node', head', tbl', n, all, all, r, h) /\ entries' \subseteq Paths
    BY <1>2, <1>3 DEF IInv
  <1> QED BY <1>9, <1>14, <1>15, <1>16, StepKeepsInv

\* hashable_get_entry returns.
LEMMA InvReturnGet ==
  ASSUME IInv, OneThread, NEW t \in Threads, ReturnGet(t)
  PROVE  IInv'
  <1>1. PICK n, all, in, r, h : IInvFor(n, all, in, r, h)
    BY DEF IInv
  <1>2. /\ At(t, "compare") /\ thread[t].op = "get" /\ thread' = [thread EXCEPT ![t] = Idle]
        /\ node' = node /\ head' = head /\ tbl' = tbl /\ entries' = entries
    BY DEF ReturnGet, Found, NotFound, Return
  <1>3. /\ Comparing(thread[t], n, all, all, h, entries)
        /\ Sound(node, head, tbl, n, all, all, r, h)
    BY <1>1, <1>2, ComparingThread
  <1>4. entries' = all
    BY <1>2, <1>3 DEF Comparing
  <1>5. Sound(node', head', tbl', n, all, all, r, h) /\ entries' \subseteq Paths
    BY <1>2, <1>3 DEF IInv
  <1> QED BY <1>2, <1>4, <1>5, IdleType, StepKeepsInv

\* hashtable_free starts.
LEMMA InvFree ==
  ASSUME IInv, OneThread, NEW t \in Threads, hashtable_free(t)
  PROVE  IInv'
  <1>1. PICK n, all, in, r, h : IInvFor(n, all, in, r, h)
    BY DEF IInv
  <1> DEFINE x == [Idle EXCEPT !.pc = "free", !.op = "free", !.out = head]
  <1>2. /\ IsAlone /\ head # Null /\ thread' = [thread EXCEPT ![t] = x]
        /\ node' = node /\ head' = head /\ tbl' = tbl /\ entries' = entries
    BY DEF hashtable_free
  <1>3. Sound(node, head, tbl, n, all, all, r, h)
    BY <1>1, <1>2 DEF IInvFor
  <1>4. head \in Paths \cup {Null}
    BY <1>3 DEF Sound, Listed, IsList, IsChain, IsFirst
  <1>5. ThreadInv(x, node', head', tbl', n, all, all, h, entries') /\ x.pc # "idle"
    BY <1>2, <1>4 DEF ThreadInv, Freeing, Idle
  <1>6. Sound(node', head', tbl', n, all, all, r, h) /\ entries' \subseteq Paths
    BY <1>2, <1>3 DEF IInv
  <1> HIDE DEF x
  <1> QED BY <1>2, <1>5, <1>6, StepKeepsInv

-----------------------------------------------------------------------------
(* Removals.                                                               *)

\* The table that the last entry takes with it.
LEMMA EmptyIsSound ==
  ASSUME NEW nodes, nodes = [p \in Paths |-> Loose], NEW r, NEW h \in [Paths -> Int], r \in [Paths -> Int]
  PROVE  Sound(nodes, Null, NewTable, InitialBuckets, {}, {}, r, h)
  <1> DEFINE n == InitialBuckets
             t == NewTable
  <1>1. n \in Nat \ {0} /\ IsFiniteSet({}) /\ Cardinality({}) = 0
    BY HashAssumption, FS_EmptySet
  <1>2. nodes \in [Paths -> Links] /\ t \in TableType(n)
    BY <1>1 DEF NewTable, EmptyBucket, TableType, BucketType, Links, Loose
  <1>3. \A b : InBucket({}, b, n) = {}
    BY DEF InBucket
  <1>4. Listed(nodes, Null, t.tail, {}, r)
    BY DEF Listed, IsList, IsChain, Ranked, IsFirst, IsLast, NewTable
  <1>5. \A b \in 0..(n - 1) : t.buckets[b].hh_head = Null /\ t.buckets[b].count = 0
    BY DEF NewTable, EmptyBucket
  <1>6. Chained(nodes, t.buckets, n, {}, h)
    BY <1>3, <1>5 DEF Chained, IsList, IsChain, Ranked, IsFirst
  <1>7. CountsAre(t, n, {})
    BY <1>1, <1>3, <1>5 DEF CountsAre, NewTable
  <1>8. t.ineff_expands <= 1
    BY DEF NewTable
  <1> QED BY <1>1, <1>2, <1>4, <1>6, <1>7, <1>8 DEF Sound

\* The neighbours of an entry in its chain.
LEMMA NeighboursInChain ==
  ASSUME NEW nodes, NEW first, NEW t, NEW n, NEW all, NEW r, NEW h,
         Sound(nodes, first, t, n, all, all, r, h), NEW p \in all
  PROVE  LET S == InBucket(all, Bucket(p, n), n)
         IN  /\ p \in S /\ S \subseteq Paths /\ Bucket(p, n) \in 0..(n - 1)
             /\ nodes[p].hh_prev \in S \cup {Null} /\ nodes[p].hh_next \in S \cup {Null}
             /\ nodes[p].hh_prev = nodes[p].hh_next => nodes[p].hh_prev = Null
             /\ nodes[p].hh_prev # p /\ nodes[p].hh_next # p
  <1> DEFINE b == Bucket(p, n)
             S == InBucket(all, b, n)
             before == nodes[p].hh_prev
             after == nodes[p].hh_next
  <1>1. p \in S /\ S \subseteq Paths /\ b \in 0..(n - 1)
    BY SoundSize DEF Sound, InBucket
  <1>2. IsList(S, h, t.buckets[b].hh_head, HHNextIn(nodes), HHPrevIn(nodes))
    BY <1>1 DEF Sound, Chained
  <1>3. HHNextIn(nodes)[p] = after /\ HHPrevIn(nodes)[p] = before
    BY <1>1 DEF HHNextIn, HHPrevIn
  <1> HIDE DEF S, b, before, after
  <1>4. /\ IsNext(S, h, p, after) /\ IsPrev(S, h, p, before)
        /\ \A q \in S : h[q] \in Int
    BY <1>1, <1>2, <1>3 DEF IsList, IsChain, Ranked
  <1>5. /\ after = Null \/ (after \in S /\ h[p] < h[after])
        /\ before = Null \/ (before \in S /\ h[before] < h[p])
    BY <1>4 DEF IsNext, IsPrev
  <1>6. /\ before = after => before = Null
        /\ before # p /\ after # p
    BY <1>1, <1>4, <1>5, NullIsNoPath
  <1> QED BY <1>1, <1>5, <1>6 DEF S, b, before, after

\* What HASH_DELETE writes when other entries stay: in the table and its list, and
\* in the chain of p.
Deleted(p, n, all) ==
  /\ head' = IF head = p THEN node[p].next ELSE head
  /\ tbl' \in TableType(n)
  /\ tbl'.tail = IF tbl.tail = p THEN node[p].prev ELSE tbl.tail
  /\ tbl'.noexpand = tbl.noexpand /\ tbl'.ineff_expands = tbl.ineff_expands
  /\ CountsAre(tbl', n, all \ {p})
  /\ \A b \in 0..(n - 1) : tbl'.buckets[b].hh_head =
       IF b = Bucket(p, n) /\ tbl.buckets[b].hh_head = p THEN node[p].hh_next
       ELSE tbl.buckets[b].hh_head
  /\ node' \in [Paths -> Links] /\ node'[p] = Loose
  /\ \A q \in Paths \ {p} :
       /\ node'[q].next = IF q = node[p].prev THEN node[p].next ELSE node[q].next
       /\ node'[q].prev = IF q = node[p].next THEN node[p].prev ELSE node[q].prev
       /\ node'[q].hh_next = IF q = node[p].hh_prev THEN node[p].hh_next ELSE node[q].hh_next
       /\ node'[q].hh_prev = IF q = node[p].hh_next THEN node[p].hh_prev ELSE node[q].hh_prev
  /\ \A q \in Paths \ all : node'[q] = Loose

\* HASH_DELETE writes just that.
LEMMA DeletedLinks ==
  ASSUME NEW n, NEW all, NEW r, NEW h,
         Sound(node, head, tbl, n, all, all, r, h), NEW p \in all, Delete(p),
         ~ (node[p].prev = Null /\ node[p].next = Null)
  PROVE  Deleted(p, n, all)
  <1> DEFINE l == node[p]
             b == Bucket(p, n)
             S == InBucket(all, b, n)
  <1>1. /\ n \in Nat \ {0} /\ node \in [Paths -> Links] /\ tbl \in TableType(n)
        /\ all \in SUBSET Paths /\ p \in Paths
        /\ \A q \in Paths \ all : node[q] = Loose
    BY DEF Sound
  <1>2. /\ Size(tbl.buckets) = n /\ IsFiniteSet(all) /\ \A c : IsFiniteSet(InBucket(all, c, n))
        /\ b \in 0..(n - 1)
    BY <1>1, SoundSize
  <1>3. /\ p \in S /\ S \subseteq Paths
        /\ l.hh_prev \in S \cup {Null} /\ l.hh_next \in S \cup {Null}
        /\ l.hh_prev = l.hh_next => l.hh_prev = Null
    BY NeighboursInChain
  <1>4. l \in Links
    BY <1>1
  <1>5. /\ head' = (IF l.prev = Null THEN l.next ELSE head)
        /\ tbl' = [tbl EXCEPT
             !.tail = IF @ = p THEN l.prev ELSE @, !.num_items = @ - 1,
             !.buckets[b] = [tbl.buckets[b] EXCEPT !.count = @ - 1,
                                                   !.hh_head = IF @ = p THEN l.hh_next ELSE @]]
        /\ node' = [q \in Paths |->
             IF q = p THEN Loose
             ELSE [ChainWithout(p)[q] EXCEPT !.next = IF q = l.prev THEN l.next ELSE @,
                                             !.prev = IF q = l.next THEN l.prev ELSE @]]
    BY <1>2 DEF Delete
  \* The head, and the links in the order of the entries.
  <1>6. /\ Ranked(all, r) /\ IsFirst(all, r, head)
        /\ IsPrev(all, r, p, l.prev) /\ IsNext(all, r, p, l.next)
    BY <1>1 DEF Sound, Listed, IsList, IsChain, NextIn, PrevIn
  <1>7. l.prev = Null <=> head = p
    <2>1. \A q, s \in all : r[q] \in Int /\ (r[q] = r[s] => q = s)
      BY <1>1, <1>6 DEF Ranked
    <2>2. head \in all /\ \A q \in all : r[head] <= r[q]
      BY <1>6 DEF IsFirst
    <2>3. ASSUME l.prev = Null PROVE head = p
      <3>1. r[p] <= r[head]
        BY <1>6, <2>2, <2>3, <1>1, NullIsNoPath DEF IsPrev
      <3>2. r[head] = r[p]
        BY <2>1, <2>2, <3>1
      <3> QED BY <2>1, <2>2, <3>2
    <2>4. ASSUME head = p PROVE l.prev = Null
      <3> HIDE DEF l
      <3> QED BY <1>6, <2>1, <2>2, <2>4 DEF IsPrev
    <2> QED BY <2>3, <2>4
  <1>8. head' = IF head = p THEN l.next ELSE head
    BY <1>5, <1>7
  <1> HIDE DEF l
  <1>9. \A q \in Paths : ChainWithout(p)[q] =
          IF q = l.hh_prev THEN [node[q] EXCEPT !.hh_next = l.hh_next]
          ELSE IF q = l.hh_next THEN [node[q] EXCEPT !.hh_prev = l.hh_prev] ELSE node[q]
    BY DEF ChainWithout, l
  <1>10. \A q \in Paths :
           /\ ChainWithout(p)[q] \in Links
           /\ ChainWithout(p)[q].next = node[q].next /\ ChainWithout(p)[q].prev = node[q].prev
           /\ ChainWithout(p)[q].hh_next = IF q = l.hh_prev THEN l.hh_next ELSE node[q].hh_next
           /\ ChainWithout(p)[q].hh_prev = IF q = l.hh_next THEN l.hh_prev ELSE node[q].hh_prev
    <2> SUFFICES ASSUME NEW q \in Paths
                 PROVE  /\ ChainWithout(p)[q] \in Links
                        /\ ChainWithout(p)[q].next = node[q].next /\ ChainWithout(p)[q].prev = node[q].prev
                        /\ ChainWithout(p)[q].hh_next = IF q = l.hh_prev THEN l.hh_next ELSE node[q].hh_next
                        /\ ChainWithout(p)[q].hh_prev = IF q = l.hh_next THEN l.hh_prev ELSE node[q].hh_prev
      OBVIOUS
    <2>1. node[q] \in Links /\ (q = l.hh_prev => q # l.hh_next)
      BY <1>1, <1>3, NullIsNoPath
    <2>2. /\ q = l.hh_prev => ChainWithout(p)[q] = [node[q] EXCEPT !.hh_next = l.hh_next]
          /\ q # l.hh_prev /\ q = l.hh_next =>
               ChainWithout(p)[q] = [node[q] EXCEPT !.hh_prev = l.hh_prev]
          /\ q # l.hh_prev /\ q # l.hh_next => ChainWithout(p)[q] = node[q]
      BY <1>9
    <2>3. CASE q = l.hh_prev
      BY <1>4, <2>1, <2>2, <2>3 DEF Links
    <2>4. CASE q # l.hh_prev /\ q = l.hh_next
      BY <1>4, <2>1, <2>2, <2>4 DEF Links
    <2>5. CASE q # l.hh_prev /\ q # l.hh_next
      BY <2>1, <2>2, <2>5
    <2> QED BY <2>3, <2>4, <2>5
  <1>11. ASSUME NEW q \in Paths \ {p}
         PROVE  /\ node'[q] \in Links
                /\ node'[q].next = IF q = l.prev THEN l.next ELSE node[q].next
                /\ node'[q].prev = IF q = l.next THEN l.prev ELSE node[q].prev
                /\ node'[q].hh_next = IF q = l.hh_prev THEN l.hh_next ELSE node[q].hh_next
                /\ node'[q].hh_prev = IF q = l.hh_next THEN l.hh_prev ELSE node[q].hh_prev
    <2> DEFINE c == ChainWithout(p)[q]
    <2>1. node'[q] = [c EXCEPT !.next = IF q = l.prev THEN l.next ELSE @,
                               !.prev = IF q = l.next THEN l.prev ELSE @]
      BY <1>5
    <2>2. /\ c \in Links /\ c.next = node[q].next /\ c.prev = node[q].prev
          /\ c.hh_next = IF q = l.hh_prev THEN l.hh_next ELSE node[q].hh_next
          /\ c.hh_prev = IF q = l.hh_next THEN l.hh_prev ELSE node[q].hh_prev
      BY <1>10
    <2> HIDE DEF c
    <2> QED BY <1>4, <2>1, <2>2 DEF Links
  <1>12. node'[p] = Loose /\ DOMAIN node' = Paths /\ Loose \in Links
    BY <1>1, <1>5 DEF Loose, Links
  <1>13. node' \in [Paths -> Links]
    <2>1. node' = [q \in Paths |-> node'[q]]
      BY <1>5
    <2>2. \A q \in Paths : node'[q] \in Links
      BY <1>11, <1>12
    <2> QED BY <2>1, <2>2
  <1>14. ASSUME NEW q \in Paths \ all PROVE node'[q] = Loose
    <2>1. /\ node[q] = Loose /\ q # p /\ q \notin S
          /\ l.prev \in all \cup {Null} /\ l.next \in all \cup {Null}
      BY <1>1, <1>6 DEF InBucket, IsPrev, IsNext
    <2>2. q # l.hh_prev /\ q # l.hh_next /\ q # l.prev /\ q # l.next
      BY <1>3, <2>1, NullIsNoPath
    <2>3. ChainWithout(p)[q] = Loose
      BY <1>9, <2>1, <2>2
    <2> QED BY <1>5, <2>1, <2>2, <2>3 DEF Loose
  \* The table.
  <1>15. tbl.buckets \in [0..(n - 1) -> BucketType] /\ tbl.buckets[b] \in BucketType
    BY <1>1, <1>2 DEF TableType
  <1> DEFINE old == tbl.buckets[b]
             new == [old EXCEPT !.count = @ - 1, !.hh_head = IF @ = p THEN l.hh_next ELSE @]
  <1>16. tbl' = [tbl EXCEPT !.tail = IF @ = p THEN l.prev ELSE @, !.num_items = @ - 1,
                            !.buckets[b] = new]
    BY <1>5
  <1>17. CountsAre(tbl, n, all)
    BY DEF Sound
  <1>18. /\ Cardinality(all \ {p}) = Cardinality(all) - 1 /\ Cardinality(all \ {p}) \in Nat
         /\ Cardinality(S \ {p}) = Cardinality(S) - 1 /\ Cardinality(S \ {p}) \in Nat
    <2>1. IsFiniteSet(S) /\ IsFiniteSet(all)
      BY <1>2
    <2> HIDE DEF S
    <2> QED BY <1>3, <2>1, FS_RemoveElement, FS_CardinalityType
  <1>19. old.count = Cardinality(S) /\ tbl.num_items = Cardinality(all)
    BY <1>2, <1>17 DEF CountsAre
  <1>20. /\ new \in BucketType /\ new.count = Cardinality(S \ {p})
         /\ new.hh_head = IF old.hh_head = p THEN l.hh_next ELSE old.hh_head
    <2>1. old \in BucketType /\ old.count - 1 = Cardinality(S \ {p})
      BY <1>15, <1>18, <1>19
    <2> HIDE DEF old, S
    <2> QED BY <1>4, <1>18, <2>1 DEF BucketType, Links
  <1> HIDE DEF new
  <1>21. /\ tbl'.buckets = [tbl.buckets EXCEPT ![b] = new]
         /\ tbl'.tail = (IF tbl.tail = p THEN l.prev ELSE tbl.tail)
         /\ tbl'.num_items = tbl.num_items - 1
         /\ tbl'.noexpand = tbl.noexpand /\ tbl'.ineff_expands = tbl.ineff_expands
    BY <1>1, <1>16 DEF TableType
  <1>22. tbl' \in TableType(n)
    <2>1. tbl.num_items - 1 \in Nat /\ (IF tbl.tail = p THEN l.prev ELSE tbl.tail) \in Paths \cup {Null}
      BY <1>1, <1>4, <1>18, <1>19 DEF TableType, Links
    <2>2. [tbl.buckets EXCEPT ![b] = new] \in [0..(n - 1) -> BucketType]
      BY <1>15, <1>20
    <2> QED BY <1>1, <1>16, <2>1, <2>2 DEF TableType
  <1>23. \A c \in 0..(n - 1) : tbl'.buckets[c] = IF c = b THEN new ELSE tbl.buckets[c]
    BY <1>15, <1>21
  <1>24. CountsAre(tbl', n, all \ {p})
    <2>1. ASSUME NEW c \in 0..(n - 1)
          PROVE  tbl'.buckets[c].count = Cardinality(InBucket(all \ {p}, c, n))
      <3>1. CASE c = b
        <4>1. InBucket(all \ {p}, c, n) = S \ {p}
          BY <3>1 DEF InBucket
        <4> QED BY <1>20, <1>23, <3>1, <4>1
      <3>2. CASE c # b
        <4>1. InBucket(all \ {p}, c, n) = InBucket(all, c, n)
          BY <3>2 DEF InBucket
        <4> QED BY <1>17, <1>23, <3>2, <4>1 DEF CountsAre
      <3> QED BY <3>1, <3>2
    <2>2. tbl'.num_items = Cardinality(all \ {p})
      BY <1>18, <1>19, <1>21
    <2> QED BY <2>1, <2>2 DEF CountsAre
  <1>25. \A c \in 0..(n - 1) : tbl'.buckets[c].hh_head =
           IF c = b /\ tbl.buckets[c].hh_head = p THEN l.hh_next ELSE tbl.buckets[c].hh_head
    BY <1>20, <1>23
  <1> QED BY <1>8, <1>11, <1>12, <1>13, <1>14, <1>21, <1>22, <1>24, <1>25 DEF l, Deleted

\* HASH_DELETE leaves a sound table of the other entries.
LEMMA DeleteKeepsSound ==
  ASSUME NEW n, NEW all, NEW r, NEW h,
         Sound(node, head, tbl, n, all, all, r, h), NEW p \in all, Delete(p)
  PROVE  /\ \E m : Sound(node', head', tbl', m, all \ {p}, all \ {p}, r, h)
         /\ all \ {p} = {} <=> node[p].prev = Null /\ node[p].next = Null
  <1> DEFINE U == all \ {p}
             l == node[p]
  <1>1. /\ n \in Nat \ {0} /\ all \in SUBSET Paths /\ p \in Paths /\ h \in [Paths -> Int]
        /\ IsList(all, r, head, NextIn(node), PrevIn(node)) /\ IsLast(all, r, tbl.tail)
        /\ NextIn(node)[p] = l.next /\ PrevIn(node)[p] = l.prev
        /\ \A q \in Paths \ all : node[q] = Loose
        /\ DOMAIN node = Paths
    BY DEF Sound, Listed, NextIn, PrevIn
  <1>2. /\ r \in [Paths -> Int] /\ \A q, s \in all : r[q] = r[s] => q = s
        /\ IsNext(all, r, p, l.next) /\ IsPrev(all, r, p, l.prev)
    BY <1>1 DEF IsList, IsChain, Ranked
  <1>3. U = {} <=> l.prev = Null /\ l.next = Null
    <2>1. ASSUME U = {} PROVE l.prev = Null /\ l.next = Null
      <3>1. \A q \in all : q = p
        BY <2>1
      <3> HIDE DEF l
      <3> QED BY <1>1, <1>2, <3>1 DEF IsNext, IsPrev
    <2>2. ASSUME l.prev = Null, l.next = Null PROVE U = {}
      <3>1. \A q \in all : r[q] = r[p]
        BY <1>1, <1>2, <2>2, NullIsNoPath DEF IsNext, IsPrev
      <3> QED BY <1>2, <3>1
    <2> QED BY <2>1, <2>2
  <1>4. CASE l.prev = Null /\ l.next = Null
    <2>1. head' = Null /\ tbl' = NewTable /\ node' = [node EXCEPT ![p] = Loose]
      BY <1>4 DEF Delete
    <2>2. \A q \in all : q = p
      BY <1>3, <1>4
    <2>3. node' = [q \in Paths |-> Loose]
      BY <1>1, <2>1, <2>2
    <2>4. Sound(node', Null, NewTable, InitialBuckets, {}, {}, r, h)
      BY <1>1, <1>2, <2>3, EmptyIsSound
    <2>5. Sound(node', head', tbl', InitialBuckets, U, U, r, h)
      BY <1>3, <1>4, <2>1, <2>4
    <2> QED BY <1>3, <1>4, <2>5
  <1>5. CASE ~ (l.prev = Null /\ l.next = Null)
    <2>1. /\ head' = IF head = p THEN l.next ELSE head
          /\ tbl' \in TableType(n)
          /\ tbl'.tail = IF tbl.tail = p THEN l.prev ELSE tbl.tail
          /\ tbl'.noexpand = tbl.noexpand /\ tbl'.ineff_expands = tbl.ineff_expands
          /\ CountsAre(tbl', n, U)
          /\ \A b \in 0..(n - 1) : tbl'.buckets[b].hh_head =
               IF b = Bucket(p, n) /\ tbl.buckets[b].hh_head = p THEN l.hh_next
               ELSE tbl.buckets[b].hh_head
          /\ node' \in [Paths -> Links] /\ node'[p] = Loose
          /\ \A q \in Paths \ {p} :
               /\ node'[q].next = IF q = l.prev THEN l.next ELSE node[q].next
               /\ node'[q].prev = IF q = l.next THEN l.prev ELSE node[q].prev
               /\ node'[q].hh_next = IF q = l.hh_prev THEN l.hh_next ELSE node[q].hh_next
               /\ node'[q].hh_prev = IF q = l.hh_next THEN l.hh_prev ELSE node[q].hh_prev
          /\ \A q \in Paths \ all : node'[q] = Loose
      <3>1. Deleted(p, n, all)
        BY <1>5, DeletedLinks
      <3> QED BY <3>1 DEF Deleted
    <2> HIDE DEF l
    <2>2. IsList(U, r, head', NextIn(node'), PrevIn(node'))
      <3>1. Unlinks(all, p, NextIn(node), PrevIn(node), NextIn(node'), PrevIn(node'))
        BY <1>1, <2>1 DEF NextIn, PrevIn, Unlinks
      <3>2. head' = IF head = p THEN NextIn(node)[p] ELSE head
        BY <1>1, <2>1
      <3> QED BY <1>1, <3>1, <3>2, ListDrop
    <2>3. IsLast(U, r, tbl'.tail)
      <3>1. IsLast(U, r, IF tbl.tail = p THEN PrevIn(node)[p] ELSE tbl.tail)
        BY <1>1, LastDrop
      <3> QED BY <1>1, <2>1, <3>1
    <2>4. ASSUME NEW b \in 0..(n - 1)
          PROVE  IsList(InBucket(U, b, n), h, tbl'.buckets[b].hh_head, HHNextIn(node'), HHPrevIn(node'))
      <3> DEFINE S == InBucket(all, b, n)
      <3>1. IsList(S, h, tbl.buckets[b].hh_head, HHNextIn(node), HHPrevIn(node)) /\ S \in SUBSET Paths
        BY <1>1 DEF Sound, Chained, InBucket
      <3>2. /\ l.hh_prev \in InBucket(all, Bucket(p, n), n) \cup {Null}
            /\ l.hh_next \in InBucket(all, Bucket(p, n), n) \cup {Null}
        BY NeighboursInChain DEF l
      <3>3. \A q \in Paths : /\ HHNextIn(node)[q] = node[q].hh_next /\ HHPrevIn(node)[q] = node[q].hh_prev
                             /\ HHNextIn(node')[q] = node'[q].hh_next /\ HHPrevIn(node')[q] = node'[q].hh_prev
        BY DEF HHNextIn, HHPrevIn
      <3>4. CASE b = Bucket(p, n)
        <4>1. p \in S /\ InBucket(U, b, n) = S \ {p}
          BY <3>4 DEF InBucket
        <4> HIDE DEF S
        <4>2. Unlinks(S, p, HHNextIn(node), HHPrevIn(node), HHNextIn(node'), HHPrevIn(node'))
          <5>1. \A q \in S \ {p} : q \in Paths \ {p} /\ q \in Paths /\ p \in Paths
            BY <1>1, <3>1
          <5> QED BY <2>1, <3>3, <5>1 DEF l, Unlinks
        <4>3. tbl'.buckets[b].hh_head =
                IF tbl.buckets[b].hh_head = p THEN HHNextIn(node)[p] ELSE tbl.buckets[b].hh_head
          BY <1>1, <2>1, <3>3, <3>4 DEF l
        <4>4. IsList(S \ {p}, h, tbl'.buckets[b].hh_head, HHNextIn(node'), HHPrevIn(node'))
          BY <3>1, <4>1, <4>2, <4>3, ListDrop
        <4> QED BY <4>1, <4>4
      <3>5. CASE b # Bucket(p, n)
        <4>1. /\ InBucket(U, b, n) = S /\ p \notin S
              /\ \A q \in S : q # l.hh_prev /\ q # l.hh_next /\ q \in Paths
          BY <1>1, <3>1, <3>2, <3>5, NullIsNoPath DEF InBucket
        <4> HIDE DEF S
        <4>2. Agree(S, h, HHNextIn(node), HHPrevIn(node), h, HHNextIn(node'), HHPrevIn(node'))
          BY <2>1, <3>3, <4>1 DEF Agree
        <4>3. IsList(S, h, tbl.buckets[b].hh_head, HHNextIn(node'), HHPrevIn(node'))
          BY <1>1, <3>1, <4>2, ListSame
        <4> QED BY <2>1, <3>5, <4>1, <4>3
      <3> QED BY <3>4, <3>5
    <2>5. tbl'.noexpand \/ tbl'.ineff_expands <= 1
      BY <2>1 DEF Sound
    <2>6. \A q \in Paths \ U : node'[q] = Loose
      BY <2>1
    <2>7. Sound(node', head', tbl', n, U, U, r, h)
      BY <1>1, <1>3, <1>5, <2>1, <2>2, <2>3, <2>4, <2>5, <2>6 DEF Sound, Listed, Chained
    <2> QED BY <1>3, <1>5, <2>7 DEF l
  <1> QED BY <1>4, <1>5

\* hashtable_remove_entry always finds the entry, and frees it.
LEMMA InvDeleteEntry ==
  ASSUME IInv, OneThread, NEW t \in Threads, DeleteEntry(t)
  PROVE  IInv'
  <1>1. PICK n, all, in, r, h : IInvFor(n, all, in, r, h)
    BY DEF IInv
  <1> DEFINE p == thread[t].path
  <1>2. /\ At(t, "compare") /\ thread[t].op = "remove"
        /\ Found(t) \/ NotFound(t)
    BY DEF DeleteEntry, Found, NotFound
  <1>3. /\ Comparing(thread[t], n, all, all, h, entries)
        /\ Sound(node, head, tbl, n, all, all, r, h)
    BY <1>1, <1>2, ComparingThread
  <1>4. p \in all /\ entries = all \ {p} /\ ~ NotFound(t)
    BY <1>2, <1>3 DEF Comparing, NotFound
  <1>5. Delete(p) /\ thread' = [thread EXCEPT ![t] = Idle] /\ entries' = entries
    BY <1>4 DEF DeleteEntry, Return
  <1> HIDE DEF p
  <1>6. PICK m : Sound(node', head', tbl', m, all \ {p}, all \ {p}, r, h)
    BY <1>3, <1>4, <1>5, DeleteKeepsSound
  <1>7. entries' \subseteq Paths
    BY <1>5 DEF IInv
  <1> QED BY <1>4, <1>5, <1>6, <1>7, IdleType, StepKeepsInv

\* Freeing the table goes on with the entry that has become the first one.
LEMMA InvFreeEntry ==
  ASSUME IInv, OneThread, NEW t \in Threads, FreeEntry(t)
  PROVE  IInv'
  <1>1. PICK n, all, in, r, h : IInvFor(n, all, in, r, h)
    BY DEF IInv
  <1> DEFINE th == thread[t]
             p == th.out
             next == node[p].next
  <1>2. At(t, "free") /\ Delete(p)
    BY DEF FreeEntry
  <1>3. ThreadInv(th, node, head, tbl, n, all, in, h, entries)
    BY <1>1 DEF IInvFor
  <1>4. Freeing(th, head, all, in)
    BY <1>2, <1>3 DEF ThreadInv, At, Idle, Linking, Comparing
  <1>5. /\ Sound(node, head, tbl, n, all, all, r, h) /\ all \subseteq Paths
        /\ p = head /\ head # Null /\ th.op = "free"
    BY <1>1, <1>4 DEF Freeing, IInvFor, Sound
  <1>6. /\ p \in all /\ node[p].prev = Null /\ (next = Null \/ next \in all)
    <2>1. IsFirst(all, r, head)
      BY <1>5 DEF Sound, Listed, IsList, IsChain
    <2>2. p \in all /\ \A q \in all : r[p] <= r[q]
      BY <1>5, <2>1 DEF IsFirst
    <2>3. /\ IsPrev(all, r, p, node[p].prev) /\ IsNext(all, r, p, next)
          /\ \A q \in all : r[q] \in Int
      BY <1>5, <2>2 DEF Sound, Listed, IsList, IsChain, NextIn, PrevIn, Ranked
    <2> HIDE DEF p, next
    <2> QED BY <2>2, <2>3 DEF IsPrev, IsNext
  <1>7. /\ \E m : Sound(node', head', tbl', m, all \ {p}, all \ {p}, r, h)
        /\ all \ {p} = {} <=> next = Null
    <2> HIDE DEF p
    <2> QED BY <1>2, <1>5, <1>6, DeleteKeepsSound
  <1>8. PICK m : Sound(node', head', tbl', m, all \ {p}, all \ {p}, r, h)
    BY <1>7
  <1>9. CASE next = Null
    <2>1. thread' = [thread EXCEPT ![t] = Idle] /\ entries' = {}
      BY <1>9 DEF FreeEntry, Successor, Return
    <2>2. all \ {p} = {}
      BY <1>7, <1>9
    <2>3. Sound(node', head', tbl', m, {}, {}, r, h)
      BY <1>8, <2>2
    <2> QED BY <2>1, <2>3, IdleType, StepKeepsInv
  <1>10. CASE next # Null
    <2> DEFINE x == [th EXCEPT !.out = next]
    <2>1. thread' = [thread EXCEPT ![t] = x] /\ entries' = entries
      BY <1>10 DEF FreeEntry, Successor
    <2>2. head' = next
      BY <1>2, <1>5, <1>6, <1>10 DEF Delete
    <2>3. th \in [pc : {"idle", "link", "compare", "free"}, op : {"none", "add", "get", "remove", "free"},
                  path : Paths \cup {Null}, out : Paths \cup {Null}, size : Nat]
      BY <1>3 DEF ThreadInv
    <2>4. next \in Paths \cup {Null} /\ th.pc = "free"
      BY <1>5, <1>6, <1>4 DEF Freeing
    <2> HIDE DEF th, next, p
    <2>5. /\ x \in [pc : {"idle", "link", "compare", "free"}, op : {"none", "add", "get", "remove", "free"},
                    path : Paths \cup {Null}, out : Paths \cup {Null}, size : Nat]
          /\ x.pc = "free" /\ x.op = th.op /\ x.out = next
      BY <2>3, <2>4
    <2> HIDE DEF x
    <2>6. ThreadInv(x, node', head', tbl', m, all \ {p}, all \ {p}, h, entries')
      BY <1>5, <1>10, <2>2, <2>5 DEF ThreadInv, Freeing
    <2>7. entries' \subseteq Paths /\ x.pc # "idle"
      BY <2>1, <2>5 DEF IInv
    <2> QED BY <1>8, <2>1, <2>6, <2>7, StepKeepsInv
  <1> QED BY <1>9, <1>10

-----------------------------------------------------------------------------
(* Insertion: the entry joins the list, and then its chain.                *)

\* An insertion appends the entry to the list and counts it.
LEMMA InvAdd ==
  ASSUME IInv, OneThread, NEW t \in Threads, NEW p \in Paths, hashtable_add_entry(t, p)
  PROVE  IInv'
  <1>1. PICK n, all, in, r, h : IInvFor(n, all, in, r, h)
    BY DEF IInv
  <1>2. IsAlone
    BY IdleIsAlone DEF hashtable_add_entry, IsFree
  <1>3. /\ Sound(node, head, tbl, n, all, all, r, h) /\ entries = all
        /\ all \in SUBSET Paths /\ p \notin all
    BY <1>1, <1>2 DEF IInvFor, Sound, hashtable_add_entry
  <1>4. /\ n \in Nat \ {0} /\ node \in [Paths -> Links] /\ tbl \in TableType(n)
        /\ h \in [Paths -> Int] /\ (tbl.noexpand \/ tbl.ineff_expands <= 1)
        /\ all = {} => tbl = NewTable
        /\ node[p] = Loose /\ \A q \in Paths \ all : node[q] = Loose
    BY <1>3 DEF Sound
  <1>5. /\ IsList(all, r, head, NextIn(node), PrevIn(node)) /\ IsLast(all, r, tbl.tail)
        /\ IsFirst(all, r, head)
    BY <1>3 DEF Sound, Listed, IsList, IsChain
  <1>6. (head = Null <=> all = {}) /\ (tbl.tail = Null <=> all = {})
    BY <1>3, <1>5, EmptyList
  <1>7. head \in all \cup {Null} /\ tbl.tail \in all \cup {Null}
    BY <1>5 DEF IsFirst, IsLast
  <1> DEFINE b == Bucket(p, n)
             U == all \cup {p}
             l == tbl.buckets[b].hh_head
             x == [Idle EXCEPT !.pc = "link", !.op = "add", !.path = p, !.size = n]
  <1>8. /\ Size(tbl.buckets) = n /\ b \in 0..(n - 1) /\ IsFiniteSet(all)
        /\ \A c : IsFiniteSet(InBucket(all, c, n))
    BY <1>3, SoundSize
  <1>9. /\ head' = IF head = Null THEN p ELSE head
        /\ node' = [(IF head = Null THEN node ELSE Appended(p)) EXCEPT ![p].hh_next = l]
        /\ tbl' = Counted(tbl, p, b) /\ thread' = [thread EXCEPT ![t] = x]
        /\ entries' = entries
    <2>1. tbl = IF head = Null THEN NewTable ELSE tbl
      BY <1>4, <1>6
    <2> QED BY <1>8, <2>1 DEF hashtable_add_entry
  <1>10. l \in Paths \cup {Null}
    BY <1>4, <1>8 DEF TableType, BucketType
  <1> HIDE DEF b, l, x
  <1>11. /\ node' \in [Paths -> Links]
         /\ node'[p] = [prev |-> tbl.tail, next |-> Null, hh_prev |-> Null, hh_next |-> l]
         /\ \A q \in Paths \ {p} :
              node'[q] = IF q = tbl.tail THEN [node[q] EXCEPT !.next = p] ELSE node[q]
    <2>1. CASE head = Null
      <3>1. tbl.tail = Null /\ node' = [node EXCEPT ![p].hh_next = l]
        BY <1>6, <1>9, <2>1
      <3> QED BY <1>4, <1>10, <3>1, NullIsNoPath DEF Loose, Links
    <2>2. CASE head # Null
      <3>1. tbl.tail \in all /\ tbl.tail # p /\ tbl.tail \in Paths
        BY <1>3, <1>6, <1>7, <2>2
      <3>2. node' = [Appended(p) EXCEPT ![p].hh_next = l]
        BY <1>9, <2>2
      <3>3. /\ Appended(p) \in [Paths -> Links]
            /\ Appended(p)[p] = [Loose EXCEPT !.prev = tbl.tail]
            /\ \A q \in Paths \ {p} :
                 Appended(p)[q] = IF q = tbl.tail THEN [node[q] EXCEPT !.next = p] ELSE node[q]
        BY <1>4, <3>1 DEF Appended, Loose, Links
      <3> HIDE DEF Appended
      <3> QED BY <1>10, <3>2, <3>3 DEF Loose, Links
    <2> QED BY <2>1, <2>2
  <1>12. /\ NextIn(node')[p] = Null /\ PrevIn(node')[p] = tbl.tail
         /\ HHNextIn(node')[p] = l /\ HHPrevIn(node')[p] = Null
         /\ \A q \in all : /\ NextIn(node')[q] = IF q = tbl.tail THEN p ELSE NextIn(node)[q]
                           /\ PrevIn(node')[q] = PrevIn(node)[q]
                           /\ HHNextIn(node')[q] = HHNextIn(node)[q]
                           /\ HHPrevIn(node')[q] = HHPrevIn(node)[q]
    <2>1. \A q \in all : q \in Paths \ {p} /\ q \in Paths
      BY <1>3
    <2> QED BY <1>4, <1>11, <2>1 DEF NextIn, PrevIn, HHNextIn, HHPrevIn, Links
  <1>13. \A q \in Paths \ U : node'[q] = Loose
    BY <1>4, <1>7, <1>11, NullIsNoPath
  <1>14. \E r2 : /\ IsList(U, r2, head', NextIn(node'), PrevIn(node')) /\ IsLast(U, r2, p)
    <2> DEFINE next2 == NextIn(node')
               prev2 == PrevIn(node')
               next == NextIn(node)
               prev == PrevIn(node)
               last == tbl.tail
    <2>1. Appends(all, p, last, next, prev, next2, prev2)
      BY <1>12 DEF Appends
    <2>2. IsList(all, r, head, next, prev) /\ IsLast(all, r, last)
      BY <1>5
    <2> HIDE DEF next, prev, next2, prev2, last
    <2>3. \E r2 : /\ IsList(U, r2, IF head = Null THEN p ELSE head, next2, prev2)
                  /\ IsLast(U, r2, p)
      BY <1>3, <2>1, <2>2, ListAppend
    <2> QED BY <1>9, <2>3 DEF next2, prev2
  <1>15. PICK r2 : IsList(U, r2, head', NextIn(node'), PrevIn(node')) /\ IsLast(U, r2, p)
    BY <1>14
  <1>16. Chained(node', tbl.buckets, n, all, h)
    <2> SUFFICES ASSUME NEW c \in 0..(n - 1)
                 PROVE  IsList(InBucket(all, c, n), h, tbl.buckets[c].hh_head,
                               HHNextIn(node'), HHPrevIn(node'))
      BY DEF Chained
    <2> DEFINE S == InBucket(all, c, n)
    <2>1. S \in SUBSET Paths /\ S \subseteq all
      BY <1>3 DEF InBucket
    <2>2. IsList(S, h, tbl.buckets[c].hh_head, HHNextIn(node), HHPrevIn(node))
      BY <1>3 DEF Sound, Chained
    <2> HIDE DEF S
    <2>3. Agree(S, h, HHNextIn(node), HHPrevIn(node), h, HHNextIn(node'), HHPrevIn(node'))
      BY <1>12, <2>1 DEF Agree
    <2>4. IsList(S, h, tbl.buckets[c].hh_head, HHNextIn(node'), HHPrevIn(node'))
      BY <1>4, <2>1, <2>2, <2>3, ListSame
    <2> QED BY <2>4 DEF S
  <1>17. /\ tbl' \in TableType(n) /\ tbl'.tail = p /\ tbl'.num_items = tbl.num_items + 1
         /\ tbl'.noexpand = tbl.noexpand /\ tbl'.ineff_expands = tbl.ineff_expands
         /\ \A c \in 0..(n - 1) :
              /\ tbl'.buckets[c].hh_head = tbl.buckets[c].hh_head
              /\ tbl'.buckets[c].count =
                   IF c = b THEN tbl.buckets[c].count + 1 ELSE tbl.buckets[c].count
    <2> DEFINE k == tbl.buckets[b]
               k2 == [k EXCEPT !.count = @ + 1]
               bs == [tbl.buckets EXCEPT ![b] = k2]
    <2>1. /\ tbl.buckets \in [0..(n - 1) -> BucketType] /\ k \in BucketType
          /\ tbl.num_items \in Nat
      BY <1>4, <1>8 DEF TableType
    <2>2. k2 \in BucketType /\ k2.count = k.count + 1 /\ k2.hh_head = k.hh_head
      BY <2>1 DEF BucketType
    <2>3. tbl' = [tbl EXCEPT !.tail = p, !.num_items = @ + 1, !.buckets[b] = k2]
      BY <1>9 DEF Counted
    <2> HIDE DEF k2
    <2>4. /\ tbl'.buckets = bs /\ tbl'.tail = p /\ tbl'.num_items = tbl.num_items + 1
          /\ tbl'.noexpand = tbl.noexpand /\ tbl'.ineff_expands = tbl.ineff_expands
      BY <1>4, <2>3 DEF TableType
    <2>5. bs \in [0..(n - 1) -> BucketType] /\ tbl' \in TableType(n)
      <3>1. bs \in [0..(n - 1) -> BucketType]
        BY <2>1, <2>2
      <3>2. tbl \in TableType(n) /\ tbl.num_items + 1 \in Nat
        BY <1>4, <2>1
      <3> QED BY <2>3, <3>1, <3>2 DEF TableType
    <2>6. \A c \in 0..(n - 1) : bs[c] = IF c = b THEN k2 ELSE tbl.buckets[c]
      BY <2>1
    <2> HIDE DEF bs, k
    <2>7. ASSUME NEW c \in 0..(n - 1)
          PROVE  /\ bs[c].hh_head = tbl.buckets[c].hh_head
                 /\ bs[c].count = IF c = b THEN tbl.buckets[c].count + 1 ELSE tbl.buckets[c].count
      <3>1. CASE c = b
        BY <2>2, <2>6, <3>1 DEF k
      <3>2. CASE c # b
        BY <2>6, <3>2
      <3> QED BY <3>1, <3>2
    <2> QED BY <2>4, <2>5, <2>7
  <1>18. CountsAre(tbl', n, U)
    <2>1. Cardinality(U) = Cardinality(all) + 1
      BY <1>3, <1>8, FS_AddElement
    <2>2. ASSUME NEW c \in 0..(n - 1)
          PROVE  tbl'.buckets[c].count = Cardinality(InBucket(U, c, n))
      <3> DEFINE S == InBucket(all, c, n)
      <3>1. InBucket(U, c, n) = IF c = b THEN S \cup {p} ELSE S
        BY <1>3 DEF InBucket, b
      <3>2. p \notin S /\ IsFiniteSet(S) /\ tbl.buckets[c].count = Cardinality(S)
        BY <1>3, <1>8 DEF InBucket, Sound, CountsAre
      <3> HIDE DEF S
      <3>3. Cardinality(S \cup {p}) = Cardinality(S) + 1
        BY <3>2, FS_AddElement
      <3> QED BY <1>17, <3>1, <3>2, <3>3
    <2> QED BY <1>3, <1>17, <2>1, <2>2 DEF CountsAre, Sound
  <1>19. Sound(node', head', tbl', n, U, all, r2, h)
    <2>1. Listed(node', head', tbl'.tail, U, r2)
      BY <1>15, <1>17 DEF Listed
    <2>2. Chained(node', tbl'.buckets, n, all, h)
      BY <1>16, <1>17 DEF Chained
    <2>3. U \subseteq Paths /\ all \subseteq U /\ U # {}
      BY <1>3
    <2> HIDE DEF U
    <2> QED BY <1>4, <1>11, <1>13, <1>17, <1>18, <2>1, <2>2, <2>3 DEF Sound
  <1>20. Linking(x, node', tbl', n, U, all, entries')
    <2>1. x.pc = "link" /\ x.path = p /\ x.size = n
      BY DEF x, Idle
    <2>2. node'[p].hh_next = tbl'.buckets[b].hh_head /\ node'[p].hh_prev = Null
      BY <1>8, <1>11, <1>17 DEF l
    <2> QED BY <1>3, <1>9, <2>1, <2>2 DEF Linking, b
  <1>21. /\ x \in [pc : {"idle", "link", "compare", "free"}, op : {"none", "add", "get", "remove", "free"},
                   path : Paths \cup {Null}, out : Paths \cup {Null}, size : Nat]
         /\ x.pc # "idle"
    BY <1>4 DEF x, Idle
  <1>22. ThreadInv(x, node', head', tbl', n, U, all, h, entries')
    BY <1>20, <1>21 DEF ThreadInv
  <1>23. entries' \subseteq Paths
    BY <1>3, <1>9
  <1> HIDE DEF U
  <1> QED BY <1>9, <1>19, <1>21, <1>22, <1>23, StepKeepsInv

\* Some places of a chain have entries of it, or there is no place.
LEMMA EndsOfPlaces ==
  ASSUME NEW S, NEW w, Len(w) \in Nat, w \in [1..Len(w) -> S], NEW ks \in SUBSET (1..Len(w))
  PROVE  LastAt(w, ks) \in S \cup {Null} /\ FirstAt(w, ks) \in S \cup {Null}
  <1>1. CASE ks = {}
    BY <1>1 DEF LastAt, FirstAt
  <1>2. CASE ks # {}
    <2>1. Max(ks) \in 1..Len(w) /\ Min(ks) \in 1..Len(w)
      BY <1>2, Extremes
    <2> QED BY <1>2, <2>1 DEF LastAt, FirstAt
  <1> QED BY <1>1, <1>2

\* The chains of a sound table, and no place of two entries.
LEMMA ChainPlaces ==
  ASSUME NEW nodes, NEW first, NEW t, NEW n, NEW all, NEW r, NEW h,
         Sound(nodes, first, t, n, all, all, r, h), NEW b \in 0..(n - 1)
  PROVE  LET w == Chain(nodes, t.buckets, b)
         IN  /\ Ranked(InBucket(all, b, n), h) /\ Lists(w, InBucket(all, b, n), h)
             /\ Len(w) \in Nat /\ DOMAIN w = 1..Len(w) /\ w \in [1..Len(w) -> InBucket(all, b, n)]
             /\ \A p \in InBucket(all, b, n) : \E k \in 1..Len(w) : w[k] = p
             /\ \A j, k \in 1..Len(w) : w[j] = w[k] => j = k
  <1> DEFINE S == InBucket(all, b, n)
             w == Chain(nodes, t.buckets, b)
  <1>1. Ranked(S, h) /\ Lists(w, S, h)
    BY SoundWalks
  <1>2. S \in SUBSET Paths
    BY DEF Sound, InBucket
  <1> HIDE DEF S, w
  <1>3. \A j, k \in 1..Len(w) : w[j] = w[k] => j = k
    BY <1>1, <1>2, PlacesAndRanks
  <1>4. /\ Len(w) \in Nat /\ w \in [1..Len(w) -> S]
        /\ \A p \in S : \E k \in 1..Len(w) : w[k] = p
    BY <1>1 DEF Lists
  <1>5. DOMAIN w = 1..Len(w)
    BY <1>4
  <1> QED BY <1>1, <1>3, <1>4, <1>5 DEF S, w

\* Every entry moves from its place of its old chain, and no other is touched.
LEMMA RelinkedNodes ==
  ASSUME NEW nodes, NEW first, NEW t, NEW n, NEW all, NEW r, NEW h,
         Sound(nodes, first, t, n, all, all, r, h)
  PROVE  /\ \A b \in 0..(n - 1) : \A k \in 1..Len(Chain(nodes, t.buckets, b)) :
              Relinked(nodes, t.buckets)[Chain(nodes, t.buckets, b)[k]] =
                Moved(nodes, n, Chain(nodes, t.buckets, b), k)
         /\ \A p \in Paths \ all : Relinked(nodes, t.buckets)[p] = nodes[p]
         /\ Relinked(nodes, t.buckets) \in [Paths -> Links]
         /\ \A p \in Paths : /\ Relinked(nodes, t.buckets)[p].next = nodes[p].next
                             /\ Relinked(nodes, t.buckets)[p].prev = nodes[p].prev
  <1> DEFINE new == Relinked(nodes, t.buckets)
             w(b) == Chain(nodes, t.buckets, b)
             S(b) == InBucket(all, b, n)
  <1>1. /\ Size(t.buckets) = n /\ nodes \in [Paths -> Links] /\ all \in SUBSET Paths
        /\ \A p \in Paths : Bucket(p, n) \in 0..(n - 1)
    BY SoundSize DEF Sound
  <1>2. ASSUME NEW b \in 0..(n - 1)
        PROVE  /\ Len(w(b)) \in Nat /\ DOMAIN w(b) = 1..Len(w(b)) /\ w(b) \in [1..Len(w(b)) -> S(b)]
               /\ \A p \in S(b) : \E k \in 1..Len(w(b)) : w(b)[k] = p
               /\ \A j, k \in 1..Len(w(b)) : w(b)[j] = w(b)[k] => j = k
    BY ChainPlaces
  <1>3. new = [p \in Paths |->
                 IF \E k \in DOMAIN w(Bucket(p, n)) : w(Bucket(p, n))[k] = p
                 THEN Moved(nodes, n, w(Bucket(p, n)),
                            CHOOSE k \in DOMAIN w(Bucket(p, n)) : w(Bucket(p, n))[k] = p)
                 ELSE nodes[p]]
    BY <1>1 DEF Relinked
  <1> HIDE DEF w, new
  <1>4. ASSUME NEW b \in 0..(n - 1), NEW k \in 1..Len(w(b))
        PROVE  w(b)[k] \in Paths /\ new[w(b)[k]] = Moved(nodes, n, w(b), k)
    <2> DEFINE p == w(b)[k]
    <2>1. p \in S(b)
      BY <1>2, <1>4
    <2>2. p \in Paths /\ Bucket(p, n) = b
      BY <1>1, <2>1 DEF InBucket
    <2>3. k \in DOMAIN w(b) /\ w(b)[k] = p /\ \A j \in DOMAIN w(b) : w(b)[j] = p => j = k
      BY <1>2, <1>4
    <2> HIDE DEF p
    <2>4. (CHOOSE j \in DOMAIN w(b) : w(b)[j] = p) = k
      BY <2>3
    <2>5. new[p] = Moved(nodes, n, w(b), CHOOSE j \in DOMAIN w(b) : w(b)[j] = p)
      BY <1>3, <2>2, <2>3
    <2> QED BY <2>2, <2>4, <2>5 DEF p
  <1>5. ASSUME NEW p \in Paths \ all
        PROVE  new[p] = nodes[p]
    <2> DEFINE b == Bucket(p, n)
    <2>1. b \in 0..(n - 1)
      BY <1>1
    <2>2. \A k \in DOMAIN w(b) : w(b)[k] \in all
      BY <1>2, <2>1 DEF InBucket
    <2> QED BY <1>3, <1>5, <2>2
  <1>6. ASSUME NEW p \in Paths
        PROVE  new[p] \in Links /\ new[p].next = nodes[p].next /\ new[p].prev = nodes[p].prev
    <2>1. CASE p \notin all
      <3>1. new[p] = nodes[p]
        BY <1>5, <2>1
      <3> QED BY <1>1, <3>1
    <2>2. CASE p \in all
      <3> DEFINE b == Bucket(p, n)
      <3>1. b \in 0..(n - 1) /\ p \in S(b)
        BY <1>1, <2>2 DEF InBucket
      <3> HIDE DEF b
      <3>2. PICK k \in 1..Len(w(b)) : w(b)[k] = p
        BY <1>2, <3>1
      <3>3. new[p] = Moved(nodes, n, w(b), k)
        BY <1>4, <3>1, <3>2
      <3> DEFINE ks == Part(w(b), Bucket(p, 2 * n), 2 * n)
                 last == LastAt(w(b), {j \in ks : j < k})
                 one == FirstAt(w(b), {j \in ks : j > k})
      <3>4. /\ {j \in ks : j < k} \in SUBSET (1..Len(w(b)))
            /\ {j \in ks : j > k} \in SUBSET (1..Len(w(b)))
        BY <1>2, <3>1 DEF Part
      <3>5. S(b) \subseteq Paths
        BY <1>1 DEF InBucket
      <3>6. new[p] = [nodes[p] EXCEPT !.hh_next = last, !.hh_prev = one]
        BY <3>2, <3>3 DEF Moved
      <3> HIDE DEF ks, S
      <3>7. last \in S(b) \cup {Null} /\ one \in S(b) \cup {Null}
        BY <1>2, <3>1, <3>4, EndsOfPlaces
      <3> HIDE DEF last, one
      <3>8. nodes[p] \in Links /\ last \in Paths \cup {Null} /\ one \in Paths \cup {Null}
        BY <1>1, <3>5, <3>7
      <3> QED BY <3>6, <3>8 DEF Links
    <2> QED BY <2>1, <2>2
  <1>7. new \in [Paths -> Links]
    <2>1. new = [p \in Paths |-> new[p]]
      BY <1>3
    <2> QED BY <1>6, <2>1
  <1> QED BY <1>4, <1>5, <1>6, <1>7 DEF new, w

\* Each new bucket has those of its entries that its old chain had, turned round.
LEMMA NewChains ==
  ASSUME NEW nodes, NEW first, NEW t, NEW n, NEW all, NEW r, NEW h,
         Sound(nodes, first, t, n, all, all, r, h),
         NEW new, new = Relinked(nodes, t.buckets),
         NEW b \in 0..(2 * n - 1)
  PROVE  LET w == Chain(nodes, t.buckets, b % n)
         IN  /\ IsList(InBucket(all, b, 2 * n), Reversed(h), LastAt(w, Part(w, b, 2 * n)),
                       HHNextIn(new), HHPrevIn(new))
             /\ Cardinality(Part(w, b, 2 * n)) = Cardinality(InBucket(all, b, 2 * n))
             /\ Cardinality(Part(w, b, 2 * n)) \in Nat
             /\ LastAt(w, Part(w, b, 2 * n)) \in Paths \cup {Null}
  <1> DEFINE w == Chain(nodes, t.buckets, b % n)
             m == 2 * n
             c == b % n
             S == InBucket(all, c, n)
             T == InBucket(all, b, m)
             ks == Part(w, b, m)
  <1>1. /\ n \in Nat \ {0} /\ all \in SUBSET Paths /\ nodes \in [Paths -> Links]
        /\ b \in Nat /\ c \in 0..(n - 1)
    BY DEF Sound
  <1>2. /\ Ranked(S, h) /\ Lists(w, S, h)
        /\ Len(w) \in Nat /\ DOMAIN w = 1..Len(w) /\ w \in [1..Len(w) -> S]
    BY <1>1, ChainPlaces
  <1> HIDE DEF w
  <1>3. T \in SUBSET S /\ S \in SUBSET Paths
    <2>1. ASSUME NEW q \in T PROVE q \in S
      <3>1. q \in all /\ q \in Paths /\ Bucket(q, m) = b
        BY <1>1, <2>1 DEF InBucket
      <3>2. Bucket(q, 2 * n) % n = Bucket(q, n)
        BY <1>1, <3>1, BucketOfHalf
      <3> QED BY <3>1, <3>2 DEF InBucket
    <2> QED BY <1>1, <2>1 DEF InBucket
  <1>4. ks = PlacesOf(w, T)
    <2>1. \A k \in 1..Len(w) : w[k] \in all
      BY <1>2 DEF InBucket
    <2> QED BY <1>2, <2>1 DEF Part, InBucket, PlacesOf
  <1>5. ASSUME NEW k \in ks
        PROVE  /\ HHNextIn(new)[w[k]] = LastAt(w, {j \in ks : j < k})
               /\ HHPrevIn(new)[w[k]] = FirstAt(w, {j \in ks : j > k})
    <2>1. k \in 1..Len(w) /\ w[k] \in S /\ w[k] \in Paths /\ Bucket(w[k], m) = b
      BY <1>2, <1>3, <1>5 DEF Part
    <2>2. new[w[k]] = Moved(nodes, n, w, k)
      BY <1>1, <2>1, RelinkedNodes DEF w
    <2>3. new[w[k]] = [nodes[w[k]] EXCEPT !.hh_next = LastAt(w, {j \in ks : j < k}),
                                          !.hh_prev = FirstAt(w, {j \in ks : j > k})]
      BY <2>1, <2>2 DEF Moved
    <2>4. nodes[w[k]] \in Links
      BY <1>1, <2>1
    <2> HIDE DEF ks
    <2> QED BY <2>1, <2>3, <2>4 DEF HHNextIn, HHPrevIn, Links
  <1>6. T \in SUBSET Paths /\ h \in [Paths -> Int] /\ ks \in SUBSET (1..Len(w))
    BY <1>3, <1>4 DEF Sound, PlacesOf
  <1> HIDE DEF S, T, ks, m
  <1>7. /\ IsList(T, Reversed(h), LastAt(w, ks), HHNextIn(new), HHPrevIn(new))
        /\ IsFiniteSet(ks) /\ Cardinality(ks) = Cardinality(T)
    <2> DEFINE next == HHNextIn(new)
               prev == HHPrevIn(new)
    <2>1. TurnedRound(w, ks, next, prev)
      BY <1>5 DEF TurnedRound
    <2> HIDE DEF next, prev
    <2>2. Ranked(S, h) /\ Lists(w, S, h)
      BY <1>2
    <2>3. /\ IsList(T, Reversed(h), LastAt(w, ks), next, prev)
          /\ IsFiniteSet(ks) /\ Cardinality(ks) = Cardinality(T)
      BY <1>3, <1>4, <2>1, <2>2, PartIsList
    <2> QED BY <2>3 DEF next, prev
  <1>8. Cardinality(ks) \in Nat
    BY <1>7, FS_CardinalityType
  <1>9. LastAt(w, ks) \in Paths \cup {Null}
    BY <1>2, <1>3, <1>6, EndsOfPlaces
  <1> QED BY <1>7, <1>8, <1>9 DEF T, ks, m, w

\* HASH_EXPAND_BUCKETS leaves a sound table with twice the buckets, whose chains
\* are the old ones parted and turned round.
LEMMA ExpandKeepsSound ==
  ASSUME NEW nodes, NEW first, NEW t, NEW n, NEW all, NEW r, NEW h,
         Sound(nodes, first, t, n, all, all, r, h), all # {}, t.ineff_expands <= 1
  PROVE  Sound(Expand(nodes, t).nodes, first, Expand(nodes, t).tbl, 2 * n, all, all, r, Reversed(h))
  <1> DEFINE m == 2 * n
             ideal == (t.num_items + m - 1) \div m
             new == Relinked(nodes, t.buckets)
             w(b) == Chain(nodes, t.buckets, b % n)
             bs == [b \in 0..(m - 1) |-> NewBucket(w(b), b, m, ideal)]
             nonideal == Cardinality(UNION {{b} \X ((ideal + 1)..bs[b].count) : b \in DOMAIN bs})
             ineff == IF nonideal > t.num_items \div 2 THEN t.ineff_expands + 1 ELSE 0
             t2 == [t EXCEPT !.buckets = bs, !.ineff_expands = ineff, !.noexpand = @ \/ ineff > 1]
  <1>1. /\ n \in Nat \ {0} /\ t \in TableType(n) /\ all \in SUBSET Paths /\ h \in [Paths -> Int]
        /\ Listed(nodes, first, t.tail, all, r) /\ t.num_items = Cardinality(all)
        /\ \A p \in Paths \ all : nodes[p] = Loose
    BY DEF Sound, CountsAre
  <1>2. Size(t.buckets) = n
    BY SoundSize
  <1>3. Expand(nodes, t).nodes = new /\ Expand(nodes, t).tbl = t2
    BY <1>2 DEF Expand
  <1>4. m \in Nat \ {0} /\ t.num_items \in Nat /\ t.ineff_expands \in 0..2
    BY <1>1 DEF TableType
  <1>5. ideal \in Nat
    BY <1>4
  <1>6. /\ new \in [Paths -> Links] /\ \A p \in Paths \ all : new[p] = Loose
        /\ NextIn(new) = NextIn(nodes) /\ PrevIn(new) = PrevIn(nodes)
    <2>1. /\ new \in [Paths -> Links] /\ \A p \in Paths \ all : new[p] = nodes[p]
          /\ \A p \in Paths : new[p].next = nodes[p].next /\ new[p].prev = nodes[p].prev
      BY RelinkedNodes
    <2> HIDE DEF new
    <2> QED BY <1>1, <2>1 DEF NextIn, PrevIn
  <1>7. ASSUME NEW b \in 0..(m - 1)
        PROVE  /\ bs[b] \in BucketType
               /\ bs[b].count = Cardinality(InBucket(all, b, m))
               /\ IsList(InBucket(all, b, m), Reversed(h), bs[b].hh_head, HHNextIn(new), HHPrevIn(new))
    <2> DEFINE part == Part(w(b), b, m)
               l == LastAt(w(b), part)
    <2>1. /\ IsList(InBucket(all, b, m), Reversed(h), l, HHNextIn(new), HHPrevIn(new))
          /\ Cardinality(part) = Cardinality(InBucket(all, b, m))
          /\ Cardinality(part) \in Nat /\ l \in Paths \cup {Null}
      BY <1>7, NewChains
    <2>2. bs[b] = [hh_head |-> l, count |-> Cardinality(part),
                   expand_mult |-> ExpandMult(Cardinality(part), ideal)]
      BY <1>7 DEF NewBucket
    <2>3. ExpandMult(Cardinality(part), ideal) \in Nat
      BY <1>5, <2>1, ExpandMultType
    <2> HIDE DEF part, l, bs
    <2> QED BY <2>1, <2>2, <2>3 DEF BucketType
  <1>8. bs \in [0..(m - 1) -> BucketType]
    <2>1. bs = [b \in 0..(m - 1) |-> bs[b]]
      OBVIOUS
    <2> HIDE DEF bs
    <2> QED BY <1>7, <2>1
  <1> HIDE DEF bs, nonideal, ideal, new, w
  <1>9. ineff \in 0..2
    BY <1>4
  <1> HIDE DEF ineff
  <1>10. /\ t2.buckets = bs /\ t2.num_items = t.num_items /\ t2.tail = t.tail
         /\ t2.ineff_expands = ineff /\ t2 \in TableType(m)
    <2>1. t2.buckets = bs /\ t2.num_items = t.num_items /\ t2.tail = t.tail /\ t2.ineff_expands = ineff
      BY <1>1 DEF TableType
    <2>2. (t.noexpand \/ ineff > 1) \in BOOLEAN
      OBVIOUS
    <2>3. t2 \in TableType(m)
      BY <1>1, <1>8, <1>9, <2>2 DEF TableType
    <2> QED BY <2>1, <2>3
  <1>11. t2.noexpand \/ t2.ineff_expands <= 1
    <2>1. t2.noexpand = (t.noexpand \/ ineff > 1)
      BY <1>1 DEF TableType
    <2>2. ineff > 1 \/ ineff <= 1
      BY <1>9
    <2> HIDE DEF t2
    <2> QED BY <1>10, <2>1, <2>2
  <1> HIDE DEF t2
  <1>12. Listed(new, first, t2.tail, all, r)
    BY <1>1, <1>6, <1>10 DEF Listed
  <1>13. Chained(new, t2.buckets, m, all, Reversed(h)) /\ CountsAre(t2, m, all)
    BY <1>1, <1>7, <1>10 DEF Chained, CountsAre
  <1>14. Reversed(h) \in [Paths -> Int]
    BY <1>1 DEF Reversed
  <1>15. Sound(new, first, t2, m, all, all, r, Reversed(h))
    BY <1>1, <1>4, <1>6, <1>10, <1>11, <1>12, <1>13, <1>14 DEF Sound
  <1> QED BY <1>3, <1>15

\* HASH_ADD_TO_BKT, before it expands the buckets: the entry is in its chain.
LEMMA LinkKeepsSound ==
  ASSUME NEW n, NEW all, NEW r, NEW h, NEW p \in all,
         Sound(node, head, tbl, n, all, all \ {p}, r, h),
         NEW b, b = Bucket(p, n), NEW first, first = tbl.buckets[b].hh_head,
         node[p].hh_next = first, node[p].hh_prev = Null,
         NEW nodes, nodes = [q \in Paths |-> IF q = first THEN [node[q] EXCEPT !.hh_prev = p]
                                             ELSE node[q]],
         NEW linked, linked = [tbl EXCEPT !.buckets[b].hh_head = p]
  PROVE  \E h2 : Sound(nodes, head, linked, n, all, all, r, h2)
  <1> DEFINE in == all \ {p}
             S == InBucket(in, b, n)
             h2 == [h EXCEPT ![p] = IF first = Null THEN 0 ELSE h[first] - 1]
             k == [tbl.buckets[b] EXCEPT !.hh_head = p]
             bs == [tbl.buckets EXCEPT ![b] = k]
  <1>1. /\ n \in Nat \ {0} /\ node \in [Paths -> Links] /\ tbl \in TableType(n)
        /\ all \in SUBSET Paths /\ in \in SUBSET Paths /\ p \in Paths /\ h \in [Paths -> Int]
        /\ Listed(node, head, tbl.tail, all, r) /\ CountsAre(tbl, n, all)
        /\ \A q \in Paths \ all : node[q] = Loose
    BY DEF Sound
  <1>2. b \in 0..(n - 1)
    BY <1>1, SoundSize
  <1>3. /\ IsList(S, h, first, HHNextIn(node), HHPrevIn(node)) /\ S \in SUBSET Paths /\ p \notin S
        /\ S \subseteq all
    BY <1>1, <1>2 DEF Sound, Chained, InBucket
  <1>4. first \in S \cup {Null}
    BY <1>3 DEF IsList, IsChain, IsFirst
  <1>5. tbl.buckets \in [0..(n - 1) -> BucketType] /\ tbl.buckets[b] \in BucketType
    BY <1>1, <1>2 DEF TableType
  <1>6. k \in BucketType /\ k.hh_head = p /\ k.count = tbl.buckets[b].count
    BY <1>1, <1>5 DEF BucketType
  <1>7. /\ linked.buckets = bs /\ linked.tail = tbl.tail /\ linked.num_items = tbl.num_items
        /\ linked.noexpand = tbl.noexpand /\ linked.ineff_expands = tbl.ineff_expands
        /\ linked \in TableType(n)
    <2> HIDE DEF bs
    <2>1. linked = [tbl EXCEPT !.buckets = bs]
      BY DEF bs
    <2>2. bs \in [0..(n - 1) -> BucketType]
      BY <1>5, <1>6 DEF bs
    <2>3. tbl \in TableType(n)
      BY <1>1
    <2> QED BY <2>1, <2>2, <2>3 DEF TableType
  <1> HIDE DEF k
  <1>8. \A c \in 0..(n - 1) : linked.buckets[c] = IF c = b THEN k ELSE tbl.buckets[c]
    <2>1. linked.buckets = [tbl.buckets EXCEPT ![b] = k]
      BY <1>7
    <2> QED BY <1>5, <2>1
  <1> HIDE DEF bs
  <1>9. /\ nodes \in [Paths -> Links]
        /\ NextIn(nodes) = NextIn(node) /\ PrevIn(nodes) = PrevIn(node)
        /\ \A q \in Paths : /\ nodes[q].hh_next = node[q].hh_next
                            /\ nodes[q].hh_prev = IF q = first THEN p ELSE node[q].hh_prev
                            /\ q # first => nodes[q] = node[q]
    <2>1. ASSUME NEW q \in Paths
          PROVE  /\ nodes[q] \in Links /\ nodes[q].next = node[q].next /\ nodes[q].prev = node[q].prev
                 /\ nodes[q].hh_next = node[q].hh_next
                 /\ nodes[q].hh_prev = IF q = first THEN p ELSE node[q].hh_prev
                 /\ q # first => nodes[q] = node[q]
      <3>1. node[q] \in Links /\ p \in Paths
        BY <1>1, <2>1
      <3>2. nodes[q] = IF q = first THEN [node[q] EXCEPT !.hh_prev = p] ELSE node[q]
        BY <2>1
      <3> QED BY <3>1, <3>2 DEF Links
    <2>2. nodes = [q \in Paths |-> nodes[q]]
      OBVIOUS
    <2> QED BY <2>1, <2>2 DEF NextIn, PrevIn
  <1>10. h2 \in [Paths -> Int] /\ \A q \in Paths \ {p} : h2[q] = h[q]
    <2>1. first \in Paths \cup {Null}
      BY <1>3, <1>4
    <2> QED BY <1>1, <2>1
  <1>11. ASSUME NEW c \in 0..(n - 1)
         PROVE  IsList(InBucket(all, c, n), h2, linked.buckets[c].hh_head, HHNextIn(nodes), HHPrevIn(nodes))
    <2>1. CASE c = b
      <3>1. InBucket(all, b, n) = S \cup {p}
        BY DEF InBucket
      <3>2. Pushes(S, p, first, HHNextIn(node), HHPrevIn(node), HHNextIn(nodes), HHPrevIn(nodes))
        <4>1. p # first /\ \A q \in S : q \in Paths
          BY <1>1, <1>3, <1>4, NullIsNoPath
        <4> QED BY <1>1, <1>9, <4>1 DEF Pushes, HHNextIn, HHPrevIn
      <3>3. h2 = [h EXCEPT ![p] = IF first = Null THEN 0 ELSE h[first] - 1] /\ p \in Paths \ S
        BY <1>1, <1>3
      <3> HIDE DEF S, h2
      <3>4. IsList(S \cup {p}, h2, p, HHNextIn(nodes), HHPrevIn(nodes))
        <4> DEFINE next == HHNextIn(node)
                   prev == HHPrevIn(node)
                   next2 == HHNextIn(nodes)
                   prev2 == HHPrevIn(nodes)
        <4>1. Pushes(S, p, first, next, prev, next2, prev2) /\ IsList(S, h, first, next, prev)
          BY <1>3, <3>2
        <4> HIDE DEF next, prev, next2, prev2
        <4>2. IsList(S \cup {p}, h2, p, next2, prev2)
          BY <1>3, <3>3, <4>1, ListPush
        <4> QED BY <4>2 DEF next2, prev2
      <3> QED BY <1>2, <1>6, <1>8, <2>1, <3>1, <3>4
    <2>2. CASE c # b
      <3> DEFINE V == InBucket(in, c, n)
      <3>1. /\ InBucket(all, c, n) = V /\ V \in SUBSET Paths
            /\ \A q \in V : q \in Paths /\ q # p /\ q # first
        BY <1>1, <1>4, <2>2, NullIsNoPath DEF InBucket
      <3>2. IsList(V, h, tbl.buckets[c].hh_head, HHNextIn(node), HHPrevIn(node))
        BY <1>11 DEF Sound, Chained
      <3> HIDE DEF V, h2
      <3>3. Agree(V, h, HHNextIn(node), HHPrevIn(node), h2, HHNextIn(nodes), HHPrevIn(nodes))
        BY <1>9, <1>10, <3>1 DEF Agree, HHNextIn, HHPrevIn
      <3>4. IsList(V, h2, tbl.buckets[c].hh_head, HHNextIn(nodes), HHPrevIn(nodes))
        BY <1>10, <3>1, <3>2, <3>3, ListSame
      <3> QED BY <1>8, <2>2, <3>1, <3>4
    <2> QED BY <2>1, <2>2
  <1>12. CountsAre(linked, n, all)
    BY <1>1, <1>6, <1>7, <1>8 DEF CountsAre
  <1>13. Listed(nodes, head, linked.tail, all, r)
    BY <1>1, <1>7, <1>9 DEF Listed
  <1>14. \A q \in Paths \ all : nodes[q] = Loose
    <2>1. \A q \in Paths \ all : q # first
      BY <1>3, <1>4, NullIsNoPath
    <2> QED BY <1>1, <1>9, <2>1
  <1>15. linked.noexpand \/ linked.ineff_expands <= 1
    BY <1>7 DEF Sound
  <1> HIDE DEF h2
  <1>16. Chained(nodes, linked.buckets, n, all, h2)
    BY <1>11 DEF Chained
  <1>17. Sound(nodes, head, linked, n, all, all, r, h2)
    BY <1>1, <1>7, <1>9, <1>10, <1>12, <1>13, <1>14, <1>15, <1>16 DEF Sound
  <1> QED BY <1>17

\* The insertion ends with the entry in its chain, however many buckets there are
\* by then.
LEMMA InvLinkEntry ==
  ASSUME IInv, OneThread, NEW t \in Threads, LinkEntry(t)
  PROVE  IInv'
  <1>1. PICK n, all, in, r, h : IInvFor(n, all, in, r, h)
    BY DEF IInv
  <1> DEFINE th == thread[t]
             p == th.path
             b == Bucket(p, n)
             first == tbl.buckets[b].hh_head
             nodes == [q \in Paths |-> IF q = first THEN [node[q] EXCEPT !.hh_prev = p]
                                       ELSE node[q]]
             linked == [tbl EXCEPT !.buckets[b].hh_head = p]
             new == Expand(nodes, linked)
  <1>2. Linking(th, node, tbl, n, all, in, entries)
    <2>1. At(t, "link") /\ ThreadInv(th, node, head, tbl, n, all, in, h, entries)
      BY <1>1 DEF LinkEntry, IInvFor
    <2> QED BY <2>1 DEF ThreadInv, At, Idle, Comparing, Freeing
  <1>3. /\ p \in all /\ in = all \ {p} /\ entries = in /\ th.size = n
        /\ node[p].hh_next = first /\ node[p].hh_prev = Null
        /\ Sound(node, head, tbl, n, all, in, r, h)
    BY <1>1, <1>2 DEF Linking, IInvFor
  <1>4. Size(tbl.buckets) = n /\ all \subseteq Paths
    <2>1. Sound(node, head, tbl, n, all, in, r, h)
      BY <1>3
    <2>2. Size(tbl.buckets) = n
      BY <2>1, SoundSize
    <2> QED BY <2>1, <2>2 DEF Sound
  <1>5. \E h2 : Sound(nodes, head, linked, n, all, all, r, h2)
    <2> HIDE DEF p
    <2> QED BY <1>3, LinkKeepsSound
  <1>6. /\ thread' = [thread EXCEPT ![t] = Idle] /\ head' = head /\ entries' = all
        /\ \/ node' = new.nodes /\ tbl' = new.tbl /\ ~ tbl.noexpand
           \/ node' = nodes /\ tbl' = linked
    BY <1>3, <1>4 DEF LinkEntry, Return
  <1>7. linked.noexpand = tbl.noexpand
    <2>1. tbl \in TableType(n)
      BY <1>3 DEF Sound
    <2> HIDE DEF p, b
    <2> QED BY <2>1 DEF TableType
  <1> HIDE DEF nodes, linked, p
  <1>8. \E m, h2 : Sound(node', head', tbl', m, all, all, r, h2)
    <2>1. PICK h2 : Sound(nodes, head, linked, n, all, all, r, h2)
      BY <1>5
    <2>2. CASE node' = nodes /\ tbl' = linked
      BY <1>6, <2>1, <2>2
    <2>3. CASE node' = new.nodes /\ tbl' = new.tbl /\ ~ tbl.noexpand
      <3>1. linked.ineff_expands <= 1 /\ all # {}
        BY <1>3, <1>7, <2>1, <2>3 DEF Sound
      <3>2. Sound(new.nodes, head, new.tbl, 2 * n, all, all, r, Reversed(h2))
        BY <2>1, <3>1, ExpandKeepsSound
      <3> QED BY <1>6, <2>3, <3>2
    <2> QED BY <1>6, <2>2, <2>3
  <1>9. PICK m, h2 : Sound(node', head', tbl', m, all, all, r, h2)
    BY <1>8
  <1> QED BY <1>4, <1>6, <1>9, IdleType, StepKeepsInv

-----------------------------------------------------------------------------
(* The theorems.                                                           *)

\* The process starts with a sound empty table.
LEMMA InvInit ==
  ASSUME Init
  PROVE  IInv
  <1> DEFINE r == [p \in Paths |-> 0]
  <1>1. /\ node = [p \in Paths |-> Loose] /\ head = Null /\ tbl = NewTable
        /\ thread = [t \in Threads |-> Idle] /\ entries = {}
    BY DEF Init
  <1>2. Sound(node, head, tbl, InitialBuckets, {}, {}, r, r)
    BY <1>1, EmptyIsSound
  <1>3. \A t \in Threads : ThreadInv(thread[t], node, head, tbl, InitialBuckets, {}, {}, r, entries)
    BY <1>1, IdleType
  <1> HIDE DEF r
  <1>4. IInvFor(InitialBuckets, {}, {}, r, r)
    BY <1>1, <1>2, <1>3 DEF IInvFor
  <1> QED BY <1>1, <1>4 DEF IInv

\* Every step of the only thread keeps the invariant.
LEMMA InvNext ==
  ASSUME OneThread, IInv, [Next]_vars
  PROVE  IInv'
  <1>1. CASE UNCHANGED vars
    BY <1>1 DEF vars, IInv, IInvFor, IsAlone, At
  <1>2. CASE Next
    <2>1. PICK t \in Threads :
            \/ \E p \in Paths :
                 hashtable_add_entry(t, p) \/ hashable_get_entry(t, p) \/ hashtable_remove_entry(t, p)
            \/ LinkEntry(t) \/ Compare(t) \/ ReturnGet(t) \/ DeleteEntry(t)
            \/ hashtable_free(t) \/ FreeEntry(t)
      BY <1>2 DEF Next
    <2>2. CASE \E p \in Paths : hashtable_add_entry(t, p)
      BY <2>2, InvAdd
    <2>3. CASE \E p \in Paths : hashable_get_entry(t, p) \/ hashtable_remove_entry(t, p)
      BY <2>3, InvFind
    <2>4. CASE LinkEntry(t)
      BY <2>4, InvLinkEntry
    <2>5. CASE Compare(t)
      BY <2>5, InvCompare
    <2>6. CASE ReturnGet(t)
      BY <2>6, InvReturnGet
    <2>7. CASE DeleteEntry(t)
      BY <2>7, InvDeleteEntry
    <2>8. CASE hashtable_free(t)
      BY <2>8, InvFree
    <2>9. CASE FreeEntry(t)
      BY <2>9, InvFreeEntry
    <2> QED BY <2>1, <2>2, <2>3, <2>4, <2>5, <2>6, <2>7, <2>8, <2>9
  <1> QED BY <1>1, <1>2

\* With one thread the invariant holds in every state.
LEMMA InvHolds ==
  ASSUME OneThread
  PROVE  Spec => []IInv
  <1>1. Init => IInv
    BY InvInit
  <1>2. IInv /\ [Next]_vars => IInv'
    BY InvNext
  <1> QED BY <1>1, <1>2, PTL DEF Spec

\* The links, the counts and the expansions stay in their types: no link leads out
\* of the table, and expansion stops after two that help little.
THEOREM TypesAreCorrect ==
  ASSUME OneThread
  PROVE  Spec => []TypeOK
  <1>1. IInv => TypeOK
    BY InvImpliesTypeOK
  <1> QED BY <1>1, InvHolds, PTL

\* Outside an insertion the table passes what HASH_FSCK tests, for any hash values,
\* with hashes that clash and buckets that double in the middle of a long chain.
THEOREM TableIsSound ==
  ASSUME OneThread
  PROVE  Spec => []HASH_FSCK
  <1>1. IInv => HASH_FSCK
    BY InvImpliesFSCK
  <1> QED BY <1>1, InvHolds, PTL

\* A lookup finds just the paths that were added and not removed since, and freeing
\* the table leaves none.
THEOREM LookupsAreRight ==
  ASSUME OneThread
  PROVE  Spec => []EntriesAreFound
  <1>1. IInv => EntriesAreFound
    BY InvImpliesFound
  <1> QED BY <1>1, InvHolds, PTL
=============================================================================
