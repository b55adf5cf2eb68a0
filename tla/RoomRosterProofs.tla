-------------------------- MODULE RoomRosterProofs --------------------------
(***************************************************************************)
(* The closed form of Room::leaveRoom (RoomRoster): it describes exactly   *)
(* one list, and which occurrences of the leaver the loop finds can be     *)
(* said from one place to the next, as the loop goes.                      *)
(***************************************************************************)
EXTENDS RoomRoster, FiniteSetTheorems, WellFoundedInduction, TLAPS

\* Every set of naturals that is not empty has a least element.
LEMMA LeastNatural ==
    ASSUME NEW N \in SUBSET Nat, N # {}
    PROVE  \E m \in N : \A k \in N : m <= k
  <1> DEFINE Less == OpToRel(<, Nat)
  <1>1. IsWellFoundedOn(Less, Nat)
    BY NatLessThanWellFounded
  <1>2. \A x, y \in Nat : x < y => <<x, y>> \in Less
    BY DEF OpToRel
  <1> HIDE DEF Less
  <1>3. N \subseteq Nat
    OBVIOUS
  <1>4. \E m \in N : \A k \in N : ~(<<k, m>> \in Less)
    BY <1>1, <1>3, WFMin, Zenon
  <1>5. PICK m \in N : \A k \in N : ~(<<k, m>> \in Less)
    BY <1>4
  <1>6. ASSUME NEW k \in N, ~(m <= k) PROVE FALSE
    <2>1. k \in Nat /\ m \in Nat
      BY <1>3
    <2>2. k < m
      BY <1>6, <2>1
    <2> QED BY <1>2, <1>5, <2>1, <2>2, Zenon
  <1> QED BY <1>6
-----------------------------------------------------------------------------
LEMMA IntervalSize ==
    ASSUME NEW n \in Nat
    PROVE  IsFiniteSet(1..n) /\ Cardinality(1..n) = n
  BY FS_Interval

Increasing(f, n) == \A a, b \in 1..n : a < b => f[a] < f[b]

LEMMA ValuesAreNatural ==
    ASSUME NEW D, NEW K \in SUBSET Nat, NEW f \in [D -> K], NEW d \in D
    PROVE  f[d] \in Nat
  <1>1. f[d] \in K
    OBVIOUS
  <1> QED BY <1>1

\* Where two increasing numberings of a set differ first, neither is below the
\* other.
LEMMA NotBelow ==
    ASSUME NEW n \in Nat, NEW K \in SUBSET Nat, IsFiniteSet(K), Cardinality(K) = n,
           NEW f \in [1..n -> K], NEW g \in [1..n -> K],
           Increasing(f, n), Increasing(g, n),
           NEW m \in 1..n, \A k \in 1..n : k < m => f[k] = g[k],
           f[m] < g[m]
    PROVE  FALSE
  <1>0. \A k \in 1..n : f[k] \in Nat /\ g[k] \in Nat
    BY ValuesAreNatural
  <1>1. g \in Injection(1..n, K)
    <2>1. \A a, b \in 1..n : a # b => g[a] # g[b]
      BY <1>0 DEF Increasing
    <2> QED BY <2>1 DEF Injection, IsInjective
  <1>2. IsFiniteSet(1..n) /\ Cardinality(1..n) = n
    BY IntervalSize
  <1>3. g \in Surjection(1..n, K)
    BY <1>1, <1>2, FS_Injection
  <1>4. PICK l \in 1..n : g[l] = f[m]
    BY <1>3 DEF Surjection
  <1>5. CASE l < m
    BY <1>0, <1>4, <1>5 DEF Increasing
  <1>6. CASE l >= m
    <2>1. l = m \/ g[m] < g[l]
      BY <1>6 DEF Increasing
    <2> QED BY <1>0, <1>4, <2>1
  <1> QED BY <1>5, <1>6

\* A finite set of numbers has one increasing numbering.
LEMMA IncreasingUnique ==
    ASSUME NEW n \in Nat, NEW K \in SUBSET Nat, IsFiniteSet(K), Cardinality(K) = n,
           NEW f \in [1..n -> K], NEW g \in [1..n -> K],
           Increasing(f, n), Increasing(g, n)
    PROVE  f = g
  <1> DEFINE D == {k \in 1..n : f[k] # g[k]}
  <1>1. SUFFICES ASSUME D # {} PROVE FALSE
    OBVIOUS
  <1>2. PICK m \in D : \A k \in D : m <= k
    <2>1. D \in SUBSET Nat
      OBVIOUS
    <2> QED BY <1>1, <2>1, LeastNatural
  <1>3. m \in 1..n /\ f[m] # g[m] /\ \A k \in 1..n : k < m => f[k] = g[k]
    BY <1>2
  <1>4. f[m] < g[m] \/ g[m] < f[m]
    <2>1. f[m] \in Nat /\ g[m] \in Nat
      BY <1>3, ValuesAreNatural
    <2> QED BY <1>3, <2>1
  <1> QED BY <1>3, <1>4, NotBelow

\* What is kept of a list is one list: the one that any increasing numbering of
\* the places kept gives.
LEMMA KeptByNumbering ==
    ASSUME NEW q, NEW n \in Nat, NEW K \in SUBSET Nat,
           IsFiniteSet(K), Cardinality(K) = n,
           NEW f \in [1..n -> K], Increasing(f, n)
    PROVE  Kept(q, K) = {[p \in 1..n |-> q[f[p]]]}
  <1>1. [p \in 1..n |-> q[f[p]]] \in Kept(q, K)
    BY DEF Kept, Increasing
  <1>2. ASSUME NEW left \in Kept(q, K) PROVE left = [p \in 1..n |-> q[f[p]]]
    <2>1. PICK g \in [1..n -> K] : /\ \A a, b \in 1..n : a < b => g[a] < g[b]
                                   /\ left = [p \in 1..n |-> q[g[p]]]
      BY <1>2 DEF Kept
    <2>2. g = f
      BY <2>1, IncreasingUnique DEF Increasing
    <2> QED BY <2>1, <2>2
  <1> QED BY <1>1, <1>2

\* A user who is not on the list leaves it as it is.
LEMMA StrangerLeavesAll ==
    ASSUME NEW S, NEW q \in Seq(S)
    PROVE  AfterLeave(q, {}) = {q}
  <1> DEFINE n == Len(q)
             K == 1..n
             id == [p \in K |-> p]
  <1>1. n \in Nat /\ K \in SUBSET Nat
    OBVIOUS
  <1>2. K \ Erased({}) = K
    BY DEF Erased, Found
  <1>3. IsFiniteSet(K) /\ Cardinality(K) = n
    BY <1>1, IntervalSize
  <1>4. id \in [1..n -> K] /\ Increasing(id, n)
    BY <1>1 DEF Increasing
  <1>5. q = [p \in 1..n |-> q[id[p]]]
    OBVIOUS
  <1>6. ASSUME NEW k \in Nat, NEW T \in SUBSET Nat, NEW f \in [1..k -> T],
               IsFiniteSet(T), Cardinality(T) = k, Increasing(f, k)
        PROVE  Kept(q, T) = {[p \in 1..k |-> q[f[p]]]}
    BY <1>6, KeptByNumbering
  <1> HIDE DEF K, id
  <1>7. Kept(q, K) = {[p \in 1..n |-> q[id[p]]]}
    BY <1>1, <1>3, <1>4, <1>6
  <1> QED BY <1>2, <1>5, <1>7 DEF AfterLeave, K

\* A user who is on the list, and be it once, leaves it shorter: the loop finds
\* at least the first of his places.
LEMMA MemberLeavesShorter ==
    ASSUME NEW S, NEW q \in Seq(S), NEW own, own \subseteq 1..Len(q), own # {},
           NEW left \in AfterLeave(q, own)
    PROVE  Len(left) < Len(q)
  <1> DEFINE n == Len(q)
             keep == (1..n) \ Erased(own)
  <1>1. n \in Nat
    OBVIOUS
  <1>2. PICK p \in own : \A k \in own : p <= k
    <2>1. own \in SUBSET Nat
      BY <1>1
    <2> QED BY <2>1, LeastNatural
  <1>3. p \in Found(own)
    <2>1. p \in 1..p /\ p..p \subseteq own /\ p - 1 \notin own /\ (p - p) % 2 = 0
      BY <1>1, <1>2
    <2> QED BY <2>1 DEF Found
  <1>4. PICK v \in 1..n : v \in Erased(own)
    <2>1. (IF p = 1 THEN 1 ELSE p - 1) \in 1..n
      BY <1>1, <1>2
    <2> QED BY <1>3, <2>1 DEF Erased
  <1>5. IsFiniteSet(1..n) /\ Cardinality(1..n) = n
    BY <1>1, IntervalSize
  <1>6. keep \in SUBSET (1..n) /\ keep # 1..n
    BY <1>4
  <1>7. Cardinality(keep) \in Nat /\ Cardinality(keep) < n
    <2> HIDE DEF keep, n
    <2>1. IsFiniteSet(keep) /\ Cardinality(keep) <= n /\ Cardinality(keep) # n
      BY <1>5, <1>6, FS_Subset
    <2>2. Cardinality(keep) \in Nat
      BY <2>1, FS_CardinalityType
    <2> QED BY <1>1, <2>1, <2>2
  <1>8. PICK f : left = [i \in 1..Cardinality(keep) |-> q[f[i]]]
    BY DEF AfterLeave, Kept
  <1> HIDE DEF keep
  <1> QED BY <1>7, <1>8
=============================================================================
