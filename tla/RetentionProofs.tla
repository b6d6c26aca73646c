-------------------------- MODULE RetentionProofs ---------------------------
(***************************************************************************)
(* What the retention rules guarantee for every finite set of restore      *)
(* points, every calendar and every policy.                                *)
(***************************************************************************)
EXTENDS RetentionRules, FiniteSetTheorems, WellFoundedInduction, TLAPS

-----------------------------------------------------------------------------
(* The order of restore points.                                            *)

\* Newer is a strict total order, because a point is its id and its instant.
LEMMA NewerIsTotalOrder ==
  ASSUME NEW p \in RetentionPoint, NEW q \in RetentionPoint, NEW s \in RetentionPoint
  PROVE  /\ ~Newer(p, p)
         /\ Newer(p, q) /\ Newer(q, s) => Newer(p, s)
         /\ p # q => Newer(p, q) \/ Newer(q, p)
  <1>1. \A x \in RetentionPoint : x.id \in Int /\ x.at \in Int
    BY CalendarAssumption DEF RetentionPoint
  <1>2. ~Newer(p, p)
    BY <1>1 DEF Newer
  <1>3. Newer(p, q) /\ Newer(q, s) => Newer(p, s)
    BY <1>1 DEF Newer
  <1>4. p # q => p.at # q.at \/ p.id # q.id
    BY DEF RetentionPoint
  <1>5. p.at # q.at \/ p.id # q.id => Newer(p, q) \/ Newer(q, p)
    BY <1>1 DEF Newer
  <1> QED
    BY <1>2, <1>3, <1>4, <1>5

\* The newer points among finitely many are finitely many.
LEMMA NewerIsFinite ==
  ASSUME NEW P, IsFiniteSet(P), NEW p
  PROVE  IsFiniteSet(NewerIn(P, p)) /\ Cardinality(NewerIn(P, p)) \in Nat
  BY FS_Subset, FS_CardinalityType DEF NewerIn

\* A nonempty set of numbers has a least element.
LEMMA LeastNumber ==
  ASSUME NEW N \in SUBSET Nat, N # {}
  PROVE  \E m \in N : \A k \in N : ~(k < m)
  <1>1. \E m \in N : \A k \in N : <<k, m>> \notin OpToRel(<, Nat)
    BY WFMin, NatLessThanWellFounded
  <1> QED
    BY <1>1, Zenon DEF OpToRel

\* Among finitely many points there is a newest.
LEMMA NewestExists ==
  ASSUME NEW S \in SUBSET RetentionPoint, IsFiniteSet(S), S # {}
  PROVE  \E p \in S : NewerIn(S, p) = {}
  <1> DEFINE N == {Cardinality(NewerIn(S, p)) : p \in S}
  <1>1. N \in SUBSET Nat /\ N # {}
    BY NewerIsFinite
  <1>2. PICK m \in N : \A k \in N : ~(k < m)
    <2> HIDE DEF N
    <2> QED BY <1>1, LeastNumber
  <1>3. PICK p \in S : m = Cardinality(NewerIn(S, p))
    OBVIOUS
  <1>4. ASSUME NEW q \in NewerIn(S, p)
        PROVE  FALSE
    <2>1. q \in S /\ Newer(q, p)
      BY DEF NewerIn
    <2>2. NewerIn(S, q) \subseteq NewerIn(S, p)
      BY <2>1, NewerIsTotalOrder DEF NewerIn
    <2>3. q \notin NewerIn(S, q)
      BY <2>1, NewerIsTotalOrder DEF NewerIn
    <2>4. Cardinality(NewerIn(S, q)) < Cardinality(NewerIn(S, p))
      BY <2>2, <2>3, NewerIsFinite, FS_Subset
    <2>5. Cardinality(NewerIn(S, q)) \in N
      BY <2>1
    <2> QED
      BY <1>2, <1>3, <2>4, <2>5
  <1> QED
    BY <1>3, <1>4

-----------------------------------------------------------------------------
(* Pruning.                                                                *)

\* The periods of the points newer than p.
LEMMA KeysAreFinite ==
  ASSUME NEW P, IsFiniteSet(P), NEW p, NEW r
  PROVE  IsFiniteSet(NewerKeys(P, p, r)) /\ Cardinality(NewerKeys(P, p, r)) \in Nat
  <1> DEFINE N == NewerIn(P, p)
             keys == NewerKeys(P, p, r)
             key == [q \in N |-> bucketKey(q, r)]
  <1>1. IsFiniteSet(N)
    BY NewerIsFinite
  <1>2. key \in Surjection(N, keys)
    <2>1. key \in [N -> keys]
      BY DEF NewerKeys
    <2>2. \A t \in keys : \E q \in N : key[q] = t
      BY DEF NewerKeys
    <2> HIDE DEF N, keys, key
    <2> QED
      BY <2>1, <2>2 DEF Surjection
  <1>3. IsFiniteSet(keys)
    <2> HIDE DEF N, keys, key
    <2> QED
      BY <1>1, <1>2, FS_Surjection DEF ExistsSurjection
  <1> QED
    BY <1>3, FS_CardinalityType

\* A rule that keeps at least one thing keeps the newest point: "the newest
\* point within each period, ... counted backwards from the most recent point"
\* (retention.go:176-178), so retention never leaves a workload without its
\* latest copy.
THEOREM NewestPointIsKept ==
  ASSUME NEW P \in SUBSET RetentionPoint, NEW policy \in RetentionPolicy,
         KeepsAnything(policy),
         NEW p \in P, NewerIn(P, p) = {}
  PROVE  p \in Kept(P, policy)
  <1>1. CASE policy.last > 0
    BY <1>1, FS_EmptySet DEF Kept, KeptLast
  <1>2. ASSUME NEW r \in Rules, policy.keep[r] > 0
        PROVE  p \in Kept(P, policy)
    <2>1. NewerKeys(P, p, r) = {}
      BY DEF NewerKeys
    <2>2. p \in KeptBy(r, P, policy.keep[r])
      BY <1>2, <2>1, FS_EmptySet DEF KeptBy
    <2> QED
      BY <2>2 DEF Kept
  <1> QED
    BY <1>1, <1>2 DEF KeepsAnything

\* Keeping is monotone: what is kept among many points is kept among fewer, so
\* deleting a restore point never makes retention give up another one.
THEOREM FewerPointsKeepMore ==
  ASSUME NEW Q \in SUBSET RetentionPoint, IsFiniteSet(Q), NEW P \in SUBSET Q,
         NEW policy \in RetentionPolicy, NEW p \in P, p \in Kept(Q, policy)
  PROVE  p \in Kept(P, policy)
  <1>1. NewerIn(P, p) \subseteq NewerIn(Q, p)
    BY DEF NewerIn
  <1>2. IsFiniteSet(P)
    BY FS_Subset
  <1>3. CASE p \in KeptLast(Q, policy.last)
    <2>1. Cardinality(NewerIn(P, p)) <= Cardinality(NewerIn(Q, p))
      BY <1>1, NewerIsFinite, FS_Subset
    <2>2. p \in KeptLast(P, policy.last)
      BY <1>2, <1>3, <2>1, NewerIsFinite DEF KeptLast, RetentionPolicy
    <2> QED
      BY <2>2 DEF Kept
  <1>4. ASSUME NEW r \in Rules, p \in KeptBy(r, Q, policy.keep[r])
        PROVE  p \in Kept(P, policy)
    <2> DEFINE few == NewerKeys(P, p, r)
               many == NewerKeys(Q, p, r)
    <2>1. few \subseteq many
      BY <1>1 DEF NewerKeys
    <2>2. bucketKey(p, r) \notin many /\ Cardinality(many) < policy.keep[r]
      BY <1>4 DEF KeptBy
    <2>3. IsFiniteSet(many) /\ Cardinality(many) \in Nat /\ Cardinality(few) \in Nat
      BY <1>2, KeysAreFinite
    <2>4. policy.keep[r] \in Nat
      BY DEF RetentionPolicy
    <2>5. Cardinality(few) < policy.keep[r]
      <3> HIDE DEF few, many
      <3>1. Cardinality(few) <= Cardinality(many)
        BY <2>1, <2>3, FS_Subset
      <3> QED BY <2>2, <2>3, <2>4, <3>1
    <2>6. p \in KeptBy(r, P, policy.keep[r])
      BY <2>1, <2>2, <2>5 DEF KeptBy
    <2> QED
      BY <2>6 DEF Kept
  <1> QED
    BY <1>3, <1>4 DEF Kept

\* The pruned point that stands between q and what was kept: if some pruned
\* point newer than q has the property that C states, there is a newest one.
LEMMA NewestPruned ==
  ASSUME NEW P \in SUBSET RetentionPoint, IsFiniteSet(P), NEW C \in SUBSET P, C # {}
  PROVE  \E p \in C : \A s \in P : Newer(s, p) => s \notin C
  <1>1. C \in SUBSET RetentionPoint /\ IsFiniteSet(C)
    BY FS_Subset
  <1>2. PICK p \in C : NewerIn(C, p) = {}
    BY <1>1, NewestExists
  <1> QED
    BY <1>2 DEF NewerIn

\* A point among the n newest of what was kept and what is new is among the n
\* newest of everything.
LEMMA LastRuleIsIncremental ==
  ASSUME NEW P \in SUBSET RetentionPoint, IsFiniteSet(P),
         NEW X \in SUBSET RetentionPoint, IsFiniteSet(X),
         NEW n \in Nat, NEW K \in SUBSET P, KeptLast(P, n) \subseteq K,
         NEW q \in KeptLast(K \cup X, n)
  PROVE  q \in KeptLast(P \cup X, n)
  <1> DEFINE N == NewerIn(K \cup X, q)
             C == {p \in P : Newer(p, q) /\ p \notin K}
  <1>1. q \in K \cup X /\ q \in RetentionPoint /\ Cardinality(N) < n
    BY DEF KeptLast
  <1>2. IsFiniteSet(K \cup X)
    BY FS_Subset, FS_Union
  <1>3. IsFiniteSet(N) /\ Cardinality(N) \in Nat
    BY <1>2, NewerIsFinite
  <1>4. ASSUME C # {} PROVE FALSE
    <2>1. PICK p \in C : \A s \in P : Newer(s, p) => s \notin C
      BY <1>4, NewestPruned
    <2>2. NewerIn(P, p) \subseteq N
      BY <1>1, <2>1, NewerIsTotalOrder DEF NewerIn
    <2>3. Cardinality(NewerIn(P, p)) <= Cardinality(N) /\ Cardinality(NewerIn(P, p)) \in Nat
      <3> HIDE DEF N, C
      <3> QED BY <1>3, <2>2, FS_Subset, NewerIsFinite
    <2>4. Cardinality(NewerIn(P, p)) < n
      <3> HIDE DEF N, C
      <3> QED BY <1>1, <1>3, <2>3
    <2> QED
      BY <2>1, <2>4 DEF KeptLast
  <1>5. NewerIn(P \cup X, q) = N
    BY <1>4 DEF NewerIn
  <1> QED
    BY <1>1, <1>5 DEF KeptLast

\* The same for a calendar rule: the periods newer than the point are the same.
LEMMA PeriodRuleIsIncremental ==
  ASSUME NEW P \in SUBSET RetentionPoint, IsFiniteSet(P),
         NEW X \in SUBSET RetentionPoint, IsFiniteSet(X),
         NEW n \in Nat, NEW r \in Rules, NEW K \in SUBSET P, KeptBy(r, P, n) \subseteq K,
         NEW q \in KeptBy(r, K \cup X, n)
  PROVE  q \in KeptBy(r, P \cup X, n)
  <1> DEFINE keys == NewerKeys(K \cup X, q, r)
             C == {p \in P : Newer(p, q) /\ bucketKey(p, r) \notin keys}
  <1>1. q \in K \cup X /\ q \in RetentionPoint
    BY DEF KeptBy
  <1>2. bucketKey(q, r) \notin keys /\ Cardinality(keys) < n
    BY DEF KeptBy
  <1>3. IsFiniteSet(keys) /\ Cardinality(keys) \in Nat
    <2>1. IsFiniteSet(K \cup X)
      BY FS_Subset, FS_Union
    <2> QED
      BY <2>1, KeysAreFinite
  <1>4. \A s \in K \cup X : Newer(s, q) => bucketKey(s, r) \in keys
    BY DEF NewerKeys, NewerIn
  <1>5. ASSUME C # {} PROVE FALSE
    <2>1. PICK p \in C : \A s \in P : Newer(s, p) => s \notin C
      BY <1>5, NewestPruned
    <2>2. \A s \in P : Newer(s, p) => bucketKey(s, r) \in keys
      BY <1>1, <2>1, NewerIsTotalOrder
    <2>3. NewerKeys(P, p, r) \subseteq keys
      BY <2>2 DEF NewerKeys, NewerIn
    <2>4. Cardinality(NewerKeys(P, p, r)) < n
      <3>1. Cardinality(NewerKeys(P, p, r)) \in Nat
        BY KeysAreFinite
      <3> HIDE DEF keys, C
      <3>2. Cardinality(NewerKeys(P, p, r)) <= Cardinality(keys)
        BY <1>3, <2>3, FS_Subset
      <3> QED BY <1>2, <1>3, <3>1, <3>2
    <2>5. p \in KeptBy(r, P, n)
      BY <2>3, <2>4 DEF KeptBy
    <2> QED
      BY <1>4, <2>5
  <1>6. NewerKeys(P \cup X, q, r) = keys
    BY <1>4, <1>5 DEF NewerKeys, NewerIn
  <1> QED
    BY <1>1, <1>2, <1>6 DEF KeptBy

\* applyRetention prunes after every run and so decides on what earlier runs
\* left: the outcome is the same as if nothing had been pruned before, whatever
\* points were added since or left behind by a pruning that broke off (both are X).
THEOREM PruningIsIncrementalForAll ==
  ASSUME NEW P \in SUBSET RetentionPoint, IsFiniteSet(P),
         NEW X \in SUBSET RetentionPoint, IsFiniteSet(X),
         NEW policy \in RetentionPolicy
  PROVE  Kept(Kept(P, policy) \cup X, policy) = Kept(P \cup X, policy)
  <1> DEFINE K == Kept(P, policy)
  <1>1. policy.last \in Nat /\ \A r \in Rules : policy.keep[r] \in Nat
    BY DEF RetentionPolicy
  <1>2. K \in SUBSET P /\ KeptLast(P, policy.last) \subseteq K
        /\ \A r \in Rules : KeptBy(r, P, policy.keep[r]) \subseteq K
    BY DEF Kept, KeptLast, KeptBy
  <1>3. IsFiniteSet(P \cup X) /\ P \cup X \in SUBSET RetentionPoint
    BY FS_Union
  <1>4. ASSUME NEW q \in Kept(K \cup X, policy)
        PROVE  q \in Kept(P \cup X, policy)
    <2>1. CASE q \in KeptLast(K \cup X, policy.last)
      <3>1. q \in KeptLast(P \cup X, policy.last)
        <4> HIDE DEF K
        <4> QED BY <1>1, <1>2, <2>1, LastRuleIsIncremental
      <3> QED BY <3>1 DEF Kept
    <2>2. ASSUME NEW r \in Rules, q \in KeptBy(r, K \cup X, policy.keep[r])
          PROVE  q \in Kept(P \cup X, policy)
      <3>1. q \in KeptBy(r, P \cup X, policy.keep[r])
        <4> HIDE DEF K
        <4> QED BY <1>1, <1>2, <2>2, PeriodRuleIsIncremental
      <3> QED BY <3>1 DEF Kept
    <2> QED
      BY <1>4, <2>1, <2>2 DEF Kept
  <1>5. ASSUME NEW q \in Kept(P \cup X, policy)
        PROVE  q \in Kept(K \cup X, policy)
    <2>1. q \in P \cup X
      BY DEF Kept, KeptLast, KeptBy
    <2>2. q \in P => q \in K
      BY <1>3, FewerPointsKeepMore
    <2>3. K \cup X \in SUBSET (P \cup X) /\ q \in K \cup X
      BY <1>2, <2>1, <2>2
    <2> HIDE DEF K
    <2> QED
      BY <1>3, <2>3, FewerPointsKeepMore
  <1> QED
    BY <1>4, <1>5
=============================================================================
