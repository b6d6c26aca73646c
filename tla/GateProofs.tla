----------------------------- MODULE GateProofs -----------------------------
(***************************************************************************)
(* The run gate is right for every set of runs and every sequence of       *)
(* limits.  SlotAccounting is not inductive by itself: a grant is charged  *)
(* to the run the queue names, so the proof also needs that the queue      *)
(* holds each queued, ungranted run exactly once (QueueMatchesRuns).       *)
(***************************************************************************)
EXTENDS Gate, TLAPS, FiniteSetTheorems, FunctionTheorems, SequenceTheorems

GateInv == TypeOK /\ SlotAccounting /\ NoIdleSlot /\ QueueMatchesRuns

Injective(w) == \A i, j \in 1..Len(w) : w[i] = w[j] => i = j
Members(w) == {w[i] : i \in 1..Len(w)}
Firsts(w, k) == {w[i] : i \in 1..k}

\* The first k members of a queue without repetitions are k runs.
LEMMA FirstsCount ==
  ASSUME NEW w \in Seq(Runs), Injective(w), NEW k \in 0..Len(w)
  PROVE  /\ IsFiniteSet(Firsts(w, k))
         /\ Cardinality(Firsts(w, k)) = k
<1> DEFINE f == [i \in 1..k |-> w[i]]
<1>1. k \in Nat /\ 1..k \subseteq 1..Len(w)
  OBVIOUS
<1>2. f \in Bijection(1..k, Firsts(w, k))
  <2>1. f \in [1..k -> Firsts(w, k)]
    BY DEF Firsts
  <2>2. \A a, b \in 1..k : f[a] = f[b] => a = b
    BY <1>1 DEF Injective
  <2>3. \A t \in Firsts(w, k) : \E s \in 1..k : f[s] = t
    BY DEF Firsts
  <2> QED
    BY <2>1, <2>2, <2>3, Fun_IsBij
<1>3. ExistsBijection(1..k, Firsts(w, k))
  BY <1>2, Fun_ExistsBij DEF ExistsBijection
<1>4. Cardinality(Firsts(w, k)) = k
  BY <1>1, <1>3, FS_CountingElements
<1>5. IsFiniteSet(Firsts(w, k))
  BY <1>1, <1>3, FS_NatBijection
<1> QED
  BY <1>4, <1>5

\* wakeLocked stops when the gate is full or the queue is empty, and never
\* goes past the limit.
LEMMA WokenBounds ==
  ASSUME NEW w \in Seq(Runs), NEW a \in Nat, NEW l \in Nat
  PROVE  /\ Woken(w, a, l) \in 0..Len(w)
         /\ Woken(w, a, l) = Len(w) \/ a + Woken(w, a, l) >= l
         /\ Woken(w, a, l) > 0 => a + Woken(w, a, l) <= l
BY DEF Woken

\* What dropping the first k members of a queue leaves.
LEMMA DropFirst ==
  ASSUME NEW w \in Seq(Runs), Injective(w), NEW k \in 0..Len(w)
  PROVE  LET v == SubSeq(w, k + 1, Len(w)) IN
         /\ v \in Seq(Runs)
         /\ Injective(v)
         /\ Members(v) = Members(w) \ Firsts(w, k)
         /\ k = Len(w) => v = <<>>
<1> DEFINE v == SubSeq(w, k + 1, Len(w))
<1>1. k \in Nat /\ Len(w) \in Nat /\ k <= Len(w)
  OBVIOUS
<1>2. \A i \in (k + 1)..Len(w) : w[i] \in Runs
  BY <1>1
<1>3. /\ v \in Seq(Runs)
      /\ Len(v) = Len(w) - k
      /\ \A i \in 1..(Len(w) - k) : v[i] = w[k + i]
  <2>1. /\ v \in Seq(Runs)
        /\ Len(v) = IF k + 1 <= Len(w) THEN Len(w) - (k + 1) + 1 ELSE 0
        /\ \A i \in 1..(Len(w) - (k + 1) + 1) : v[i] = w[(k + 1) + i - 1]
    BY <1>1, <1>2, SubSeqProperties
  <2> QED
    BY <1>1, <2>1
<1>4. Injective(v)
  BY <1>1, <1>3 DEF Injective
<1>5. Members(v) = Members(w) \ Firsts(w, k)
  <2>1. ASSUME NEW x \in Members(v) PROVE x \in Members(w) \ Firsts(w, k)
    <3>1. PICK i \in 1..Len(v) : x = v[i]
      BY DEF Members
    <3>2. x = w[k + i] /\ k + i \in 1..Len(w) /\ k + i \notin 1..k
      BY <1>1, <1>3, <3>1
    <3>3. x \notin Firsts(w, k)
      BY <1>1, <3>2 DEF Firsts, Injective
    <3> QED
      BY <3>2, <3>3 DEF Members
  <2>2. ASSUME NEW x \in Members(w) \ Firsts(w, k) PROVE x \in Members(v)
    <3>1. PICK i \in 1..Len(w) : x = w[i]
      BY DEF Members
    <3>2. i \notin 1..k
      BY <3>1 DEF Firsts
    <3>3. i - k \in 1..Len(v) /\ v[i - k] = x
      BY <1>1, <1>3, <3>1, <3>2
    <3> QED
      BY <3>3 DEF Members
  <2> QED
    BY <2>1, <2>2
<1>6. k = Len(w) => v = <<>>
  BY <1>1, SubSeqEmpty
<1> QED
  BY <1>3, <1>4, <1>5, <1>6

\* The runs one call of wakeLocked wakes, and the queue it leaves.
WokenRuns(w, a, l) == Firsts(w, Woken(w, a, l))
QueueLeft(w, a, l) == SubSeq(w, Woken(w, a, l) + 1, Len(w))

\* What one call of wakeLocked does, when O is the set of runs charged for the a
\* slots in use at the time of the call and none of them queues.
LEMMA WakeEffect ==
  ASSUME NEW w \in Seq(Runs), Injective(w), NEW a \in Nat, NEW l \in Nat,
         NEW O, IsFiniteSet(O), Cardinality(O) = a, O \cap Members(w) = {}
  PROVE  /\ QueueLeft(w, a, l) \in Seq(Runs)
         /\ Injective(QueueLeft(w, a, l))
         /\ Members(QueueLeft(w, a, l)) = Members(w) \ WokenRuns(w, a, l)
         /\ WokenRuns(w, a, l) \subseteq Members(w)
         /\ Woken(w, a, l) \in 0..Len(w)
         /\ a + Woken(w, a, l) = Cardinality(O \cup WokenRuns(w, a, l))
         /\ QueueLeft(w, a, l) # <<>> => a + Woken(w, a, l) >= l
         /\ Woken(w, a, l) > 0 => a + Woken(w, a, l) <= l
         /\ WokenRuns(w, a, l) # {} => Woken(w, a, l) > 0
<1> DEFINE k == Woken(w, a, l)
           v == QueueLeft(w, a, l)
           W == WokenRuns(w, a, l)
<1>1. /\ k \in 0..Len(w)
      /\ k = Len(w) \/ a + k >= l
      /\ k > 0 => a + k <= l
  BY WokenBounds
<1>2. IsFiniteSet(W) /\ Cardinality(W) = k
  BY <1>1, FirstsCount DEF WokenRuns
<1>3. W \subseteq Members(w)
  BY <1>1 DEF Firsts, Members, WokenRuns
<1>4. /\ v \in Seq(Runs)
      /\ Injective(v)
      /\ Members(v) = Members(w) \ W
      /\ k = Len(w) => v = <<>>
  BY <1>1, DropFirst DEF QueueLeft, WokenRuns
<1>5. Cardinality(O \cup W) = a + k
  <2>1. O \cap W = {}
    BY <1>3
  <2>2. Cardinality(O \cup W) = Cardinality(O) + Cardinality(W) - Cardinality(O \cap W)
    BY <1>2, FS_Union
  <2>3. Cardinality(O \cap W) = 0
    BY <2>1, FS_EmptySet
  <2>4. k \in Nat
    BY <1>1
  <2> QED
    BY <1>2, <2>2, <2>3, <2>4
<1>6. W # {} => k > 0
  BY <1>1 DEF Firsts, WokenRuns
<1> QED
  BY <1>1, <1>3, <1>4, <1>5, <1>6

-----------------------------------------------------------------------------

LEMMA OwnersFinite ==
  ASSUME NEW S \in SUBSET Runs
  PROVE  IsFiniteSet(S) /\ Cardinality(S) \in Nat
BY RunsFinite, FS_Subset, FS_CardinalityType

LEMMA InitInv == Init => GateInv
<1> SUFFICES ASSUME Init PROVE GateInv
  OBVIOUS
<1>1. TypeOK
  BY LimitsNat DEF Init, TypeOK, Clamp
<1>2. Owners = {} /\ Waiting = {}
  BY DEF Init, Owners, Waiting
<1>3. SlotAccounting
  BY <1>2, FS_EmptySet DEF Init, SlotAccounting
<1>4. NoIdleSlot
  BY DEF Init, NoIdleSlot
<1>5. QueueMatchesRuns
  BY <1>2 DEF Init, QueueMatchesRuns
<1> QED
  BY <1>1, <1>3, <1>4, <1>5 DEF GateInv

\* What the proofs of the steps use of the invariant, about the queue.
LEMMA QueueFacts ==
  ASSUME GateInv
  PROVE  /\ waiters \in Seq(Runs)
         /\ Injective(waiters)
         /\ Members(waiters) = Waiting
         /\ Waiting = {r \in Runs : pc[r] = "queued"} \ granted
         /\ Owners \in SUBSET Runs
         /\ Owners \cap Waiting = {}
         /\ IsFiniteSet(Owners)
         /\ active = Cardinality(Owners)
         /\ active \in Nat /\ limit \in Nat
<1>1. /\ waiters \in Seq(Runs)
      /\ Injective(waiters)
      /\ Members(waiters) = Waiting
      /\ Waiting = {r \in Runs : pc[r] = "queued"} \ granted
      /\ active = Cardinality(Owners)
      /\ active \in Nat /\ limit \in Nat
  BY DEF GateInv, TypeOK, QueueMatchesRuns, Injective, Members, Waiting, SlotAccounting
<1>2. Owners \in SUBSET Runs /\ Owners \cap Waiting = {}
  BY <1>1 DEF Owners
<1> QED
  BY <1>1, <1>2, OwnersFinite

\* A release by a run that owns a slot: the count drops by one, then free slots
\* go to the head of the queue.
LEMMA ReleaseEffect ==
  ASSUME GateInv, NEW r \in Owners, NEW g, ReleaseSlot(g)
  PROVE  \E W \in SUBSET Waiting :
           /\ waiters' \in Seq(Runs)
           /\ Injective(waiters')
           /\ Members(waiters') = Waiting \ W
           /\ granted' = g \cup W
           /\ active' \in Nat
           /\ active' = Cardinality((Owners \ {r}) \cup W)
           /\ waiters' # <<>> => active' >= limit
           /\ W # {} => active' <= limit
           /\ active' > active => active' <= limit
           /\ \E k \in 0..Len(waiters) : W = Firsts(waiters, k)
           /\ limit' = limit
<1> DEFINE O == Owners \ {r}
           a == active - 1
<1>1. /\ IsFiniteSet(O)
      /\ Cardinality(O) = a
      /\ a \in Nat
      /\ active > 0
  <2>1. IsFiniteSet(O) /\ Cardinality(O) = Cardinality(Owners) - 1
    BY QueueFacts, FS_RemoveElement
  <2>2. Cardinality(O) \in Nat
    BY <2>1, FS_CardinalityType
  <2> QED
    BY <2>1, <2>2, QueueFacts
<1>2. wakeLocked(waiters, a, limit, g) /\ limit' = limit
  BY <1>1 DEF ReleaseSlot
<1>3. O \cap Members(waiters) = {}
  BY QueueFacts
<1> DEFINE k == Woken(waiters, a, limit)
           W == WokenRuns(waiters, a, limit)
<1>4. /\ waiters' = QueueLeft(waiters, a, limit)
      /\ active' = a + k
      /\ granted' = g \cup W
  BY <1>2 DEF wakeLocked, Firsts, QueueLeft, WokenRuns
<1>5. /\ waiters' \in Seq(Runs)
      /\ Injective(waiters')
      /\ Members(waiters') = Members(waiters) \ W
      /\ W \subseteq Members(waiters)
      /\ active' = Cardinality(O \cup W)
      /\ waiters' # <<>> => active' >= limit
      /\ k > 0 => active' <= limit
      /\ W # {} => k > 0
      /\ k \in 0..Len(waiters)
  <2>1. waiters \in Seq(Runs) /\ Injective(waiters) /\ limit \in Nat
    BY QueueFacts
  <2> HIDE DEF O, a
  <2> QED
    BY <1>1, <1>3, <1>4, <2>1, WakeEffect
<1>6. active' \in Nat /\ (active' > active => active' <= limit)
  <2> HIDE DEF k, W
  <2> QED
    BY <1>1, <1>4, <1>5, QueueFacts
<1>7. W \in SUBSET Waiting /\ Members(waiters) = Waiting
  BY <1>5, QueueFacts
<1>8. \E n \in 0..Len(waiters) : W = Firsts(waiters, n)
  BY <1>5 DEF WokenRuns
<1> HIDE DEF k, W
<1> QED
  BY <1>2, <1>4, <1>5, <1>6, <1>7, <1>8

\* SetLimit under the invariant: nobody leaves, and free slots under the new
\* limit go to the head of the queue.
LEMMA ResizeEffect ==
  ASSUME GateInv, NEW n \in Limits, SetLimit(n)
  PROVE  \E W \in SUBSET Waiting :
           /\ waiters' \in Seq(Runs)
           /\ Injective(waiters')
           /\ Members(waiters') = Waiting \ W
           /\ granted' = granted \cup W
           /\ active' \in Nat
           /\ active' = Cardinality(Owners \cup W)
           /\ waiters' # <<>> => active' >= limit'
           /\ W # {} => active' <= limit'
           /\ active' > active => active' <= limit'
           /\ \E k \in 0..Len(waiters) : W = Firsts(waiters, k)
           /\ limit' \in Nat \ {0}
<1> DEFINE l == Clamp(n)
           k == Woken(waiters, active, l)
           W == WokenRuns(waiters, active, l)
<1>1. l \in Nat \ {0} /\ limit' = l
  BY LimitsNat DEF Clamp, SetLimit
<1>2. /\ waiters' = QueueLeft(waiters, active, l)
      /\ active' = active + k
      /\ granted' = granted \cup W
  BY <1>1 DEF SetLimit, wakeLocked, Firsts, QueueLeft, WokenRuns
<1>3. /\ waiters' \in Seq(Runs)
      /\ Injective(waiters')
      /\ Members(waiters') = Members(waiters) \ W
      /\ W \subseteq Members(waiters)
      /\ active' = Cardinality(Owners \cup W)
      /\ waiters' # <<>> => active' >= l
      /\ k > 0 => active' <= l
      /\ W # {} => k > 0
      /\ k \in 0..Len(waiters)
  <2>1. /\ waiters \in Seq(Runs) /\ Injective(waiters) /\ active \in Nat
        /\ IsFiniteSet(Owners) /\ Cardinality(Owners) = active
        /\ Owners \cap Members(waiters) = {}
    BY QueueFacts
  <2> HIDE DEF l
  <2> QED
    BY <1>1, <1>2, <2>1, WakeEffect
<1>4. active' \in Nat /\ (active' > active => active' <= l)
  <2> HIDE DEF k, W
  <2> QED
    BY <1>1, <1>2, <1>3, QueueFacts
<1>5. W \in SUBSET Waiting /\ Members(waiters) = Waiting
  BY <1>3, QueueFacts
<1>6. \E m \in 0..Len(waiters) : W = Firsts(waiters, m)
  BY <1>3 DEF WokenRuns
<1> HIDE DEF k, W, l
<1> QED
  BY <1>1, <1>2, <1>3, <1>4, <1>5, <1>6

\* Taking one member out of a queue, as Withdraw does.
LEMMA RemoveMember ==
  ASSUME NEW w \in Seq(Runs), Injective(w), NEW i \in 1..Len(w)
  PROVE  /\ Without(w, i) \in Seq(Runs)
         /\ Injective(Without(w, i))
         /\ Members(Without(w, i)) = Members(w) \ {w[i]}
         /\ Without(w, i) # <<>> => w # <<>>
<1> DEFINE n == Len(w)
           a == SubSeq(w, 1, i - 1)
           b == SubSeq(w, i + 1, n)
           v == Without(w, i)
<1>1. n \in Nat /\ i \in Nat /\ 1 <= i /\ i <= n
  OBVIOUS
<1>2. /\ a \in Seq(Runs) /\ Len(a) = i - 1
      /\ \A j \in 1..(i - 1) : a[j] = w[j]
  <2>1. \A j \in 1..(i - 1) : w[j] \in Runs
    BY <1>1
  <2>2. /\ a \in Seq(Runs)
        /\ Len(a) = IF 1 <= i - 1 THEN (i - 1) - 1 + 1 ELSE 0
        /\ \A j \in 1..((i - 1) - 1 + 1) : a[j] = w[1 + j - 1]
    BY <1>1, <2>1, SubSeqProperties
  <2> QED
    BY <1>1, <2>2
<1>3. /\ b \in Seq(Runs) /\ Len(b) = n - i
      /\ \A j \in 1..(n - i) : b[j] = w[i + j]
  <2>1. \A j \in (i + 1)..n : w[j] \in Runs
    BY <1>1
  <2>2. /\ b \in Seq(Runs)
        /\ Len(b) = IF i + 1 <= n THEN n - (i + 1) + 1 ELSE 0
        /\ \A j \in 1..(n - (i + 1) + 1) : b[j] = w[(i + 1) + j - 1]
    BY <1>1, <2>1, SubSeqProperties
  <2> QED
    BY <1>1, <2>2
<1>4. /\ v \in Seq(Runs) /\ Len(v) = n - 1
      /\ \A j \in 1..(n - 1) : v[j] = IF j < i THEN w[j] ELSE w[j + 1]
  <2>1. v = a \o b
    BY DEF Without
  <2> HIDE DEF a, b, n, v
  <2>2. /\ v \in Seq(Runs) /\ Len(v) = Len(a) + Len(b)
        /\ \A j \in 1..(Len(a) + Len(b)) : v[j] = IF j <= Len(a) THEN a[j] ELSE b[j - Len(a)]
    BY <1>2, <1>3, <2>1, ConcatProperties
  <2>3. Len(a) + Len(b) = n - 1
    BY <1>1, <1>2, <1>3
  <2>4. ASSUME NEW j \in 1..(n - 1) PROVE v[j] = IF j < i THEN w[j] ELSE w[j + 1]
    <3>1. v[j] = IF j <= i - 1 THEN a[j] ELSE b[j - (i - 1)]
      BY <1>2, <2>2, <2>3
    <3>2. CASE j < i
      BY <1>1, <1>2, <3>1, <3>2
    <3>3. CASE ~(j < i)
      <4>1. j - (i - 1) \in 1..(n - i) /\ i + (j - (i - 1)) = j + 1
        BY <1>1, <3>3
      <4> QED
        BY <1>1, <1>3, <3>1, <3>3, <4>1
    <3> QED
      BY <3>2, <3>3
  <2> QED
    BY <2>2, <2>3, <2>4
<1> HIDE DEF a, b, v
<1>5. Injective(v)
  <2> SUFFICES ASSUME NEW p \in 1..Len(v), NEW q \in 1..Len(v), v[p] = v[q] PROVE p = q
    BY DEF Injective
  <2> DEFINE up(j) == IF j < i THEN j ELSE j + 1
  <2>1. up(p) \in 1..n /\ up(q) \in 1..n /\ v[p] = w[up(p)] /\ v[q] = w[up(q)]
    BY <1>1, <1>4
  <2>2. up(p) = up(q)
    BY <2>1 DEF Injective
  <2> QED
    BY <1>1, <1>4, <2>2
<1>6. Members(v) = Members(w) \ {w[i]}
  <2>1. ASSUME NEW x \in Members(v) PROVE x \in Members(w) \ {w[i]}
    <3>1. PICK j \in 1..Len(v) : x = v[j]
      BY DEF Members
    <3>2. CASE j < i
      BY <1>1, <1>4, <3>1, <3>2 DEF Members, Injective
    <3>3. CASE ~(j < i)
      BY <1>1, <1>4, <3>1, <3>3 DEF Members, Injective
    <3> QED
      BY <3>2, <3>3
  <2>2. ASSUME NEW x \in Members(w) \ {w[i]} PROVE x \in Members(v)
    <3>1. PICK j \in 1..n : x = w[j] /\ j # i
      BY DEF Members
    <3>2. CASE j < i
      <4>1. j \in 1..Len(v) /\ v[j] = x
        BY <1>1, <1>4, <3>1, <3>2
      <4> QED
        BY <4>1 DEF Members
    <3>3. CASE j > i
      <4>1. j - 1 \in 1..Len(v) /\ v[j - 1] = x
        BY <1>1, <1>4, <3>1, <3>3
      <4> QED
        BY <4>1 DEF Members
    <3> QED
      BY <1>1, <3>1, <3>2, <3>3
  <2> QED
    BY <2>1, <2>2
<1>7. w # <<>>
  OBVIOUS
<1> QED
  BY <1>4, <1>5, <1>6, <1>7 DEF v

\* Putting a new member at the end of a queue, as Acquire does.
LEMMA AppendMember ==
  ASSUME NEW w \in Seq(Runs), Injective(w), NEW r \in Runs, r \notin Members(w)
  PROVE  /\ Append(w, r) \in Seq(Runs)
         /\ Injective(Append(w, r))
         /\ Members(Append(w, r)) = Members(w) \cup {r}
<1> DEFINE v == Append(w, r)
<1>1. /\ v \in Seq(Runs) /\ Len(v) = Len(w) + 1
      /\ \A i \in 1..Len(w) : v[i] = w[i]
      /\ v[Len(w) + 1] = r
  BY AppendProperties
<1>2. Len(w) \in Nat
  OBVIOUS
<1> HIDE DEF v
<1>3. Injective(v)
  BY <1>1, <1>2 DEF Injective, Members
<1>4. Members(v) = Members(w) \cup {r}
  <2>1. 1..Len(v) = 1..Len(w) \cup {Len(w) + 1}
    BY <1>1, <1>2
  <2> QED
    BY <1>1, <2>1 DEF Members
<1> QED
  BY <1>1, <1>3, <1>4 DEF v

-----------------------------------------------------------------------------

\* How each step changes who owns a slot, with the invariant it keeps.

LEMMA AcquireFreeStep ==
  ASSUME GateInv, NEW r \in Runs, AcquireFree(r)
  PROVE  GateInv' /\ Owners' = Owners \cup {r} /\ r \notin Owners
<1> USE DEF AcquireFree
<1>1. TypeOK'
  BY DEF GateInv, TypeOK
<1>2. Owners' = Owners \cup {r} /\ r \notin Owners
  BY DEF GateInv, TypeOK, Owners
<1>3. SlotAccounting'
  BY <1>2, QueueFacts, FS_AddElement DEF SlotAccounting
<1>4. waiters = <<>>
  BY DEF GateInv, NoIdleSlot, TypeOK
<1>5. NoIdleSlot'
  BY <1>4 DEF NoIdleSlot
<1>6. QueueMatchesRuns'
  BY DEF GateInv, TypeOK, QueueMatchesRuns, Waiting
<1> QED
  BY <1>1, <1>2, <1>3, <1>5, <1>6 DEF GateInv

LEMMA AcquireQueueStep ==
  ASSUME GateInv, NEW r \in Runs, AcquireQueue(r)
  PROVE  GateInv' /\ Owners' = Owners
<1> USE DEF AcquireQueue
<1>1. r \notin Members(waiters) /\ r \notin granted
  BY QueueFacts DEF GateInv, TypeOK, QueueMatchesRuns
<1>2. /\ waiters' \in Seq(Runs)
      /\ Injective(waiters')
      /\ Members(waiters') = Members(waiters) \cup {r}
  BY <1>1, QueueFacts, AppendMember
<1>3. TypeOK'
  BY <1>2 DEF GateInv, TypeOK
<1>4. Owners' = Owners
  BY <1>1 DEF GateInv, TypeOK, Owners
<1>5. SlotAccounting'
  BY <1>4 DEF GateInv, SlotAccounting
<1>6. NoIdleSlot'
  BY DEF NoIdleSlot
<1>7. QueueMatchesRuns'
  <2>1. Waiting' = ({q \in Runs : pc[q] = "queued"} \ granted)'
    BY <1>1, <1>2, QueueFacts DEF GateInv, TypeOK, Waiting, Members
  <2> QED
    BY <1>2, <2>1 DEF GateInv, TypeOK, QueueMatchesRuns, Injective
<1> QED
  BY <1>3, <1>4, <1>5, <1>6, <1>7 DEF GateInv

LEMMA NoticeGrantStep ==
  ASSUME GateInv, NEW r \in Runs, NoticeGrant(r)
  PROVE  GateInv' /\ Owners' = Owners
<1> USE DEF NoticeGrant
<1>1. TypeOK'
  BY DEF GateInv, TypeOK
<1>2. Owners' = Owners
  BY DEF GateInv, TypeOK, Owners
<1>3. SlotAccounting' /\ NoIdleSlot'
  BY <1>2 DEF GateInv, SlotAccounting, NoIdleSlot
<1>4. QueueMatchesRuns'
  BY DEF GateInv, TypeOK, QueueMatchesRuns, Waiting
<1> QED
  BY <1>1, <1>2, <1>3, <1>4 DEF GateInv

LEMMA WithdrawStep ==
  ASSUME GateInv, NEW r \in Runs, Withdraw(r)
  PROVE  GateInv' /\ Owners' = Owners
<1> USE DEF Withdraw
<1>1. CASE \E i \in 1..Len(waiters) :
             /\ waiters[i] = r
             /\ waiters' = Without(waiters, i)
             /\ pc' = [pc EXCEPT ![r] = "idle"]
             /\ ctxDone' = ctxDone \ {r}
  <2>1. PICK i \in 1..Len(waiters) :
             /\ waiters[i] = r
             /\ waiters' = Without(waiters, i)
             /\ pc' = [pc EXCEPT ![r] = "idle"]
             /\ ctxDone' = ctxDone \ {r}
    BY <1>1
  <2>2. /\ waiters' \in Seq(Runs)
        /\ Injective(waiters')
        /\ Members(waiters') = Members(waiters) \ {r}
        /\ waiters' # <<>> => waiters # <<>>
    BY <2>1, QueueFacts, RemoveMember
  <2>3. r \in Members(waiters)
    BY <2>1 DEF Members
  <2>4. r \notin granted
    BY <2>3, QueueFacts
  <2>5. TypeOK'
    BY <2>1, <2>2 DEF GateInv, TypeOK
  <2>6. Owners' = Owners
    BY <2>1, <2>4 DEF GateInv, TypeOK, Owners
  <2>7. SlotAccounting' /\ NoIdleSlot'
    BY <2>2, <2>6 DEF GateInv, SlotAccounting, NoIdleSlot
  <2>8. Waiting' = ({q \in Runs : pc[q] = "queued"} \ granted)'
    BY <2>1, <2>2, <2>4, QueueFacts DEF GateInv, TypeOK, Waiting, Members
  <2>9. QueueMatchesRuns'
    BY <2>1, <2>2, <2>4, <2>8 DEF GateInv, TypeOK, QueueMatchesRuns, Injective
  <2> QED
    BY <2>5, <2>6, <2>7, <2>9 DEF GateInv
<1>2. CASE /\ \A i \in 1..Len(waiters) : waiters[i] # r
           /\ pc' = [pc EXCEPT ![r] = "returning"]
           /\ UNCHANGED <<waiters, ctxDone>>
  <2>1. r \in granted
    BY <1>2 DEF GateInv, QueueMatchesRuns, Waiting
  <2>2. TypeOK'
    BY <1>2 DEF GateInv, TypeOK
  <2>3. Owners' = Owners
    BY <1>2, <2>1 DEF GateInv, TypeOK, Owners
  <2>4. SlotAccounting' /\ NoIdleSlot'
    BY <1>2, <2>3 DEF GateInv, SlotAccounting, NoIdleSlot
  <2>5. QueueMatchesRuns'
    BY <1>2, <2>1 DEF GateInv, TypeOK, QueueMatchesRuns, Waiting
  <2> QED
    BY <2>2, <2>3, <2>4, <2>5 DEF GateInv
<1> QED
  BY <1>1, <1>2

\* GiveBack and Release, which both end in the gate's Release.
LEMMA ReleaseStep ==
  ASSUME GateInv, NEW r \in Runs, GiveBack(r) \/ Release(r)
  PROVE  /\ GateInv'
         /\ r \in Owners
         /\ limit' = limit
         /\ active' > active => active' <= limit'
         /\ \E k \in 0..Len(waiters) :
              /\ Firsts(waiters, k) \subseteq Waiting
              /\ Members(waiters') = Waiting \ Firsts(waiters, k)
              /\ Owners' = (Owners \ {r}) \cup Firsts(waiters, k)
              /\ Firsts(waiters, k) # {} => active' <= limit'
<1>1. r \in Owners
  BY DEF GiveBack, Release, Owners
<1>2. PICK g : ReleaseSlot(g) /\ g \subseteq granted /\ granted \ {r} \subseteq g
               /\ (r \in g => pc[r] = "holding")
  BY DEF GiveBack, Release
<1>3. PICK W \in SUBSET Waiting :
           /\ waiters' \in Seq(Runs)
           /\ Injective(waiters')
           /\ Members(waiters') = Waiting \ W
           /\ granted' = g \cup W
           /\ active' \in Nat
           /\ active' = Cardinality((Owners \ {r}) \cup W)
           /\ waiters' # <<>> => active' >= limit
           /\ W # {} => active' <= limit
           /\ active' > active => active' <= limit
           /\ \E k \in 0..Len(waiters) : W = Firsts(waiters, k)
           /\ limit' = limit
  BY <1>1, <1>2, ReleaseEffect
<1>4. /\ pc' = [pc EXCEPT ![r] = "idle"]
      /\ ctxDone' = ctxDone \ {r}
  BY DEF GiveBack, Release
<1>5. r \notin granted' /\ r \notin W
  <2>1. pc[r] \in {"holding", "returning"}
    BY DEF GiveBack, Release
  <2>2. r \notin W
    BY <1>3, <2>1, QueueFacts
  <2>3. r \notin g
    BY <1>2 DEF GateInv, QueueMatchesRuns
  <2> QED
    BY <1>3, <2>2, <2>3
<1>6. granted' = (granted \ {r}) \cup W
  BY <1>2, <1>3, <1>5
<1>7. W \subseteq {q \in Runs : pc[q] = "queued"}
  BY <1>3, QueueFacts
<1>8. Owners' = (Owners \ {r}) \cup W
  BY <1>4, <1>5, <1>6, <1>7 DEF GateInv, TypeOK, Owners
<1>9. TypeOK'
  BY <1>3, <1>4, <1>6, <1>7 DEF GateInv, TypeOK
<1>10. SlotAccounting' /\ NoIdleSlot'
  BY <1>3, <1>8 DEF SlotAccounting, NoIdleSlot
<1>11. Waiting' = ({q \in Runs : pc[q] = "queued"} \ granted)'
  <2>1. Waiting' = Waiting \ W
    BY <1>3 DEF Waiting, Members
  <2>2. pc[r] # "queued"
    BY DEF GiveBack, Release
  <2> QED
    BY <1>4, <1>6, <2>1, <2>2, QueueFacts DEF GateInv, TypeOK
<1>12. QueueMatchesRuns'
  BY <1>3, <1>4, <1>5, <1>6, <1>7, <1>11 DEF GateInv, TypeOK, QueueMatchesRuns, Injective
<1>13. GateInv'
  BY <1>9, <1>10, <1>12 DEF GateInv
<1> QED
  BY <1>1, <1>3, <1>8, <1>13

LEMMA ResizeStep ==
  ASSUME GateInv, NEW n \in Limits, SetLimit(n)
  PROVE  /\ GateInv'
         /\ active' > active => active' <= limit'
         /\ limit' \in Nat \ {0}
         /\ \E k \in 0..Len(waiters) :
              /\ Firsts(waiters, k) \subseteq Waiting
              /\ Members(waiters') = Waiting \ Firsts(waiters, k)
              /\ Owners' = Owners \cup Firsts(waiters, k)
              /\ Firsts(waiters, k) # {} => active' <= limit'
<1>1. PICK W \in SUBSET Waiting :
           /\ waiters' \in Seq(Runs)
           /\ Injective(waiters')
           /\ Members(waiters') = Waiting \ W
           /\ granted' = granted \cup W
           /\ active' \in Nat
           /\ active' = Cardinality(Owners \cup W)
           /\ waiters' # <<>> => active' >= limit'
           /\ W # {} => active' <= limit'
           /\ active' > active => active' <= limit'
           /\ \E k \in 0..Len(waiters) : W = Firsts(waiters, k)
           /\ limit' \in Nat \ {0}
  BY ResizeEffect
<1>2. UNCHANGED <<ctxDone, pc>>
  BY DEF SetLimit
<1>3. W \subseteq {q \in Runs : pc[q] = "queued"}
  BY <1>1, QueueFacts
<1>4. Owners' = Owners \cup W
  BY <1>1, <1>2, <1>3 DEF Owners
<1>5. TypeOK'
  BY <1>1, <1>2, <1>3 DEF GateInv, TypeOK
<1>6. SlotAccounting' /\ NoIdleSlot'
  BY <1>1, <1>4 DEF SlotAccounting, NoIdleSlot
<1>7. Waiting' = ({q \in Runs : pc[q] = "queued"} \ granted)'
  <2>1. Waiting' = Waiting \ W
    BY <1>1 DEF Waiting, Members
  <2> QED
    BY <1>1, <1>2, <2>1, QueueFacts
<1>8. QueueMatchesRuns'
  BY <1>1, <1>2, <1>3, <1>7 DEF GateInv, QueueMatchesRuns, Injective
<1>9. GateInv'
  BY <1>5, <1>6, <1>8 DEF GateInv
<1> QED
  BY <1>1, <1>4, <1>9

LEMMA CancelStep ==
  ASSUME GateInv, NEW r \in Runs, CancelContext(r)
  PROVE  GateInv' /\ Owners' = Owners
BY DEF CancelContext, GateInv, TypeOK, SlotAccounting, NoIdleSlot, QueueMatchesRuns,
       Waiting, Owners

LEMMA StutterStep ==
  ASSUME GateInv, UNCHANGED vars
  PROVE  GateInv' /\ Owners' = Owners
BY DEF vars, GateInv, TypeOK, SlotAccounting, NoIdleSlot, QueueMatchesRuns, Waiting, Owners

LEMMA NextInv == GateInv /\ [Next]_vars => GateInv'
<1> SUFFICES ASSUME GateInv, [Next]_vars PROVE GateInv'
  OBVIOUS
<1>1. ASSUME NEW r \in Runs, RunStep(r) PROVE GateInv'
  BY <1>1, AcquireFreeStep, AcquireQueueStep, NoticeGrantStep, WithdrawStep, ReleaseStep
  DEF RunStep
<1>2. ASSUME NEW r \in Runs, CancelContext(r) PROVE GateInv'
  BY <1>2, CancelStep
<1>3. ASSUME NEW n \in Limits, SetLimit(n) PROVE GateInv'
  BY <1>3, ResizeStep
<1>4. CASE UNCHANGED vars
  BY <1>4, StutterStep
<1> QED
  BY <1>1, <1>2, <1>3, <1>4 DEF Next

\* In every state the gate reaches its counter is the number of runs that own a
\* slot, no slot is idle while a run queues, and the queue is what it should be.
THEOREM GateInvariant == Spec => []GateInv
<1>1. GateInv /\ [Next]_vars => GateInv'
  BY NextInv
<1> QED
  BY InitInv, <1>1, PTL DEF Spec

\* No slot of the gate is ever leaked or returned twice (gate.go:69-72).
THEOREM SlotsAreAccountedFor == Spec => []SlotAccounting
<1>1. GateInv => SlotAccounting
  BY DEF GateInv
<1> QED
  BY GateInvariant, <1>1, PTL

\* A run never queues while a slot is free (gate.go:88-95).
THEOREM NoSlotIdles == Spec => []NoIdleSlot
<1>1. GateInv => NoIdleSlot
  BY DEF GateInv
<1> QED
  BY GateInvariant, <1>1, PTL

-----------------------------------------------------------------------------

\* The gate hands out slots only up to the limit in force (gate.go:9-10).
THEOREM LimitIsHonoured == Spec => LimitHonoured
<1>1. GateInv /\ [Next]_vars => [active' > active => active' <= limit']_vars
  <2> SUFFICES ASSUME GateInv, Next, active' > active PROVE active' <= limit'
    OBVIOUS
  <2>1. active \in Nat /\ limit \in Nat
    BY QueueFacts
  <2>2. ASSUME NEW r \in Runs, RunStep(r) PROVE active' <= limit'
    <3>1. CASE AcquireFree(r)
      BY <2>1, <3>1 DEF AcquireFree
    <3>2. CASE AcquireQueue(r) \/ NoticeGrant(r) \/ Withdraw(r)
      BY <2>1, <3>2 DEF AcquireQueue, NoticeGrant, Withdraw
    <3>3. CASE GiveBack(r) \/ Release(r)
      BY <3>3, ReleaseStep
    <3> QED
      BY <2>2, <3>1, <3>2, <3>3 DEF RunStep
  <2>3. ASSUME NEW r \in Runs, CancelContext(r) PROVE active' <= limit'
    BY <2>1, <2>3 DEF CancelContext
  <2>4. ASSUME NEW n \in Limits, SetLimit(n) PROVE active' <= limit'
    BY <2>4, ResizeStep
  <2> QED
    BY <2>2, <2>3, <2>4 DEF Next
<1> QED
  BY GateInvariant, <1>1, PTL DEF Spec, LimitHonoured

\* Runs are admitted in the order in which they queued, and a newcomer never
\* overtakes a queued run (gate.go:46 with 88-95).
THEOREM RunsAreServedInOrder == Spec => FirstComeFirstServed
<1> DEFINE Ahead(i) == {waiters[j] : j \in 1..(i - 1)}
<1> DEFINE Fair == \A i \in 1..Len(waiters) :
                     waiters[i] \in Waiting' => Owners' \ Owners \subseteq Ahead(i)
<1>1. GateInv /\ [Next]_vars => [Fair]_vars
  <2> SUFFICES ASSUME GateInv, Next, NEW i \in 1..Len(waiters), waiters[i] \in Waiting'
               PROVE  Owners' \ Owners \subseteq Ahead(i)
    OBVIOUS
  <2>1. Waiting' = Members(waiters')
    BY DEF Waiting, Members
  <2>2. ASSUME NEW k \in 0..Len(waiters), waiters[i] \notin Firsts(waiters, k)
        PROVE  Firsts(waiters, k) \subseteq Ahead(i)
    <3>1. i \notin 1..k
      BY <2>2 DEF Firsts
    <3>2. 1..k \subseteq 1..(i - 1)
      BY <3>1, QueueFacts
    <3> QED
      BY <3>2 DEF Firsts
  <2>3. ASSUME NEW r \in Runs, RunStep(r) PROVE Owners' \ Owners \subseteq Ahead(i)
    <3>1. CASE AcquireFree(r)
      <4>1. waiters # <<>> /\ active < limit
        BY <3>1, QueueFacts DEF AcquireFree
      <4> QED
        BY <4>1, QueueFacts DEF GateInv, NoIdleSlot
    <3>2. CASE AcquireQueue(r) \/ NoticeGrant(r) \/ Withdraw(r)
      BY <3>2, AcquireQueueStep, NoticeGrantStep, WithdrawStep
    <3>3. CASE GiveBack(r) \/ Release(r)
      BY <2>1, <2>2, <3>3, ReleaseStep
    <3> QED
      BY <2>3, <3>1, <3>2, <3>3 DEF RunStep
  <2>4. ASSUME NEW r \in Runs, CancelContext(r) PROVE Owners' \ Owners \subseteq Ahead(i)
    BY <2>4, CancelStep
  <2>5. ASSUME NEW n \in Limits, SetLimit(n) PROVE Owners' \ Owners \subseteq Ahead(i)
    BY <2>1, <2>2, <2>5, ResizeStep
  <2> QED
    BY <2>3, <2>4, <2>5 DEF Next
<1> QED
  BY GateInvariant, <1>1, PTL DEF Spec, FirstComeFirstServed

\* The slot pool counts with the same operator.
LEMMA SameCardinality == \A S : Pool!Cardinality(S) = Cardinality(S)
BY DEF Pool!Cardinality, Cardinality

\* The gate implements the resizable slot pool: whatever the queue, the wake-ups
\* and the races with cancellation do, an observer sees only runs entering and
\* leaving a pool of the configured size.
THEOREM GateImplementsPool == Spec => ImplementsPool
<1>1. Init => Pool!Init
  <2> SUFFICES ASSUME Init PROVE Pool!Init
    OBVIOUS
  <2>1. Owners = {}
    BY DEF Init, Owners
  <2> QED
    BY <2>1, LimitsNat DEF Init, Clamp, Pool!Init
<1>2. GateInv /\ [Next]_vars => [Pool!Next]_(Pool!vars)
  <2> SUFFICES ASSUME GateInv, [Next]_vars PROVE Pool!Next \/ UNCHANGED Pool!vars
    OBVIOUS
  <2>1. GateInv' /\ active' = Cardinality(Owners')
    BY NextInv DEF GateInv, SlotAccounting
  <2>2. Waiting \in SUBSET Runs
    BY QueueFacts
  <2>3. ASSUME NEW r \in Runs, AcquireFree(r) PROVE Pool!Next
    <3>1. Owners' = (Owners \ {}) \cup {r} /\ r \in Runs \ Owners
      BY <2>3, AcquireFreeStep
    <3>2. active' <= limit' /\ limit' = limit
      BY <2>3, QueueFacts DEF AcquireFree
    <3> QED
      BY <2>1, <3>1, <3>2, SameCardinality DEF Pool!Next, Pool!Enter, Pool!Admit
  <2>4. ASSUME NEW r \in Runs, AcquireQueue(r) \/ NoticeGrant(r) \/ Withdraw(r)
        PROVE  UNCHANGED Pool!vars
    BY <2>4, AcquireQueueStep, NoticeGrantStep, WithdrawStep
    DEF AcquireQueue, NoticeGrant, Withdraw, Pool!vars
  <2>5. ASSUME NEW r \in Runs, GiveBack(r) \/ Release(r) PROVE Pool!Next
    <3>1. PICK k \in 0..Len(waiters) :
              /\ Firsts(waiters, k) \subseteq Waiting
              /\ Owners' = (Owners \ {r}) \cup Firsts(waiters, k)
              /\ Firsts(waiters, k) # {} => active' <= limit'
      BY <2>5, ReleaseStep
    <3>2. limit' = limit /\ r \in Owners /\ Firsts(waiters, k) \in SUBSET Runs
      BY <2>2, <2>5, <3>1, ReleaseStep
    <3> QED
      BY <2>1, <3>1, <3>2, SameCardinality DEF Pool!Next, Pool!Leave, Pool!Admit
  <2>6. ASSUME NEW r \in Runs, CancelContext(r) PROVE UNCHANGED Pool!vars
    BY <2>6, CancelStep DEF CancelContext, Pool!vars
  <2>7. ASSUME NEW n \in Limits, SetLimit(n) PROVE Pool!Next
    <3>1. PICK k \in 0..Len(waiters) :
              /\ Firsts(waiters, k) \subseteq Waiting
              /\ Owners' = Owners \cup Firsts(waiters, k)
              /\ Firsts(waiters, k) # {} => active' <= limit'
      BY <2>7, ResizeStep
    <3>2. limit' \in Nat \ {0} /\ Firsts(waiters, k) \in SUBSET Runs
      BY <2>2, <2>7, <3>1, ResizeStep
    <3> QED
      BY <2>1, <3>1, <3>2, SameCardinality DEF Pool!Next, Pool!Resize, Pool!Admit
  <2>8. CASE UNCHANGED vars
    BY <2>8, StutterStep DEF vars, Pool!vars
  <2> QED
    BY <2>3, <2>4, <2>5, <2>6, <2>7, <2>8 DEF Next, RunStep
<1> QED
  BY GateInvariant, <1>1, <1>2, PTL DEF Spec, ImplementsPool, Pool!Spec
=============================================================================
