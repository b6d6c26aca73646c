----------------------------- MODULE Retention ------------------------------
(***************************************************************************)
(* Retention of one workload on one target: restore points are taken as    *)
(* time goes by, every run prunes with the plan of EvaluateRetention, and  *)
(* the policy may be edited between runs.                                  *)
(***************************************************************************)
EXTENDS RetentionRules, Sequences, SequencesExt

CONSTANTS Ids,      \* ids of restore points; they are random, so in any order
          Policies  \* the policies an operator may save

VARIABLES now,     \* the clock
          points,  \* the restore points in the catalogue
          taken,   \* every point taken or kept since the policy was last saved
          policy,  \* Job.Retention
          pc       \* "stored": a point was made and retention comes next; "pruned": the
                   \* last run applied it to its end; "idle" otherwise

vars == <<now, points, taken, policy, pc>>

-----------------------------------------------------------------------------
(* EvaluateRetention.                                                      *)

\* sort.SliceStable: the point at a place is the one with so many newer ones.
sorted(P) == [i \in 1..Cardinality(P) |-> CHOOSE p \in P : Cardinality(NewerIn(P, p)) = i - 1]

\* keepLast: the head of the sorted points.
lastRule(P, n) == LET s == sorted(P) IN {s[i] : i \in {j \in DOMAIN s : j <= n}}

\* Slip: the slots of a rule are counted one too far.
periodRuleOneMore(P, r, n) ==
  FoldLeft(LAMBDA acc, p :
             IF bucketKey(p, r) \in acc.seen \/ Cardinality(acc.seen) > n THEN acc
             ELSE [seen |-> acc.seen \cup {bucketKey(p, r)}, ids |-> acc.ids \cup {p}],
           [seen |-> {}, ids |-> {}], sorted(P)).ids

\* One calendar rule: walk the sorted points, keep the first of each new period,
\* stop once keep periods were seen.
periodRule(P, r, n) ==
  FoldLeft(LAMBDA acc, p :
             IF bucketKey(p, r) \in acc.seen \/ Cardinality(acc.seen) >= n THEN acc
             ELSE [seen |-> acc.seen \cup {bucketKey(p, r)}, ids |-> acc.ids \cup {p}],
           [seen |-> {}, ids |-> {}], sorted(P)).ids

\* plan.Keeps.
EvaluateRetention(P, pol) ==
  lastRule(P, pol.last) \cup UNION {periodRule(P, r, pol.keep[r]) : r \in Rules}

-----------------------------------------------------------------------------

Init ==
  /\ now \in {t \in Times : \A u \in Times : t <= u}
  /\ points = {} /\ taken = {}
  /\ policy \in Policies
  /\ pc = "idle"

Tick ==
  /\ now + 1 \in Times
  /\ now' = now + 1
  /\ UNCHANGED <<points, taken, policy, pc>>

CreateBackup ==
  /\ pc # "stored"
  /\ \E i \in Ids \ {p.id : p \in taken} :
       LET new == [id |-> i, at |-> now]
       IN  points' = points \cup {new} /\ taken' = taken \cup {new}
  /\ pc' = "stored"
  /\ UNCHANGED <<now, policy>>

\* Slip: a policy that keeps nothing is applied like any other.
applyAnyRetention ==
  /\ pc = "stored"
  /\ points' = EvaluateRetention(points, policy)
  /\ pc' = "pruned"
  /\ UNCHANGED <<now, taken, policy>>

\* Slip: a run prunes one point, the oldest of the plan.
applyRetentionOnce ==
  /\ pc = "stored"
  /\ LET prunes == points \ EvaluateRetention(points, policy)
     IN  points' = IF ~KeepsAnything(policy) \/ prunes = {} THEN points
                   ELSE points \ {CHOOSE p \in prunes : \A q \in prunes : ~Newer(p, q)}
  /\ pc' = "pruned"
  /\ UNCHANGED <<now, taken, policy>>

\* applyRetention: nothing is pruned under a policy without a rule, nor by a plan
\* that keeps nothing.
applyRetention ==
  /\ pc = "stored"
  /\ LET keeps == EvaluateRetention(points, policy)
     IN  points' = IF ~KeepsAnything(policy) \/ keeps = {} THEN points ELSE keeps
  /\ pc' = "pruned"
  /\ UNCHANGED <<now, taken, policy>>

\* The pruning stops before its end, or never starts: the post-script or the
\* listing fails, or a call for one of the points does, or the server dies.  The
\* plan is worked off newest first; what was deleted stays deleted.
applyRetentionStops ==
  /\ pc = "stored"
  /\ LET keeps == EvaluateRetention(points, policy)
         prunes == IF ~KeepsAnything(policy) \/ keeps = {} THEN <<>>
                   ELSE SelectSeq(sorted(points), LAMBDA p : p \notin keeps)
     IN  \E k \in 0..Len(prunes) : points' = points \ {prunes[i] : i \in 1..k}
  /\ pc' = "idle"
  /\ UNCHANGED <<now, taken, policy>>

\* handlePatchJob: a new policy sees the points there are.
SavePolicy ==
  /\ pc # "stored"
  /\ policy' \in Policies \ {policy}
  /\ taken' = points
  /\ pc' = "idle"
  /\ UNCHANGED <<now, points>>

Next == Tick \/ CreateBackup \/ applyRetention \/ applyRetentionStops \/ SavePolicy

Spec == Init /\ [][Next]_vars

-----------------------------------------------------------------------------

\* The plan that EvaluateRetention computes by sorting and walking is the one its
\* comment promises, under every policy and whatever points there are.
PlanIsAsPromised ==
  \A pol \in Policies : EvaluateRetention(points, pol) = Kept(points, pol)

\* "the one policy that would leave nothing to recover from" (backup.go:740): the
\* newest point of a workload is never pruned.
NewestIsKept ==
  \A p \in taken : NewerIn(taken, p) = {} => p \in points

\* Pruning after every run loses nothing that pruning the whole history once
\* would keep, and keeps nothing that it would not, however many of the prunings
\* before were skipped or broke off.
PruningIsIncremental ==
  pc = "pruned" /\ KeepsAnything(policy) => points = Kept(taken, policy)
=============================================================================
