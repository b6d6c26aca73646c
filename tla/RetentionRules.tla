--------------------------- MODULE RetentionRules ---------------------------
(***************************************************************************)
(* What a GFS retention policy keeps, stated without an algorithm: the     *)
(* promise in the comment of store.EvaluateRetention.                      *)
(***************************************************************************)
EXTENDS Integers, FiniteSets

CONSTANTS Rules,    \* the calendar rules: daily, weekly, monthly, yearly
          Times,    \* the instants at which a restore point may be made
          Calendar  \* the period of each rule that an instant belongs to

ASSUME CalendarAssumption ==
  /\ Times \subseteq Int
  /\ DOMAIN Calendar = Rules
  /\ \A r \in Rules : DOMAIN Calendar[r] = Times

\* store.RetentionPoint; ids only break ties.
RetentionPoint == [id : Int, at : Times]

\* store.RetentionPolicy, as Validate admits it.
RetentionPolicy == [last : Nat, keep : [Rules -> Nat]]

\* Newest first, the id deciding between points of one instant.
Newer(p, q) == p.at > q.at \/ (p.at = q.at /\ p.id > q.id)

NewerIn(P, p) == {q \in P : Newer(q, p)}

bucketKey(p, r) == Calendar[r][p.at]

\* The periods of rule r with a point newer than p.
NewerKeys(P, p, r) == {bucketKey(q, r) : q \in NewerIn(P, p)}

\* The n newest points.
KeptLast(P, n) == {p \in P : Cardinality(NewerIn(P, p)) < n}

\* The newest point of each of the n most recent periods that have one.
KeptBy(r, P, n) ==
  {p \in P : bucketKey(p, r) \notin NewerKeys(P, p, r) /\ Cardinality(NewerKeys(P, p, r)) < n}

Kept(P, policy) == KeptLast(P, policy.last) \cup UNION {KeptBy(r, P, policy.keep[r]) : r \in Rules}

\* RetentionPolicy.Total is above zero: some rule keeps something.
KeepsAnything(policy) == policy.last > 0 \/ \E r \in Rules : policy.keep[r] > 0
=============================================================================
