--------------------------- MODULE CatalogProofs ----------------------------
(***************************************************************************)
(* ListedMeansStored and ParentIsOlder for every set of jobs, every number *)
(* of points and every interleaving.  Neither is inductive: a row is safe  *)
(* when it appears only because nobody else can have touched the point     *)
(* before, so the invariant says what it means for a point to be the       *)
(* business of one run alone (Unlisted, Owned).                            *)
(***************************************************************************)
EXTENDS Catalog, WellFoundedInduction, TLAPS

\* A run has numbered its point and not yet listed it.
Making(p) == proc[p].pc \in {"write", "insert"}

\* A task has set out to delete its point.
Deleting(p) == proc[p].pc \in {"unlink", "detach", "remove"}

\* What is listed, being deleted or planned for deletion has been numbered ...
Numbered ==
  /\ \A b \in rows : b <= stamped
  /\ \A p \in Deleters :
       /\ proc[p].parent <= stamped
       /\ \A b \in proc[p].prunes : b <= stamped
       /\ Deleting(p) => proc[p].point <= stamped

\* ... and is not a point that is still being made.
Unlisted ==
  \A p \in Deleters : Making(p) =>
    /\ proc[p].point <= stamped
    /\ proc[p].parent < proc[p].point
    /\ proc[p].point \notin rows
    /\ \A q \in Deleters : /\ proc[p].point \notin proc[q].prunes
                           /\ Deleting(q) => proc[q].point # proc[p].point

\* A point that is being made is the business of one run.
Owned ==
  \A p, q \in Deleters : Making(p) /\ Making(q) /\ proc[p].point = proc[q].point => p = q

\* A run lists a point whose manifest it has written.
Written == \A p \in Deleters : proc[p].pc = "insert" => proc[p].point \in manifests

\* A verification still has a chunk to read.
Reading == \A v \in Verifiers : check[v].pc = "reading" => check[v].read < MaxChunks

CatalogInv ==
  /\ TypeOK
  /\ Numbered
  /\ Unlisted
  /\ Owned
  /\ Written
  /\ Reading
  /\ ListedMeansStored
  /\ ParentIsOlder

-----------------------------------------------------------------------------

\* A bounded set of numbers has a greatest element: LatestBackup is a row if
\* there is one.
LEMMA LatestIsARow ==
  ASSUME rows \subseteq Points
  PROVE  (rows = {} /\ LatestBackup = 0) \/ LatestBackup \in rows
<1>1. CASE rows = {}
  BY <1>1 DEF LatestBackup
<1>2. CASE rows # {}
  <2>0. MaxPoints \in Nat /\ \A b \in rows : b \in Nat /\ b <= MaxPoints
    BY CatalogAssumption DEF Points
  <2> DEFINE N == {n \in Nat : \E b \in rows : n = MaxPoints - b}
  <2>1. N \in SUBSET Nat
    OBVIOUS
  <2>2. \A b \in rows : MaxPoints - b \in N
    BY <2>0
  <2>3. \A n \in N : \E b \in rows : n = MaxPoints - b
    OBVIOUS
  <2>4. \E m \in N : \A k \in N : ~(k < m)
    <3> HIDE DEF N
    <3>1. N # {}
      BY <1>2, <2>2
    <3>2. \E m \in N : \A k \in N : <<k, m>> \notin OpToRel(<, Nat)
      BY <2>1, <3>1, WFMin, NatLessThanWellFounded
    <3> QED
      BY <2>1, <3>2, Zenon DEF OpToRel
  <2>5. \E b \in rows : \A c \in rows : b >= c
    <3> HIDE DEF N
    <3>1. PICK m \in N : \A k \in N : ~(k < m)
      BY <2>4
    <3>2. PICK b \in rows : m = MaxPoints - b
      BY <2>3
    <3>3. ASSUME NEW c \in rows PROVE b >= c
      <4>1. ~(MaxPoints - c < MaxPoints - b)
        BY <2>2, <3>1, <3>2
      <4> QED
        BY <2>0, <4>1
    <3> QED
      BY <3>3
  <2> QED
    BY <1>2, <2>5 DEF LatestBackup, Max
<1> QED
  BY <1>1, <1>2

\* What a task is made of.
LEMMA TaskFields ==
  ASSUME NEW pc, NEW b, NEW above, NEW prunes
  PROVE  /\ Task(pc, b, above, prunes).pc = pc
         /\ Task(pc, b, above, prunes).point = b
         /\ Task(pc, b, above, prunes).parent = above
         /\ Task(pc, b, above, prunes).prunes = prunes
BY DEF Task

LEMMA TaskTyped ==
  ASSUME NEW pc \in {"idle", "stamp", "write", "insert", "list", "prune", "unlink", "detach", "remove"},
         NEW b \in 0..MaxPoints, NEW above \in 0..MaxPoints, NEW prunes \in SUBSET Points
  PROVE  Task(pc, b, above, prunes) \in Tasks
BY DEF Task, Tasks

LEMMA TaskParts ==
  ASSUME NEW t \in Tasks
  PROVE  /\ t.point \in 0..MaxPoints
         /\ t.parent \in 0..MaxPoints
         /\ t.prunes \in SUBSET Points
BY DEF Tasks

\* The numbers in a state are numbers.
LEMMA Numbers ==
  ASSUME TypeOK
  PROVE  /\ stamped \in Nat /\ stamped <= MaxPoints /\ MaxPoints \in Nat
         /\ \A b \in rows : b \in Nat /\ b > 0
         /\ \A p \in Deleters : /\ proc[p].point \in Nat /\ proc[p].point <= MaxPoints
                               /\ proc[p].parent \in Nat /\ proc[p].parent <= MaxPoints
                               /\ proc[p].prunes \in SUBSET Points
                               /\ \A b \in proc[p].prunes : b \in Nat /\ b > 0
<1>1. \A b \in Points : b \in Nat /\ b > 0
  BY CatalogAssumption DEF Points
<1>2. \A n \in 0..MaxPoints : n \in Nat /\ n <= MaxPoints
  BY CatalogAssumption
<1>3. \A p \in Deleters : proc[p] \in Tasks
  BY DEF TypeOK
<1>4. \A p \in Deleters : /\ proc[p].point \in 0..MaxPoints /\ proc[p].parent \in 0..MaxPoints
                          /\ proc[p].prunes \in SUBSET Points
  BY <1>3, TaskParts
<1> QED
  BY <1>1, <1>2, <1>4, CatalogAssumption DEF TypeOK

\* One task changes and the others stay.
LEMMA TaskChanges ==
  ASSUME NEW T, NEW f \in [Deleters -> T], NEW d \in Deleters, NEW t \in T
  PROVE  /\ [f EXCEPT ![d] = t] \in [Deleters -> T]
         /\ [f EXCEPT ![d] = t][d] = t
         /\ \A q \in Deleters : q # d => [f EXCEPT ![d] = t][q] = f[q]
OBVIOUS

LEMMA InitEstablishes == Init => CatalogInv
<1> SUFFICES ASSUME Init PROVE CatalogInv
  OBVIOUS
<1> USE CatalogAssumption
<1>1. 0 \in 0..MaxPoints /\ 0 \in 0..MaxChunks
  OBVIOUS
<1>2. Idle \in Tasks
  BY <1>1, TaskTyped DEF Idle
<1>3. Unused \in Checks
  BY <1>1 DEF Unused, Check, Checks
<1>4. Idle.pc = "idle" /\ Idle.prunes = {} /\ Idle.parent = 0 /\ Unused.pc = "idle"
  BY TaskFields DEF Idle, Unused, Check
<1>5. TypeOK
  <2>1. /\ rows \subseteq Points /\ manifests \subseteq Points
        /\ damaged \subseteq Points \X Places /\ abandoned \subseteq 0..MaxPoints
        /\ stamped \in 0..MaxPoints
    BY <1>1 DEF Init
  <2>2. parent \in [Points -> 0..MaxPoints]
    BY <1>1 DEF Init, Deleters
  <2>3. evidence \in [Points -> {"", "passed", "failed"}]
    BY DEF Init
  <2>4. proc \in [Deleters -> Tasks] /\ check \in [Verifiers -> Checks]
    BY <1>2, <1>3 DEF Init
  <2> QED
    BY <2>1, <2>2, <2>3, <2>4 DEF TypeOK
<1>6. Numbered /\ Unlisted /\ Owned /\ Written /\ Reading
  <2>1. /\ \A p \in Deleters : proc[p].pc = "idle" /\ proc[p].prunes = {} /\ proc[p].parent = 0
        /\ \A v \in Verifiers : check[v].pc = "idle"
    BY <1>4 DEF Init
  <2>2. rows = {} /\ stamped = 0
    BY DEF Init
  <2>3. Numbered
    BY <2>1, <2>2 DEF Numbered, Deleting
  <2> QED
    BY <2>1, <2>3 DEF Unlisted, Owned, Written, Reading, Making
<1>7. ListedMeansStored /\ ParentIsOlder
  BY DEF Init, ListedMeansStored, ParentIsOlder
<1> QED
  BY <1>5, <1>6, <1>7 DEF CatalogInv

-----------------------------------------------------------------------------
(* A step of a run or of the operator changes one task; the rest is one    *)
(* lemma per action.                                                       *)

\* The parent of a new point is a row, hence numbered.
LEMMA ParentForPreserves ==
  ASSUME CatalogInv, NEW j \in Jobs, parentFor(j)
  PROVE  CatalogInv'
<1> USE DEF CatalogInv
<1>1. LatestBackup \in Nat /\ LatestBackup <= stamped /\ LatestBackup \in 0..MaxPoints
  <2>1. LatestBackup = 0 \/ LatestBackup \in rows
    BY LatestIsARow DEF TypeOK
  <2> QED
    BY <2>1, Numbers DEF Numbered, Deleting
<1>2. Task("stamp", 0, LatestBackup, {}) \in Tasks /\ j \in Deleters
  BY <1>1, Numbers, TaskTyped DEF Deleters
<1>3. /\ proc' \in [Deleters -> Tasks]
      /\ proc'[j] = Task("stamp", 0, LatestBackup, {})
      /\ \A q \in Deleters : q # j => proc'[q] = proc[q]
  BY <1>2, TaskChanges DEF TypeOK, parentFor
<1>4. proc'[j].pc = "stamp" /\ proc'[j].parent = LatestBackup /\ proc'[j].prunes = {}
  BY <1>3, TaskFields DEF parentFor
<1>5. TypeOK'
  BY <1>1, <1>3, <1>4, Numbers DEF TypeOK, parentFor
<1>6. Numbered'
  BY <1>1, <1>3, <1>4, Numbers DEF Numbered, Deleting, parentFor
<1>7. Reading'
  BY <1>1, <1>3, <1>4, Numbers DEF Reading, parentFor
<1>8. Unlisted'
  BY <1>1, <1>3, <1>4, Numbers DEF Unlisted, Numbered, Making, Deleting, parentFor
<1>9. Owned'
  BY <1>1, <1>3, <1>4, Numbers DEF Owned, Unlisted, Numbered, Making, Deleting, parentFor
<1>10. Written'
  BY <1>1, <1>3, <1>4, Numbers DEF Written, Unlisted, Making, Deleting, parentFor
<1>11. ListedMeansStored' /\ ParentIsOlder'
  BY <1>1, <1>3, <1>4, Numbers DEF ListedMeansStored, Halfway, ParentIsOlder, Written, Unlisted, Making, Deleting, parentFor
<1> QED
  BY <1>5, <1>6, <1>7, <1>8, <1>9, <1>10, <1>11

\* A new number is nobody's business yet.
LEMMA StampPreserves ==
  ASSUME CatalogInv, NEW j \in Jobs, Stamp(j)
  PROVE  CatalogInv'
<1> USE DEF CatalogInv
<1>1. stamped' = stamped + 1 /\ stamped + 1 \in 0..MaxPoints /\ stamped \in Nat /\ j \in Deleters
  BY Numbers DEF Stamp, Deleters
<1>2. proc[j].parent \in 0..MaxPoints /\ proc[j].parent \in Nat /\ proc[j].parent <= stamped
  BY <1>1, Numbers DEF Numbered, Deleting
<1>3. Task("write", stamped + 1, proc[j].parent, {}) \in Tasks /\ j \in Deleters
  BY <1>1, <1>2, TaskTyped
<1>4. /\ proc' \in [Deleters -> Tasks]
      /\ proc'[j] = Task("write", stamped + 1, proc[j].parent, {})
      /\ \A q \in Deleters : q # j => proc'[q] = proc[q]
  BY <1>3, TaskChanges DEF TypeOK, Stamp
<1>5. proc'[j].pc = "write" /\ proc'[j].point = stamped + 1 /\ proc'[j].parent = proc[j].parent /\ proc'[j].prunes = {}
  BY <1>4, TaskFields DEF Stamp
<1>6. TypeOK'
  BY <1>1, <1>2, <1>4, <1>5, Numbers DEF TypeOK, Stamp
<1>7. Numbered'
  BY <1>1, <1>2, <1>4, <1>5, Numbers DEF Numbered, Deleting, Stamp
<1>8. Reading'
  BY <1>1, <1>2, <1>4, <1>5, Numbers DEF Reading, Stamp
<1>9. Unlisted'
  BY <1>1, <1>2, <1>4, <1>5, Numbers DEF Unlisted, Numbered, Making, Deleting, Stamp
<1>10. Owned'
  BY <1>1, <1>2, <1>4, <1>5, Numbers DEF Owned, Unlisted, Numbered, Making, Deleting, Stamp
<1>11. Written'
  BY <1>1, <1>2, <1>4, <1>5, Numbers DEF Written, Unlisted, Making, Deleting, Stamp
<1>12. ListedMeansStored' /\ ParentIsOlder'
  BY <1>1, <1>2, <1>4, <1>5, Numbers DEF ListedMeansStored, Halfway, ParentIsOlder, Written, Unlisted, Making, Deleting, Stamp
<1> QED
  BY <1>6, <1>7, <1>8, <1>9, <1>10, <1>11, <1>12

\* The manifest of an unlisted point is written.
LEMMA WriteManifestPreserves ==
  ASSUME CatalogInv, NEW j \in Jobs, WriteManifest(j)
  PROVE  CatalogInv'
<1> USE DEF CatalogInv
<1>1. j \in Deleters
  BY DEF Deleters
<1>2. /\ proc[j].point \in 0..MaxPoints
      /\ proc[j].parent \in 0..MaxPoints
      /\ proc[j].prunes \in SUBSET Points
  BY <1>1, Numbers
<1>3. proc[j].point \in Points
  BY <1>1, Numbers DEF Unlisted, Making, Deleting, WriteManifest, Points
<1>4. Task("insert", proc[j].point, proc[j].parent, proc[j].prunes) \in Tasks /\ j \in Deleters
  BY <1>1, <1>2, TaskTyped
<1>5. /\ proc' \in [Deleters -> Tasks]
      /\ proc'[j] = Task("insert", proc[j].point, proc[j].parent, proc[j].prunes)
      /\ \A q \in Deleters : q # j => proc'[q] = proc[q]
  BY <1>4, TaskChanges DEF TypeOK, WriteManifest, Goes
<1>6. /\ proc'[j].pc = "insert" /\ proc'[j].point = proc[j].point
      /\ proc'[j].parent = proc[j].parent /\ proc'[j].prunes = proc[j].prunes
  BY <1>5, TaskFields DEF WriteManifest
<1>7. TypeOK'
  BY <1>1, <1>2, <1>3, <1>5, <1>6, Numbers DEF TypeOK, WriteManifest
<1>8. Numbered'
  BY <1>1, <1>2, <1>3, <1>5, <1>6, Numbers DEF Numbered, Deleting, WriteManifest
<1>9. Reading'
  BY <1>1, <1>2, <1>3, <1>5, <1>6, Numbers DEF Reading, WriteManifest
<1>10. Unlisted'
  BY <1>1, <1>2, <1>3, <1>5, <1>6, Numbers DEF Unlisted, Numbered, Making, Deleting, WriteManifest
<1>11. Owned'
  BY <1>1, <1>2, <1>3, <1>5, <1>6, Numbers DEF Owned, Unlisted, Numbered, Making, Deleting, WriteManifest
<1>12. Written'
  BY <1>1, <1>2, <1>3, <1>5, <1>6, Numbers DEF Written, Unlisted, Making, Deleting, WriteManifest
<1>13. ListedMeansStored' /\ ParentIsOlder'
  BY <1>1, <1>2, <1>3, <1>5, <1>6, Numbers DEF ListedMeansStored, Halfway, ParentIsOlder, Written, Unlisted, Making, Deleting, WriteManifest
<1> QED
  BY <1>7, <1>8, <1>9, <1>10, <1>11, <1>12, <1>13

\* The point that is listed has its manifest and an older parent.
LEMMA CreateBackupPreserves ==
  ASSUME CatalogInv, NEW j \in Jobs, CreateBackup(j)
  PROVE  CatalogInv'
<1> USE DEF CatalogInv
<1>1. j \in Deleters
  BY DEF Deleters
<1>2. /\ proc[j].point \in 0..MaxPoints
      /\ proc[j].parent \in 0..MaxPoints
      /\ proc[j].prunes \in SUBSET Points
  BY <1>1, Numbers
<1>3. proc[j].point \in Points
  BY <1>1, Numbers DEF Unlisted, Making, Deleting, CreateBackup, Points
<1>4. Making(j) /\ proc[j].point <= stamped /\ proc[j].parent < proc[j].point
  BY <1>1 DEF Unlisted, Making, Deleting, CreateBackup
<1>5. /\ rows' = rows \cup {proc[j].point} /\ stamped' = stamped
      /\ check' = check /\ manifests' = manifests
  BY DEF CreateBackup
<1>6. /\ parent' \in [Points -> 0..MaxPoints]
      /\ parent'[proc[j].point] = proc[j].parent
      /\ \A b \in Points : b # proc[j].point => parent'[b] = parent[b]
  BY <1>1, <1>2, <1>3 DEF CreateBackup, TypeOK
<1>7. \A q \in Deleters : q # j /\ Making(q) => proc[q].point # proc[j].point
  BY <1>1, <1>4 DEF Owned
<1>8. Task("list", 0, 0, {}) \in Tasks /\ j \in Deleters
  BY <1>1, CatalogAssumption, TaskTyped
<1>9. /\ proc' \in [Deleters -> Tasks]
      /\ proc'[j] = Task("list", 0, 0, {})
      /\ \A q \in Deleters : q # j => proc'[q] = proc[q]
  BY <1>8, TaskChanges DEF TypeOK, CreateBackup
<1>10. /\ proc'[j].pc = "list" /\ proc'[j].point = 0
      /\ proc'[j].parent = 0 /\ proc'[j].prunes = {}
  BY <1>9, TaskFields DEF CreateBackup
<1>11. TypeOK'
  BY <1>1, <1>2, <1>3, <1>4, <1>5, <1>6, <1>7, <1>9, <1>10, Numbers DEF TypeOK, CreateBackup
<1>12. Numbered'
  BY <1>1, <1>2, <1>3, <1>4, <1>5, <1>6, <1>7, <1>9, <1>10, Numbers DEF Numbered, Deleting, CreateBackup
<1>13. Reading'
  BY <1>1, <1>2, <1>3, <1>4, <1>5, <1>6, <1>7, <1>9, <1>10, Numbers DEF Reading, CreateBackup
<1>14. Unlisted'
  BY <1>1, <1>2, <1>3, <1>4, <1>5, <1>6, <1>7, <1>9, <1>10, Numbers DEF Unlisted, Numbered, Making, Deleting, CreateBackup
<1>15. Owned'
  BY <1>1, <1>2, <1>3, <1>4, <1>5, <1>6, <1>7, <1>9, <1>10, Numbers DEF Owned, Unlisted, Numbered, Making, Deleting, CreateBackup
<1>16. Written'
  BY <1>1, <1>2, <1>3, <1>4, <1>5, <1>6, <1>7, <1>9, <1>10, Numbers DEF Written, Unlisted, Making, Deleting, CreateBackup
<1>17. ListedMeansStored' /\ ParentIsOlder'
  BY <1>1, <1>2, <1>3, <1>4, <1>5, <1>6, <1>7, <1>9, <1>10, Numbers DEF ListedMeansStored, Halfway, ParentIsOlder, Written, Unlisted, Making, Deleting, CreateBackup
<1> QED
  BY <1>11, <1>12, <1>13, <1>14, <1>15, <1>16, <1>17

\* A point that is being deleted loses its manifest, and no run is making it.
LEMMA DeleteManifestPreserves ==
  ASSUME CatalogInv, NEW p \in Deleters, DeleteManifest(p)
  PROVE  CatalogInv'
<1> USE DEF CatalogInv
<1>1. p \in Deleters
  BY DEF Deleters
<1>2. /\ proc[p].point \in 0..MaxPoints
      /\ proc[p].parent \in 0..MaxPoints
      /\ proc[p].prunes \in SUBSET Points
  BY <1>1, Numbers
<1>3. Task("detach", proc[p].point, proc[p].parent, proc[p].prunes) \in Tasks /\ p \in Deleters
  BY <1>1, <1>2, TaskTyped
<1>4. /\ proc' \in [Deleters -> Tasks]
      /\ proc'[p] = Task("detach", proc[p].point, proc[p].parent, proc[p].prunes)
      /\ \A q \in Deleters : q # p => proc'[q] = proc[q]
  BY <1>3, TaskChanges DEF TypeOK, DeleteManifest, Goes
<1>5. /\ proc'[p].pc = "detach" /\ proc'[p].point = proc[p].point
      /\ proc'[p].parent = proc[p].parent /\ proc'[p].prunes = proc[p].prunes
  BY <1>4, TaskFields DEF DeleteManifest
<1>6. TypeOK'
  BY <1>1, <1>2, <1>4, <1>5, Numbers DEF TypeOK, DeleteManifest
<1>7. Numbered'
  BY <1>1, <1>2, <1>4, <1>5, Numbers DEF Numbered, Deleting, DeleteManifest
<1>8. Reading'
  BY <1>1, <1>2, <1>4, <1>5, Numbers DEF Reading, DeleteManifest
<1>9. Unlisted'
  BY <1>1, <1>2, <1>4, <1>5, Numbers DEF Unlisted, Numbered, Making, Deleting, DeleteManifest
<1>10. Owned'
  BY <1>1, <1>2, <1>4, <1>5, Numbers DEF Owned, Unlisted, Numbered, Making, Deleting, DeleteManifest
<1>11. Written'
  <2> SUFFICES ASSUME NEW q \in Deleters, proc'[q].pc = "insert"
               PROVE  proc'[q].point \in manifests'
    BY DEF Written
  <2>1. q # p /\ proc'[q] = proc[q] /\ proc[q].pc = "insert"
    BY <1>4, <1>5
  <2>2. proc[q].point # proc[p].point
    <3>1. Making(q) /\ Deleting(p)
      BY <2>1 DEF Making, Deleting, DeleteManifest
    <3>2. Unlisted
      OBVIOUS
    <3> QED
      BY <3>1, <3>2 DEF Unlisted
  <2>3. proc[q].point \in manifests
    BY <2>1 DEF Written
  <2> QED
    BY <2>1, <2>2, <2>3 DEF DeleteManifest
<1>12. ListedMeansStored' /\ ParentIsOlder'
  BY <1>1, <1>2, <1>4, <1>5, Numbers DEF ListedMeansStored, Halfway, ParentIsOlder, Written, Unlisted, Making, Deleting, DeleteManifest
<1> QED
  BY <1>6, <1>7, <1>8, <1>9, <1>10, <1>11, <1>12

\* Children without a parent.
LEMMA ClearBackupParentPreserves ==
  ASSUME CatalogInv, NEW p \in Deleters, ClearBackupParent(p)
  PROVE  CatalogInv'
<1> USE DEF CatalogInv
<1>1. p \in Deleters
  BY DEF Deleters
<1>2. /\ proc[p].point \in 0..MaxPoints
      /\ proc[p].parent \in 0..MaxPoints
      /\ proc[p].prunes \in SUBSET Points
  BY <1>1, Numbers
<1>3. /\ parent' \in [Points -> 0..MaxPoints]
      /\ \A b \in Points : parent'[b] = 0 \/ parent'[b] = parent[b]
  <2>1. 0 \in 0..MaxPoints
    BY CatalogAssumption
  <2>2. parent \in [Points -> 0..MaxPoints]
    BY DEF TypeOK
  <2> QED
    BY <2>1, <2>2 DEF ClearBackupParent
<1>4. rows' = rows /\ rows \subseteq Points
  BY DEF ClearBackupParent, TypeOK
<1>5. Task("remove", proc[p].point, proc[p].parent, proc[p].prunes) \in Tasks /\ p \in Deleters
  BY <1>1, <1>2, TaskTyped
<1>6. /\ proc' \in [Deleters -> Tasks]
      /\ proc'[p] = Task("remove", proc[p].point, proc[p].parent, proc[p].prunes)
      /\ \A q \in Deleters : q # p => proc'[q] = proc[q]
  BY <1>5, TaskChanges DEF TypeOK, ClearBackupParent, Goes
<1>7. /\ proc'[p].pc = "remove" /\ proc'[p].point = proc[p].point
      /\ proc'[p].parent = proc[p].parent /\ proc'[p].prunes = proc[p].prunes
  BY <1>6, TaskFields DEF ClearBackupParent
<1>8. TypeOK'
  BY <1>1, <1>2, <1>3, <1>4, <1>6, <1>7, Numbers DEF TypeOK, ClearBackupParent
<1>9. Numbered'
  BY <1>1, <1>2, <1>3, <1>4, <1>6, <1>7, Numbers DEF Numbered, Deleting, ClearBackupParent
<1>10. Reading'
  BY <1>1, <1>2, <1>3, <1>4, <1>6, <1>7, Numbers DEF Reading, ClearBackupParent
<1>11. Unlisted'
  BY <1>1, <1>2, <1>3, <1>4, <1>6, <1>7, Numbers DEF Unlisted, Numbered, Making, Deleting, ClearBackupParent
<1>12. Owned'
  BY <1>1, <1>2, <1>3, <1>4, <1>6, <1>7, Numbers DEF Owned, Unlisted, Numbered, Making, Deleting, ClearBackupParent
<1>13. Written'
  BY <1>1, <1>2, <1>3, <1>4, <1>6, <1>7, Numbers DEF Written, Unlisted, Making, Deleting, ClearBackupParent
<1>14. ListedMeansStored' /\ ParentIsOlder'
  BY <1>1, <1>2, <1>3, <1>4, <1>6, <1>7, Numbers DEF ListedMeansStored, Halfway, ParentIsOlder, Written, Unlisted, Making, Deleting, ClearBackupParent
<1> QED
  BY <1>8, <1>9, <1>10, <1>11, <1>12, <1>13, <1>14

\* A plan names rows only, none of them a point that is being made.
LEMMA PlanRetentionPreserves ==
  ASSUME CatalogInv, NEW j \in Jobs, NEW prunes \in SUBSET rows, PlanTo(j, prunes)
  PROVE  CatalogInv'
<1> USE DEF CatalogInv
<1>1. 0 \in 0..MaxPoints /\ {} \in SUBSET Points
  BY CatalogAssumption
<1>2. prunes \in SUBSET Points
  BY DEF TypeOK
<1>3. j \in Deleters
  BY DEF Deleters
<1>4. Task("prune", 0, 0, prunes) \in Tasks /\ j \in Deleters
  BY <1>1, <1>2, <1>3, TaskTyped
<1>5. /\ proc' \in [Deleters -> Tasks]
      /\ proc'[j] = Task("prune", 0, 0, prunes)
      /\ \A q \in Deleters : q # j => proc'[q] = proc[q]
  BY <1>4, TaskChanges DEF TypeOK, PlanTo
<1>6. proc'[j].pc = "prune" /\ proc'[j].parent = 0 /\ proc'[j].prunes = prunes
  BY <1>5, TaskFields DEF PlanTo
<1>7. TypeOK'
  BY <1>1, <1>2, <1>3, <1>5, <1>6, Numbers DEF TypeOK, PlanTo
<1>8. Numbered'
  BY <1>1, <1>2, <1>3, <1>5, <1>6, Numbers DEF Numbered, Deleting, PlanTo
<1>9. Reading'
  BY <1>1, <1>2, <1>3, <1>5, <1>6, Numbers DEF Reading, PlanTo
<1>10. Unlisted'
  BY <1>1, <1>2, <1>3, <1>5, <1>6, Numbers DEF Unlisted, Numbered, Making, Deleting, PlanTo
<1>11. Owned'
  BY <1>1, <1>2, <1>3, <1>5, <1>6, Numbers DEF Owned, Unlisted, Numbered, Making, Deleting, PlanTo
<1>12. Written'
  BY <1>1, <1>2, <1>3, <1>5, <1>6, Numbers DEF Written, Unlisted, Making, Deleting, PlanTo
<1>13. ListedMeansStored' /\ ParentIsOlder'
  BY <1>1, <1>2, <1>3, <1>5, <1>6, Numbers DEF ListedMeansStored, Halfway, ParentIsOlder, Written, Unlisted, Making, Deleting, PlanTo
<1> QED
  BY <1>7, <1>8, <1>9, <1>10, <1>11, <1>12, <1>13

\* A point set aside for deletion was planned for, so no run is making it.
LEMMA CondemnPreserves ==
  ASSUME CatalogInv, NEW j \in Jobs, NEW b \in proc[j].prunes, Condemn(j, b)
  PROVE  CatalogInv'
<1> USE DEF CatalogInv
<1>1. 0 \in 0..MaxPoints /\ {} \in SUBSET Points
  BY CatalogAssumption
<1>2. j \in Deleters
  BY DEF Deleters
<1>3. b \in Points /\ b \in 0..MaxPoints /\ b \in Nat /\ b <= stamped
  <2>1. b \in Points /\ b \in Nat /\ b <= stamped
    BY <1>2, Numbers DEF Numbered, Deleting
  <2> QED
    BY <2>1, CatalogAssumption DEF Points
<1>4. proc[j].prunes \ {b} \in SUBSET Points
  BY <1>2, Numbers
<1>5. rows' = rows /\ manifests' = manifests /\ parent' = parent
  BY DEF Condemn
<1>6. /\ stamped' = stamped /\ check' = check /\ stamped \in Nat
      /\ \A x \in rows' : x <= stamped'
  BY <1>3, Numbers DEF Condemn, Numbered
<1>7. Task("unlink", b, 0, proc[j].prunes \ {b}) \in Tasks /\ j \in Deleters
  BY <1>1, <1>2, <1>3, <1>4, TaskTyped
<1>8. /\ proc' \in [Deleters -> Tasks]
      /\ proc'[j] = Task("unlink", b, 0, proc[j].prunes \ {b})
      /\ \A q \in Deleters : q # j => proc'[q] = proc[q]
  BY <1>7, TaskChanges DEF TypeOK, Condemn
<1>9. proc'[j].pc = "unlink" /\ proc'[j].point = b
      /\ proc'[j].parent = 0 /\ proc'[j].prunes = proc[j].prunes \ {b}
  BY <1>8, TaskFields DEF Condemn
<1>10. TypeOK'
  BY <1>1, <1>2, <1>3, <1>4, <1>5, <1>6, <1>8, <1>9, Numbers DEF TypeOK, Condemn
<1>11. Numbered'
  <2>1. \A q \in Deleters : proc'[q].parent <= stamped /\ proc'[q].prunes \subseteq proc[q].prunes
    <3>1. proc'[j].parent <= stamped /\ proc'[j].prunes \subseteq proc[j].prunes
      BY <1>9, Numbers
    <3>2. \A q \in Deleters : proc[q].parent <= stamped
      BY DEF Numbered, Deleting
    <3> QED
      BY <1>8, <3>1, <3>2
  <2>2. \A x \in rows' : x <= stamped
    BY <1>1, <1>2, <1>3, <1>4, <1>5, <1>6, Numbers DEF Numbered, Deleting
  <2>3. \A q \in Deleters : \A x \in proc[q].prunes : x <= stamped
    BY DEF Numbered, Deleting
  <2>4. stamped' = stamped
    BY DEF Condemn
  <2>5. \A q \in Deleters : Deleting(q)' => proc'[q].point <= stamped
    BY <1>3, <1>8, <1>9 DEF Numbered, Deleting
  <2> QED
    BY <2>1, <2>2, <2>3, <2>4, <2>5 DEF Numbered
<1>12. Reading'
  BY <1>1, <1>2, <1>3, <1>4, <1>5, <1>6, <1>8, <1>9, Numbers DEF Reading
<1>13. Unlisted'
  <2> SUFFICES ASSUME NEW p \in Deleters, Making(p)'
               PROVE  /\ proc'[p].point <= stamped'
                      /\ proc'[p].parent < proc'[p].point
                      /\ proc'[p].point \notin rows'
                      /\ \A q \in Deleters : /\ proc'[p].point \notin proc'[q].prunes
                                             /\ Deleting(q)' => proc'[q].point # proc'[p].point
    BY DEF Unlisted
  <2>1. p # j /\ proc'[p] = proc[p] /\ Making(p)
    BY <1>8, <1>9 DEF Making
  <2>2. /\ proc[p].point <= stamped /\ proc[p].parent < proc[p].point /\ proc[p].point \notin rows
        /\ \A q \in Deleters : /\ proc[p].point \notin proc[q].prunes
                               /\ Deleting(q) => proc[q].point # proc[p].point
    BY <2>1 DEF Unlisted
  <2>3. ASSUME NEW q \in Deleters
        PROVE  proc[p].point \notin proc'[q].prunes /\ (Deleting(q)' => proc'[q].point # proc[p].point)
    <3>1. CASE q = j
      <4>1. proc[p].point \notin proc[j].prunes /\ proc[p].point # b
        BY <1>2, <2>2
      <4> QED
        BY <1>9, <3>1, <4>1
    <3>2. CASE q # j
      <4>1. proc'[q] = proc[q]
        BY <1>8, <3>2
      <4>2. Deleting(q)' => Deleting(q)
        BY <4>1 DEF Deleting
      <4> QED
        BY <2>2, <4>1, <4>2
    <3> QED
      BY <3>1, <3>2
  <2> QED
    BY <1>5, <1>6, <2>1, <2>2, <2>3
<1>14. Owned'
  BY <1>1, <1>2, <1>3, <1>4, <1>5, <1>6, <1>8, <1>9, Numbers DEF Owned, Unlisted, Numbered, Making, Deleting
<1>15. Written'
  BY <1>1, <1>2, <1>3, <1>4, <1>5, <1>6, <1>8, <1>9, Numbers DEF Written, Unlisted, Making, Deleting
<1>16. ListedMeansStored' /\ ParentIsOlder'
  <2>1. \A q \in Deleters : Halfway(q) => Halfway(q)' /\ proc'[q].point = proc[q].point
    BY <1>8 DEF Halfway, Condemn
  <2> QED
    BY <1>5, <2>1 DEF ListedMeansStored, ParentIsOlder, Condemn
<1> QED
  BY <1>10, <1>11, <1>12, <1>13, <1>14, <1>15, <1>16

\* The operator picks a row.
LEMMA BackupByIDPreserves ==
  ASSUME CatalogInv, NEW b \in rows, DeleteAsked(b)
  PROVE  CatalogInv'
<1> USE DEF CatalogInv
<1>1. 0 \in 0..MaxPoints /\ {} \in SUBSET Points
  BY CatalogAssumption
<1>2. b \in Points /\ b \in 0..MaxPoints /\ b \in Nat /\ b <= stamped
  <2>1. b \in Points /\ b \in Nat /\ b <= stamped
    BY Numbers DEF Numbered, Deleting, TypeOK
  <2> QED
    BY <2>1, CatalogAssumption DEF Points
<1>3. rows' = rows /\ manifests' = manifests /\ parent' = parent
  BY DEF DeleteAsked
<1>4. /\ stamped' = stamped /\ check' = check /\ stamped \in Nat
      /\ \A x \in rows' : x <= stamped'
  BY <1>2, Numbers DEF DeleteAsked, Numbered
<1>5. Task("unlink", b, 0, {}) \in Tasks /\ Operator \in Deleters
  BY <1>1, <1>2, TaskTyped DEF Deleters
<1>6. /\ proc' \in [Deleters -> Tasks]
      /\ proc'[Operator] = Task("unlink", b, 0, {})
      /\ \A q \in Deleters : q # Operator => proc'[q] = proc[q]
  BY <1>5, TaskChanges DEF TypeOK, DeleteAsked
<1>7. proc'[Operator].pc = "unlink" /\ proc'[Operator].point = b
      /\ proc'[Operator].parent = 0 /\ proc'[Operator].prunes = {}
  BY <1>6, TaskFields DEF DeleteAsked
<1>8. TypeOK'
  BY <1>1, <1>2, <1>3, <1>4, <1>6, <1>7, Numbers DEF TypeOK, DeleteAsked
<1>9. Numbered'
  BY <1>1, <1>2, <1>3, <1>4, <1>6, <1>7, Numbers DEF Numbered, Deleting
<1>10. Reading'
  BY <1>1, <1>2, <1>3, <1>4, <1>6, <1>7, Numbers DEF Reading
<1>11. Unlisted'
  BY <1>1, <1>2, <1>3, <1>4, <1>6, <1>7, Numbers DEF Unlisted, Numbered, Making, Deleting
<1>12. Owned'
  BY <1>1, <1>2, <1>3, <1>4, <1>6, <1>7, Numbers DEF Owned, Unlisted, Numbered, Making, Deleting
<1>13. Written'
  BY <1>1, <1>2, <1>3, <1>4, <1>6, <1>7, Numbers DEF Written, Unlisted, Making, Deleting
<1>14. ListedMeansStored' /\ ParentIsOlder'
  <2>1. \A q \in Deleters : Halfway(q) => Halfway(q)' /\ proc'[q].point = proc[q].point
    BY <1>6 DEF Halfway, DeleteAsked
  <2> QED
    BY <1>3, <2>1 DEF ListedMeansStored, ParentIsOlder, DeleteAsked
<1> QED
  BY <1>8, <1>9, <1>10, <1>11, <1>12, <1>13, <1>14

\* A task that is over has no claims.
LEMMA PrunedPreserves ==
  ASSUME CatalogInv, NEW j \in Jobs, Pruned(j)
  PROVE  CatalogInv'
<1> USE DEF CatalogInv
<1>1. 0 \in 0..MaxPoints /\ {} \in SUBSET Points
  BY CatalogAssumption
<1>2. j \in Deleters
  BY DEF Deleters
<1>3. Idle \in Tasks /\ j \in Deleters
  BY <1>1, <1>2, TaskTyped DEF Idle
<1>4. /\ proc' \in [Deleters -> Tasks]
      /\ proc'[j] = Idle
      /\ \A q \in Deleters : q # j => proc'[q] = proc[q]
  BY <1>3, TaskChanges DEF TypeOK, Pruned
<1>5. /\ proc'[j].pc = "idle" /\ proc'[j].parent = 0 /\ proc'[j].prunes = {}
  BY <1>4, TaskFields DEF Pruned, Idle
<1>6. TypeOK'
  BY <1>1, <1>2, <1>4, <1>5, Numbers DEF TypeOK, Pruned
<1>7. Numbered'
  BY <1>1, <1>2, <1>4, <1>5, Numbers DEF Numbered, Deleting, Pruned
<1>8. Reading'
  BY <1>1, <1>2, <1>4, <1>5, Numbers DEF Reading, Pruned
<1>9. Unlisted'
  BY <1>1, <1>2, <1>4, <1>5, Numbers DEF Unlisted, Numbered, Making, Deleting, Pruned
<1>10. Owned'
  BY <1>1, <1>2, <1>4, <1>5, Numbers DEF Owned, Unlisted, Numbered, Making, Deleting, Pruned
<1>11. Written'
  BY <1>1, <1>2, <1>4, <1>5, Numbers DEF Written, Unlisted, Making, Deleting, Pruned
<1>12. ListedMeansStored' /\ ParentIsOlder'
  BY <1>1, <1>2, <1>4, <1>5, Numbers DEF ListedMeansStored, Halfway, ParentIsOlder, Written, Unlisted, Making, Deleting, Pruned
<1> QED
  BY <1>6, <1>7, <1>8, <1>9, <1>10, <1>11, <1>12

\* Nor has a task that failed.
LEMMA FailPreserves ==
  ASSUME CatalogInv, NEW p \in Deleters, Fail(p)
  PROVE  CatalogInv'
<1> USE DEF CatalogInv
<1>1. 0 \in 0..MaxPoints /\ {} \in SUBSET Points
  BY CatalogAssumption
<1>2. p \in Deleters
  BY DEF Deleters
<1>3. Idle \in Tasks /\ p \in Deleters
  BY <1>1, <1>2, TaskTyped DEF Idle
<1>4. /\ proc' \in [Deleters -> Tasks]
      /\ proc'[p] = Idle
      /\ \A q \in Deleters : q # p => proc'[q] = proc[q]
  BY <1>3, TaskChanges DEF TypeOK, Fail
<1>5. /\ proc'[p].pc = "idle" /\ proc'[p].parent = 0 /\ proc'[p].prunes = {}
  BY <1>4, TaskFields DEF Fail, Idle
<1>6. TypeOK'
  <2>1. proc[p].point \in 0..MaxPoints
    BY TaskParts DEF TypeOK
  <2>2. abandoned' \subseteq 0..MaxPoints
    BY <2>1 DEF TypeOK, Fail
  <2> QED
    BY <1>4, <2>2 DEF TypeOK, Fail
<1>7. Numbered'
  BY <1>1, <1>2, <1>4, <1>5, Numbers DEF Numbered, Deleting, Fail
<1>8. Reading'
  BY <1>1, <1>2, <1>4, <1>5, Numbers DEF Reading, Fail
<1>9. Unlisted'
  BY <1>1, <1>2, <1>4, <1>5, Numbers DEF Unlisted, Numbered, Making, Deleting, Fail
<1>10. Owned'
  BY <1>1, <1>2, <1>4, <1>5, Numbers DEF Owned, Unlisted, Numbered, Making, Deleting, Fail
<1>11. Written'
  BY <1>1, <1>2, <1>4, <1>5, Numbers DEF Written, Unlisted, Making, Deleting, Fail
<1>12. ListedMeansStored' /\ ParentIsOlder'
  BY <1>1, <1>2, <1>4, <1>5, Numbers DEF ListedMeansStored, Halfway, ParentIsOlder, Written, Unlisted, Making, Deleting, Fail
<1> QED
  BY <1>6, <1>7, <1>8, <1>9, <1>10, <1>11, <1>12

\* The row goes, and with it the promise.
LEMMA DeleteBackupPreserves ==
  ASSUME CatalogInv, NEW p \in Deleters, DeleteBackup(p)
  PROVE  CatalogInv'
<1> USE DEF CatalogInv
<1>1. 0 \in 0..MaxPoints /\ {} \in SUBSET Points
  BY CatalogAssumption
<1>2. proc[p].prunes \in SUBSET Points
  BY Numbers
<1>3. /\ rows' = rows \ {proc[p].point} /\ stamped' = stamped
      /\ check' = check /\ manifests' = manifests /\ rows \subseteq Points
  BY DEF DeleteBackup, TypeOK
<1>4. /\ parent' \in [Points -> 0..MaxPoints]
      /\ \A b \in Points : b # proc[p].point => parent'[b] = parent[b]
  BY <1>1 DEF DeleteBackup, TypeOK
<1>5. abandoned' = abandoned \ {proc[p].point} /\ abandoned' \subseteq 0..MaxPoints
  BY DEF DeleteBackup, TypeOK
<1>6. evidence' \in [Points -> {"", "passed", "failed"}]
  BY DEF DeleteBackup, TypeOK
<1>7. (IF p = Operator THEN Idle ELSE Task("prune", 0, 0, proc[p].prunes)) \in Tasks /\ p \in Deleters
  BY <1>1, <1>2, TaskTyped DEF Idle
<1>8. /\ proc' \in [Deleters -> Tasks]
      /\ proc'[p] = (IF p = Operator THEN Idle ELSE Task("prune", 0, 0, proc[p].prunes))
      /\ \A q \in Deleters : q # p => proc'[q] = proc[q]
  BY <1>7, TaskChanges DEF TypeOK, DeleteBackup
<1>9. /\ proc'[p].pc \in {"idle", "prune"} /\ proc'[p].parent = 0
      /\ proc'[p].prunes \in SUBSET proc[p].prunes
  <2>1. CASE p = Operator
    BY <1>8, <2>1, TaskFields DEF Idle
  <2>2. CASE p # Operator
    BY <1>8, <2>2, TaskFields
  <2> QED
    BY <2>1, <2>2
<1>10. TypeOK'
  BY <1>1, <1>2, <1>3, <1>4, <1>5, <1>6, <1>8, <1>9, Numbers DEF TypeOK, DeleteBackup
<1>11. Numbered'
  <2>1. \A q \in Deleters : proc'[q].parent <= stamped /\ proc'[q].prunes \subseteq proc[q].prunes
    <3>1. proc'[p].parent <= stamped /\ proc'[p].prunes \subseteq proc[p].prunes
      BY <1>9, Numbers
    <3>2. \A q \in Deleters : proc[q].parent <= stamped
      BY DEF Numbered, Deleting
    <3> QED
      BY <1>8, <3>1, <3>2
  <2>2. \A x \in rows' : x <= stamped
    BY <1>1, <1>2, <1>3, <1>4, <1>5, <1>6, Numbers DEF Numbered, Deleting
  <2>3. \A q \in Deleters : \A x \in proc[q].prunes : x <= stamped
    BY DEF Numbered, Deleting
  <2>4. stamped' = stamped
    BY DEF DeleteBackup
  <2>5. \A q \in Deleters : Deleting(q)' => proc'[q].point <= stamped
    BY <1>8, <1>9 DEF Numbered, Deleting
  <2> QED
    BY <2>1, <2>2, <2>3, <2>4, <2>5 DEF Numbered
<1>12. Reading'
  BY <1>1, <1>2, <1>3, <1>4, <1>5, <1>6, <1>8, <1>9, Numbers DEF Reading
<1>13. Unlisted'
  <2> SUFFICES ASSUME NEW r \in Deleters, Making(r)'
               PROVE  /\ proc'[r].point <= stamped'
                      /\ proc'[r].parent < proc'[r].point
                      /\ proc'[r].point \notin rows'
                      /\ \A q \in Deleters : /\ proc'[r].point \notin proc'[q].prunes
                                             /\ Deleting(q)' => proc'[q].point # proc'[r].point
    BY DEF Unlisted
  <2>1. r # p /\ proc'[r] = proc[r] /\ Making(r)
    BY <1>8, <1>9 DEF Making
  <2>2. /\ proc[r].point <= stamped /\ proc[r].parent < proc[r].point /\ proc[r].point \notin rows
        /\ \A q \in Deleters : /\ proc[r].point \notin proc[q].prunes
                               /\ Deleting(q) => proc[q].point # proc[r].point
    BY <2>1 DEF Unlisted
  <2>3. ASSUME NEW q \in Deleters
        PROVE  proc[r].point \notin proc'[q].prunes /\ (Deleting(q)' => proc'[q].point # proc[r].point)
    <3>1. CASE q = p
      <4>1. ~Deleting(p)'
        BY <1>9 DEF Deleting
      <4>2. proc[r].point \notin proc[p].prunes
        BY <2>2
      <4> QED
        BY <1>9, <3>1, <4>1, <4>2
    <3>2. CASE q # p
      <4>1. proc'[q] = proc[q]
        BY <1>8, <3>2
      <4>2. Deleting(q)' => Deleting(q)
        BY <4>1 DEF Deleting
      <4> QED
        BY <2>2, <4>1, <4>2
    <3> QED
      BY <3>1, <3>2
  <2> QED
    BY <1>3, <2>1, <2>2, <2>3
<1>14. Owned'
  BY <1>1, <1>2, <1>3, <1>4, <1>5, <1>6, <1>8, <1>9, Numbers DEF Owned, Unlisted, Numbered, Making, Deleting
<1>15. Written'
  BY <1>1, <1>2, <1>3, <1>4, <1>5, <1>6, <1>8, <1>9, Numbers DEF Written, Unlisted, Making, Deleting
<1>16. ListedMeansStored' /\ ParentIsOlder'
  <2>1. \A q \in Deleters : q # p /\ Halfway(q) => Halfway(q)' /\ proc'[q].point = proc[q].point
    BY <1>8 DEF Halfway
  <2>2. ListedMeansStored'
    BY <1>3, <1>5, <2>1 DEF ListedMeansStored
  <2>3. ParentIsOlder'
    BY <1>3, <1>4 DEF ParentIsOlder
  <2> QED
    BY <2>2, <2>3
<1> QED
  BY <1>10, <1>11, <1>12, <1>13, <1>14, <1>15, <1>16

\* A crash ends every task and every verification.
LEMMA CrashPreserves ==
  ASSUME CatalogInv, Crash
  PROVE  CatalogInv'
<1> USE DEF CatalogInv
<1>1. 0 \in 0..MaxPoints /\ 0 \in 0..MaxChunks
  BY CatalogAssumption
<1>2. Idle \in Tasks /\ Unused \in Checks
  <2>1. Idle \in Tasks
    BY <1>1, TaskTyped DEF Idle
  <2>2. Unused \in Checks
    BY <1>1 DEF Unused, Check, Checks
  <2> QED
    BY <2>1, <2>2
<1>3. Idle.pc = "idle" /\ Idle.prunes = {} /\ Idle.parent = 0 /\ Unused.pc = "idle"
  BY TaskFields DEF Idle, Unused, Check
<1>4. proc' \in [Deleters -> Tasks] /\ check' \in [Verifiers -> Checks]
  BY <1>2 DEF Crash
<1>5. /\ \A p \in Deleters : proc'[p].pc = "idle" /\ proc'[p].prunes = {} /\ proc'[p].parent = 0
      /\ \A v \in Verifiers : check'[v].pc = "idle"
  BY <1>3 DEF Crash
<1>6. TypeOK'
  <2>1. \A p \in Deleters : proc[p].point \in 0..MaxPoints
    BY TaskParts DEF TypeOK
  <2>2. abandoned' \subseteq 0..MaxPoints
    BY <2>1 DEF TypeOK, Crash
  <2> QED
    BY <1>4, <2>2 DEF TypeOK, Crash
<1>7. Numbered' /\ Reading'
  BY <1>5, Numbers DEF Numbered, Deleting, Reading, Crash
<1>8. Unlisted' /\ Owned' /\ Written'
  BY <1>5 DEF Unlisted, Owned, Written, Making
<1>9. ListedMeansStored' /\ ParentIsOlder'
  <2>1. \A p \in Deleters : Halfway(p) => proc[p].point \in abandoned'
    BY DEF Crash
  <2>2. abandoned \subseteq abandoned' /\ rows' = rows /\ manifests' = manifests /\ parent' = parent
    BY DEF Crash
  <2> QED
    BY <2>1, <2>2 DEF ListedMeansStored, ParentIsOlder
<1> QED
  BY <1>6, <1>7, <1>8, <1>9

\* What a check is made of.
LEMMA CheckFacts ==
  /\ \A pc, b, read, bad : Check(pc, b, read, bad).pc = pc /\ Check(pc, b, read, bad).read = read
  /\ \A pc \in {"idle", "open", "reading", "passed", "failed"}, b \in 0..MaxPoints,
        read \in 0..MaxChunks, bad \in SUBSET Places : Check(pc, b, read, bad) \in Checks
  /\ \A c \in Checks : c.point \in 0..MaxPoints /\ c.read \in 0..MaxChunks /\ c.bad \in SUBSET Places
<1>1. \A pc, b, read, bad : Check(pc, b, read, bad).pc = pc /\ Check(pc, b, read, bad).read = read
  BY DEF Check
<1>2. \A pc \in {"idle", "open", "reading", "passed", "failed"}, b \in 0..MaxPoints,
        read \in 0..MaxChunks, bad \in SUBSET Places : Check(pc, b, read, bad) \in Checks
  BY DEF Check, Checks
<1>3. \A c \in Checks : c.point \in 0..MaxPoints /\ c.read \in 0..MaxChunks /\ c.bad \in SUBSET Places
  BY DEF Checks
<1> QED
  BY <1>1, <1>2, <1>3

\* A verification touches nothing of a point but the evidence.
LEMMA ReadingPreserves ==
  ASSUME CatalogInv, NEW v \in Verifiers, NEW c \in Checks,
         check' = [check EXCEPT ![v] = c], c.pc = "reading" => c.read < MaxChunks,
         evidence' \in [Points -> {"", "passed", "failed"}],
         UNCHANGED <<rows, manifests, parent, damaged, stamped, abandoned, proc>>
  PROVE  CatalogInv'
<1> USE DEF CatalogInv
<1>1. /\ check' \in [Verifiers -> Checks] /\ check'[v] = c
      /\ \A w \in Verifiers : w # v => check'[w] = check[w]
  BY DEF TypeOK
<1>2. TypeOK'
  BY <1>1 DEF TypeOK
<1>3. Reading'
  BY <1>1 DEF Reading
<1>4. Numbered' /\ Unlisted' /\ Owned' /\ Written'
  BY DEF Numbered, Deleting, Unlisted, Owned, Written, Making
<1> QED
  BY <1>2, <1>3, <1>4 DEF ListedMeansStored, Halfway, ParentIsOlder

\* The steps of a verification.
LEMMA VerifyPreserves ==
  ASSUME CatalogInv, NEW v \in Verifiers, VerifyStep(v)
  PROVE  CatalogInv'
<1> USE DEF CatalogInv
<1>1. 0 \in 0..MaxPoints /\ 0 \in 0..MaxChunks /\ MaxChunks \in Nat /\ {} \in SUBSET Places
  BY CatalogAssumption
<1>2. evidence \in [Points -> {"", "passed", "failed"}] /\ check[v] \in Checks
  BY DEF TypeOK
<1>3. /\ check[v].point \in 0..MaxPoints /\ check[v].read \in 0..MaxChunks
      /\ check[v].bad \in SUBSET Places
  BY <1>2, CheckFacts
<1>4. Unused \in Checks /\ Unused.pc = "idle"
  BY <1>1, CheckFacts DEF Unused
<1>5. ASSUME NEW pc \in {"failed", "passed", "reading"}, NEW n \in 0..MaxChunks, Turns(v, pc, n),
             pc = "reading" => n < MaxChunks, evidence' = evidence,
             UNCHANGED <<rows, manifests, parent, damaged, stamped, abandoned, proc>>
      PROVE  CatalogInv'
  <2> DEFINE c == Check(pc, check[v].point, n, check[v].bad)
  <2>1. c \in Checks /\ c.pc = pc /\ c.read = n
    BY <1>3, CheckFacts
  <2>2. check' = [check EXCEPT ![v] = c]
    BY <1>5 DEF Turns
  <2> HIDE DEF c
  <2> QED
    BY <1>2, <1>5, <2>1, <2>2, ReadingPreserves
<1>6. CASE StartVerify(v)
  <2>1. PICK b \in rows : check' = [check EXCEPT ![v] = Check("open", b, 0, {c \in Places : <<b, c>> \in damaged})]
    BY <1>6 DEF StartVerify
  <2> DEFINE k == Check("open", b, 0, {c \in Places : <<b, c>> \in damaged})
  <2>2. b \in 0..MaxPoints
    <3>1. b \in Points
      BY DEF TypeOK
    <3> QED
      BY <3>1, CatalogAssumption DEF Points
  <2>3. k \in Checks /\ k.pc = "open"
    <3> DEFINE S == {c \in Places : <<b, c>> \in damaged}
    <3>1. S \in SUBSET Places
      OBVIOUS
    <3> HIDE DEF S
    <3>2. Check("open", b, 0, S) \in Checks /\ Check("open", b, 0, S).pc = "open"
      BY <1>1, <2>2, <3>1, CheckFacts
    <3> QED
      BY <3>2 DEF S
  <2>4. check' = [check EXCEPT ![v] = k]
    BY <2>1
  <2> HIDE DEF k
  <2> QED
    BY <1>2, <1>6, <2>3, <2>4, ReadingPreserves DEF StartVerify
<1>7. ASSUME Finds(v), evidence' = evidence,
             UNCHANGED <<rows, manifests, parent, damaged, stamped, abandoned, proc>>
      PROVE  CatalogInv'
  <2> DEFINE c == Check("failed", check[v].point, 0, {})
  <2>1. c \in Checks /\ c.pc = "failed"
    BY <1>1, <1>3, CheckFacts
  <2>2. check' = [check EXCEPT ![v] = c]
    BY <1>7 DEF Finds
  <2> HIDE DEF c
  <2> QED
    BY <1>2, <1>7, <2>1, <2>2, ReadingPreserves
<1>8. CASE ReadManifest(v)
  <2>1. CASE Turns(v, "reading", 0) /\ MaxChunks > 0
    BY <1>1, <1>5, <1>8, <2>1 DEF ReadManifest
  <2>2. CASE Finds(v)
    BY <1>7, <1>8, <2>2 DEF ReadManifest
  <2> QED
    BY <1>8, <2>1, <2>2 DEF ReadManifest
<1>9. CASE ReadChunk(v)
  <2>1. check[v].read < MaxChunks /\ check[v].pc = "reading"
    BY <1>9 DEF ReadChunk, Reading
  <2>2. check[v].read + 1 \in 0..MaxChunks
    BY <1>1, <1>3, <2>1
  <2>3. check[v].read + 1 # MaxChunks => check[v].read + 1 < MaxChunks
    BY <1>1, <1>3, <2>1
  <2>4. CASE Finds(v)
    BY <1>7, <1>9, <2>4 DEF ReadChunk
  <2>5. CASE Turns(v, IF check[v].read + 1 = MaxChunks THEN "passed" ELSE "reading", check[v].read + 1)
    BY <1>5, <1>9, <2>2, <2>3, <2>5 DEF ReadChunk
  <2> QED
    BY <1>9, <2>4, <2>5 DEF ReadChunk
<1>10. CASE VerifyError(v)
  BY <1>7, <1>10 DEF VerifyError
<1>11. CASE VerifyCancelled(v) \/ VerificationUnrecorded(v)
  BY <1>2, <1>4, <1>11, ReadingPreserves DEF VerifyCancelled, VerificationUnrecorded
<1>12. CASE recordVerification(v)
  <2>1. evidence' \in [Points -> {"", "passed", "failed"}]
    BY <1>2, <1>12 DEF recordVerification
  <2> QED
    BY <1>4, <1>12, <2>1, ReadingPreserves DEF recordVerification
<1> QED
  BY <1>6, <1>8, <1>9, <1>10, <1>11, <1>12 DEF VerifyStep

\* Damage to chunks and its repair, and steps that change nothing.
LEMMA DamagePreserves ==
  ASSUME CatalogInv, damaged' \subseteq Points \X Places,
         check' \in [Verifiers -> Checks],
         \A v \in Verifiers : check'[v].pc = check[v].pc /\ check'[v].read = check[v].read,
         UNCHANGED <<rows, manifests, parent, evidence, stamped, abandoned, proc>>
  PROVE  CatalogInv'
<1> USE DEF CatalogInv
<1>1. TypeOK'
  BY DEF TypeOK
<1>2. Numbered' /\ Unlisted' /\ Owned' /\ Written' /\ Reading'
  BY DEF Numbered, Deleting, Unlisted, Owned, Written, Reading, Making
<1> QED
  BY <1>1, <1>2 DEF ListedMeansStored, Halfway, ParentIsOlder

-----------------------------------------------------------------------------

\* The invariant is inductive.
LEMMA NextPreserves ==
  ASSUME CatalogInv, [Next]_vars
  PROVE  CatalogInv'
<1>1. ASSUME NEW j \in Jobs, RunStep(j) PROVE CatalogInv'
  <2>1. CASE \E prunes \in SUBSET (rows \ {LatestBackup}) : PlanTo(j, prunes)
    BY <2>1, PlanRetentionPreserves
  <2>2. CASE \E b \in proc[j].prunes : Condemn(j, b)
    BY <2>2, CondemnPreserves
  <2> QED
    BY <1>1, <2>1, <2>2, ParentForPreserves, StampPreserves, WriteManifestPreserves,
       CreateBackupPreserves, PrunedPreserves DEF RunStep, PlanRetention, NextPrune
<1>2. CASE BackupByID
  BY <1>2, BackupByIDPreserves DEF BackupByID
<1>3. ASSUME NEW p \in Deleters, DeleteManifest(p) \/ ClearBackupParent(p) \/ DeleteBackup(p) \/ Fail(p)
      PROVE  CatalogInv'
  BY <1>3, DeleteManifestPreserves, ClearBackupParentPreserves, DeleteBackupPreserves, FailPreserves
<1>4. ASSUME NEW v \in Verifiers, VerifyStep(v) PROVE CatalogInv'
  BY <1>4, VerifyPreserves
<1>5. ASSUME NEW b \in Fragile, NEW c \in Places, Damage(b, c) PROVE CatalogInv'
  <2>1. damaged' \subseteq Points \X Places
    <3>1. damaged \subseteq Points \X Places /\ damaged' = damaged \cup {<<b, c>>}
      BY <1>5 DEF Damage, CatalogInv, TypeOK
    <3>2. <<b, c>> \in Points \X Places
      BY CatalogAssumption DEF Points
    <3> QED
      BY <3>1, <3>2, Zenon
  <2>2. check \in [Verifiers -> Checks]
    BY DEF CatalogInv, TypeOK
  <2> QED
    BY <1>5, <2>1, <2>2, DamagePreserves DEF Damage
<1>6. ASSUME NEW b \in Fragile, NEW c \in Places, Repair(b, c) PROVE CatalogInv'
  <2>1. damaged' \subseteq Points \X Places
    BY <1>6, Zenon DEF Repair, CatalogInv, TypeOK
  <2>2. check \in [Verifiers -> Checks]
    BY DEF CatalogInv, TypeOK
  <2>3. ASSUME NEW k \in Checks
        PROVE  LET m == [k EXCEPT !.bad = @ \ {c}] IN m \in Checks /\ m.pc = k.pc /\ m.read = k.read
    BY DEF Checks
  <2>4. /\ check' \in [Verifiers -> Checks]
        /\ \A v \in Verifiers : check'[v].pc = check[v].pc /\ check'[v].read = check[v].read
    BY <1>6, <2>2, <2>3 DEF Repair
  <2> QED
    BY <1>6, <2>1, <2>4, DamagePreserves DEF Repair
<1>7. CASE Crash
  BY <1>7, CrashPreserves
<1>8. CASE UNCHANGED vars
  BY <1>8, DamagePreserves DEF vars, CatalogInv, TypeOK
<1> QED
  BY <1>1, <1>2, <1>3, <1>4, <1>5, <1>6, <1>7, <1>8 DEF Next

\* Whatever the interleaving of runs, retention, deletions, verifications and
\* crashes: a listed point has its manifest (WriteManifest before CreateBackup)
\* unless its own deletion is, or ended, between DeleteManifest and DeleteBackup.
THEOREM ListedPointsAreStored == Spec => []ListedMeansStored
<1>1. CatalogInv => ListedMeansStored
  BY DEF CatalogInv
<1> QED
  BY <1>1, InitEstablishes, NextPreserves, PTL DEF Spec

\* Parent chains go strictly back in time: parentFor reads a row, and every row
\* is older than the number the new point is given afterwards.
THEOREM ChainsGoBack == Spec => [](TypeOK /\ ParentIsOlder)
<1>1. CatalogInv => TypeOK /\ ParentIsOlder
  BY DEF CatalogInv
<1> QED
  BY <1>1, InitEstablishes, NextPreserves, PTL DEF Spec
=============================================================================
