------------------------------ MODULE Catalog -------------------------------
(***************************************************************************)
(* The restore points of one source on one target: their rows, the         *)
(* manifests the rows stand for, the parent each one names and the         *)
(* evidence of its last verification.  Runs of several jobs may back the   *)
(* source up, the operator deletes points, and points are verified, all at *)
(* once; each SQL statement and each call to the target is a step, may     *)
(* fail, and may be the last before the server dies.  Points are numbered  *)
(* in the order of their CreatedAt.                                        *)
(***************************************************************************)
EXTENDS Naturals, FiniteSets, FiniteSetsExt

CONSTANTS Jobs,       \* jobs that back the source up to this target
          Operator,   \* the goroutine that serves DELETE /api/backups/{id}
          Verifiers,  \* verification runs
          MaxPoints,  \* bound: restore points stamped in a behaviour
          MaxChunks,  \* chunks of a restore point
          Fragile     \* bound: points whose chunks come to harm

ASSUME CatalogAssumption ==
  /\ MaxPoints \in Nat
  /\ MaxChunks \in Nat
  /\ Operator \notin Jobs
  /\ Fragile \subseteq 1..MaxPoints

VARIABLES rows,       \* points with a row in backups
          manifests,  \* points with a manifest on the target
          parent,     \* parent_id of a point, 0 for none
          evidence,   \* last_verify_result of a point
          damaged,    \* chunks, by point and place, lost or altered on the target
          stamped,    \* points numbered so far
          abandoned,  \* history: listed points whose deletion ended between its steps
          proc,       \* each run and the operator: pc, the point in hand, its parent and
                      \* the prunes left
          check       \* each verification: pc, its point, the chunks read, and those that
                      \* have been bad ever since it began

vars == <<rows, manifests, parent, evidence, damaged, stamped, abandoned, proc, check>>

Points == 1..MaxPoints
Places == 1..MaxChunks
Deleters == Jobs \cup {Operator}
Task(pc, b, above, prunes) == [pc |-> pc, point |-> b, parent |-> above, prunes |-> prunes]
Check(pc, b, read, bad) == [pc |-> pc, point |-> b, read |-> read, bad |-> bad]
Idle == Task("idle", 0, 0, {})
Unused == Check("idle", 0, 0, {})

Init ==
  /\ rows = {} /\ manifests = {} /\ damaged = {} /\ abandoned = {}
  /\ parent = [b \in Points |-> 0]
  /\ evidence = [b \in Points |-> ""]
  /\ stamped = 0
  /\ proc = [p \in Deleters |-> Idle]
  /\ check = [v \in Verifiers |-> Unused]

Goes(p, pc) == proc' = [proc EXCEPT ![p] = Task(pc, @.point, @.parent, @.prunes)]

-----------------------------------------------------------------------------
(* A run that has its stream stored: backupOneVM and backupAgentJob.       *)

LatestBackup == IF rows = {} THEN 0 ELSE Max(rows)

parentFor(j) ==
  /\ proc[j].pc = "idle"
  /\ proc' = [proc EXCEPT ![j] = Task("stamp", 0, LatestBackup, {})]
  /\ UNCHANGED <<rows, manifests, parent, evidence, damaged, stamped, abandoned, check>>

\* The id and CreatedAt of the point.
Stamp(j) ==
  /\ proc[j].pc = "stamp"
  /\ stamped < MaxPoints
  /\ stamped' = stamped + 1
  /\ proc' = [proc EXCEPT ![j] = Task("write", stamped + 1, @.parent, {})]
  /\ UNCHANGED <<rows, manifests, parent, evidence, damaged, abandoned, check>>

\* Slip: the manifest is still being written when the row appears.
WriteManifestLater(j) ==
  /\ proc[j].pc = "write"
  /\ Goes(j, "insert")
  /\ UNCHANGED <<rows, manifests, parent, evidence, damaged, stamped, abandoned, check>>

WriteManifest(j) ==
  /\ proc[j].pc = "write"
  /\ manifests' = manifests \cup {proc[j].point}
  /\ Goes(j, "insert")
  /\ UNCHANGED <<rows, parent, evidence, damaged, stamped, abandoned, check>>

\* Slip: the parent is looked up when the row is written.
CreateBackupLate(j) ==
  /\ proc[j].pc = "insert"
  /\ LET b == proc[j].point
     IN  /\ rows' = rows \cup {b}
         /\ parent' = [parent EXCEPT ![b] = LatestBackup]
  /\ proc' = [proc EXCEPT ![j] = Task("list", 0, 0, {})]
  /\ UNCHANGED <<manifests, evidence, damaged, stamped, abandoned, check>>

\* CreateBackup, with the parent that was looked up before the manifest.
CreateBackup(j) ==
  /\ proc[j].pc = "insert"
  /\ LET b == proc[j].point
     IN  /\ rows' = rows \cup {b}
         /\ parent' = [parent EXCEPT ![b] = proc[j].parent]
  /\ proc' = [proc EXCEPT ![j] = Task("list", 0, 0, {})]
  /\ UNCHANGED <<manifests, evidence, damaged, stamped, abandoned, check>>

PlanTo(j, prunes) ==
  /\ proc[j].pc = "list"
  /\ proc' = [proc EXCEPT ![j] = Task("prune", 0, 0, prunes)]
  /\ UNCHANGED <<rows, manifests, parent, evidence, damaged, stamped, abandoned, check>>

\* applyRetention plans: whatever the rules give up, never the newest point and
\* never all; the points are those of the source on the target.
PlanRetention(j) == \E prunes \in SUBSET (rows \ {LatestBackup}) : PlanTo(j, prunes)

Condemn(j, b) ==
  /\ proc[j].pc = "prune"
  /\ proc' = [proc EXCEPT ![j] = Task("unlink", b, 0, @.prunes \ {b})]
  /\ UNCHANGED <<rows, manifests, parent, evidence, damaged, stamped, abandoned, check>>

NextPrune(j) == \E b \in proc[j].prunes : Condemn(j, b)

Pruned(j) ==
  /\ proc[j].pc = "prune"
  /\ proc[j].prunes = {}
  /\ proc' = [proc EXCEPT ![j] = Idle]
  /\ UNCHANGED <<rows, manifests, parent, evidence, damaged, stamped, abandoned, check>>

-----------------------------------------------------------------------------
(* Deletion, by retention or by the operator: manifest, children, row.     *)

DeleteAsked(b) ==
  /\ proc[Operator].pc = "idle"
  /\ proc' = [proc EXCEPT ![Operator] = Task("unlink", b, 0, {})]
  /\ UNCHANGED <<rows, manifests, parent, evidence, damaged, stamped, abandoned, check>>

\* DeleteBackup loads the row first.
BackupByID == \E b \in rows : DeleteAsked(b)

\* A manifest that is not there is no error.
DeleteManifest(p) ==
  /\ proc[p].pc = "unlink"
  /\ manifests' = manifests \ {proc[p].point}
  /\ Goes(p, "detach")
  /\ UNCHANGED <<rows, parent, evidence, damaged, stamped, abandoned, check>>

ClearBackupParent(p) ==
  /\ proc[p].pc = "detach"
  /\ parent' = [b \in Points |-> IF b \in rows /\ parent[b] = proc[p].point THEN 0 ELSE parent[b]]
  /\ Goes(p, "remove")
  /\ UNCHANGED <<rows, manifests, evidence, damaged, stamped, abandoned, check>>

\* The row goes, and what it held with it.
DeleteBackup(p) ==
  /\ proc[p].pc = "remove"
  /\ LET b == proc[p].point
     IN  /\ rows' = rows \ {b}
         /\ parent' = [parent EXCEPT ![b] = 0]
         /\ evidence' = [evidence EXCEPT ![b] = ""]
         /\ abandoned' = abandoned \ {b}
  /\ proc' = [proc EXCEPT ![p] = IF p = Operator THEN Idle ELSE Task("prune", 0, 0, @.prunes)]
  /\ UNCHANGED <<manifests, damaged, stamped, check>>

-----------------------------------------------------------------------------
(* Verification, and what happens to the target.                           *)

StartVerify(v) ==
  /\ check[v].pc = "idle"
  /\ \E b \in rows : check' = [check EXCEPT ![v] = Check("open", b, 0, {c \in Places : <<b, c>> \in damaged})]
  /\ UNCHANGED <<rows, manifests, parent, evidence, damaged, stamped, abandoned, proc>>

Turns(v, pc, read) == check' = [check EXCEPT ![v] = Check(pc, @.point, read, @.bad)]
Finds(v) == check' = [check EXCEPT ![v] = Check("failed", @.point, 0, {})]

\* ReadManifest, and VerifyBackup's test for a point with nothing in it; the chunks
\* are then those of the manifest in memory.
ReadManifest(v) ==
  /\ check[v].pc = "open"
  /\ IF check[v].point \in manifests /\ MaxChunks > 0 THEN Turns(v, "reading", 0) ELSE Finds(v)
  /\ UNCHANGED <<rows, manifests, parent, evidence, damaged, stamped, abandoned, proc>>

\* Slip: what is read is not compared with its address.
ReadChunkOnly(v) ==
  /\ check[v].pc = "reading"
  /\ LET c == check[v].read + 1 IN Turns(v, IF c = MaxChunks THEN "passed" ELSE "reading", c)
  /\ UNCHANGED <<rows, manifests, parent, evidence, damaged, stamped, abandoned, proc>>

\* VerifyBackup: the chunks in order, the first bad one ends it.
ReadChunk(v) ==
  /\ check[v].pc = "reading"
  /\ LET c == check[v].read + 1
     IN  IF <<check[v].point, c>> \in damaged THEN Finds(v)
         ELSE Turns(v, IF c = MaxChunks THEN "passed" ELSE "reading", c)
  /\ UNCHANGED <<rows, manifests, parent, evidence, damaged, stamped, abandoned, proc>>

\* The settings, the target or the network do not answer.
VerifyError(v) ==
  /\ check[v].pc \in {"open", "reading"}
  /\ Finds(v)
  /\ UNCHANGED <<rows, manifests, parent, evidence, damaged, stamped, abandoned, proc>>

\* A verification that is cancelled leaves nothing behind.
VerifyCancelled(v) ==
  /\ check[v].pc \in {"open", "reading"}
  /\ check' = [check EXCEPT ![v] = Unused]
  /\ UNCHANGED <<rows, manifests, parent, evidence, damaged, stamped, abandoned, proc>>

\* recordVerification: an UPDATE that matches no row is only logged.
recordVerification(v) ==
  /\ check[v].pc \in {"passed", "failed"}
  /\ evidence' = [b \in Points |-> IF b = check[v].point /\ b \in rows THEN check[v].pc ELSE evidence[b]]
  /\ check' = [check EXCEPT ![v] = Unused]
  /\ UNCHANGED <<rows, manifests, parent, damaged, stamped, abandoned, proc>>

\* Nor does it do more about an UPDATE that fails: the older evidence stands.
VerificationUnrecorded(v) ==
  /\ check[v].pc \in {"passed", "failed"}
  /\ check' = [check EXCEPT ![v] = Unused]
  /\ UNCHANGED <<rows, manifests, parent, evidence, damaged, stamped, abandoned, proc>>

\* A chunk of a point goes bad: the target loses or alters the object, or a
\* collection removes it once the manifest is gone.
Damage(b, c) ==
  /\ b <= stamped
  /\ <<b, c>> \notin damaged
  /\ damaged' = damaged \cup {<<b, c>>}
  /\ UNCHANGED <<rows, manifests, parent, evidence, stamped, abandoned, proc, check>>

\* A run whose stream has the same chunk stores it again.
Repair(b, c) ==
  /\ <<b, c>> \in damaged
  /\ damaged' = damaged \ {<<b, c>>}
  /\ check' = [v \in Verifiers |->
                 IF check[v].point = b THEN [check[v] EXCEPT !.bad = @ \ {c}] ELSE check[v]]
  /\ UNCHANGED <<rows, manifests, parent, evidence, stamped, abandoned, proc>>

\* A deletion that has taken the manifest and not yet the row.
Halfway(p) == proc[p].pc \in {"detach", "remove"}

\* A statement or a call fails, or the run is cancelled: whatever was done stays.
Fail(p) ==
  /\ proc[p].pc # "idle"
  /\ proc' = [proc EXCEPT ![p] = Idle]
  /\ abandoned' = IF Halfway(p) THEN abandoned \cup {proc[p].point} ELSE abandoned
  /\ UNCHANGED <<rows, manifests, parent, evidence, damaged, stamped, check>>

Crash ==
  /\ proc' = [p \in Deleters |-> Idle]
  /\ check' = [v \in Verifiers |-> Unused]
  /\ abandoned' = abandoned \cup {proc[p].point : p \in {q \in Deleters : Halfway(q)}}
  /\ UNCHANGED <<rows, manifests, parent, evidence, damaged, stamped>>

RunStep(j) ==
  \/ parentFor(j)
  \/ Stamp(j)
  \/ WriteManifest(j)
  \/ CreateBackup(j)
  \/ PlanRetention(j)
  \/ NextPrune(j)
  \/ Pruned(j)

VerifyStep(v) ==
  \/ StartVerify(v)
  \/ ReadManifest(v)
  \/ ReadChunk(v)
  \/ VerifyError(v)
  \/ VerifyCancelled(v)
  \/ recordVerification(v)
  \/ VerificationUnrecorded(v)

Next ==
  \/ \E j \in Jobs : RunStep(j)
  \/ BackupByID
  \/ \E p \in Deleters : DeleteManifest(p) \/ ClearBackupParent(p) \/ DeleteBackup(p)
  \/ \E v \in Verifiers : VerifyStep(v)
  \/ \E b \in Fragile, c \in Places : Damage(b, c) \/ Repair(b, c)
  \/ \E p \in Deleters : Fail(p)
  \/ Crash

Spec == Init /\ [][Next]_vars

-----------------------------------------------------------------------------

Tasks == [pc : {"idle", "stamp", "write", "insert", "list", "prune", "unlink", "detach", "remove"},
          point : 0..MaxPoints, parent : 0..MaxPoints, prunes : SUBSET Points]
Checks == [pc : {"idle", "open", "reading", "passed", "failed"},
           point : 0..MaxPoints, read : 0..MaxChunks, bad : SUBSET Places]

TypeOK ==
  /\ rows \subseteq Points /\ manifests \subseteq Points
  /\ damaged \subseteq Points \X Places /\ abandoned \subseteq 0..MaxPoints
  /\ parent \in [Points -> 0..MaxPoints]
  /\ evidence \in [Points -> {"", "passed", "failed"}]
  /\ stamped \in 0..MaxPoints
  /\ proc \in [Deleters -> Tasks]
  /\ check \in [Verifiers -> Checks]

\* A listed point has its manifest on the target, or its deletion is between the
\* manifest and the row at this moment, or a deletion ended there (a statement
\* failed, the server died).  No backup run, failed, racing or crashed, leaves a
\* row that promises a restore nobody can do; a half-done deletion does.
ListedMeansStored ==
  \A b \in rows \ manifests : b \in abandoned \/ \E p \in Deleters : Halfway(p) /\ proc[p].point = b

\* The parent a point names is an older point, whatever runs of other jobs and
\* deletions came between the look-up and the insert: chains have no cycles.
ParentIsOlder == \A b \in rows : parent[b] < b

\* "every chunk is present and matches its content address" (engine.go:483): when a
\* verification has been recorded, the point, verified before or not, says passed
\* only if no chunk was bad from the beginning of it to the end, whatever was
\* deleted, damaged, stored again or cancelled meanwhile.
PassedWasWhole ==
  [][\A v \in Verifiers :
       recordVerification(v) /\ check[v].point \in rows /\ evidence'[check[v].point] = "passed"
         => check[v].bad = {}]_vars

=============================================================================
