----------------------------- MODULE ChunkStore -----------------------------
(***************************************************************************)
(* One backup target: the chunks and manifests on it, the chunk index and  *)
(* the restore-point rows in the database, and the actors that change      *)
(* them.  Runs store chunks, write manifests and apply retention           *)
(* (engine.putChunk, sched.backupOneVM, sched.applyRetention); the last    *)
(* run to leave the target, and the operator's DeleteBackup, collect       *)
(* orphans (engine.GC).  Every object-store call and every SQL statement   *)
(* is a step of its own, so collections, runs, deletions, failures and     *)
(* crashes interleave as they can in the server.                           *)
(*                                                                         *)
(* Time is abstracted to what the grace window tells apart: a blob or an   *)
(* index row is "recent" (younger than the window) until Age.              *)
(***************************************************************************)
EXTENDS Naturals, FiniteSets

CONSTANTS Chunks,      \* chunk hashes
          Runs,        \* run goroutines
          Nothing,     \* no chunk or restore point in hand
          Operator,    \* the goroutine serving DELETE /api/backups/{id}
          MaxBackups,  \* bound: restore points taken in a behaviour
          GraceOn,     \* FALSE models PROXBACK_GC_GRACE=0
          Scenes       \* the scenes that are explored, below

ASSUME ChunkStoreAssumption ==
  /\ MaxBackups \in Nat
  /\ GraceOn \in BOOLEAN
  /\ Operator \notin Runs
  /\ Scenes \subseteq SUBSET {"overlap", "interrupts"}

VARIABLES blob,          \* chunks/<sha>: absent, or present with its age
          row,           \* chunk_index: absent, or present with its age
          manifests,     \* backup ids whose manifest object is on the target
          content,       \* the chunks each manifest references
          listed,        \* backup ids with a row in the backups table
          nextId,        \* restore points are numbered in order of created_at
          targetActive,  \* Manager.targetActive[target]
          at,            \* where each actor is, with its local variables
          scene,         \* what the behaviour may contain: "overlap", a run that starts while a
                         \* collection is under way; "interrupts", a collection that stops
                         \* between a chunk and its row
          alone          \* history: actors that are collecting and have been the only ones at
                         \* work on the target since they began

storage == <<blob, row>>
catalog == <<manifests, content, listed, nextId>>
vars == <<blob, row, manifests, content, listed, nextId, targetActive, at, scene, alone>>

Actors == Runs \cup {Operator}
Ids == 1..MaxBackups
Age3 == {"absent", "recent", "aged"}
NoRows == [c \in Chunks |-> "absent"]

\* An actor's locals: the chunks stored so far (stored), the chunk or restore
\* point in hand (item), restore points still to prune or, in a collection, the
\* manifests listed (plan), and the collection's own snapshots and work lists.
Idle == [pc |-> "idle", stored |-> {}, item |-> Nothing, plan |-> {}, refs |-> {},
         indexed |-> NoRows, left |-> {}, doomed |-> {}, stale |-> {}]

Working == {"storing", "head", "put", "adding", "manifested", "retention", "pruning", "prunerow"}
Collecting == {"gclist", "gcread", "gcindex", "gcwalk", "gcdelete", "gcrow"}

\* The target before its first backup.
Init ==
  /\ blob = NoRows
  /\ row = NoRows
  /\ manifests = {}
  /\ content = [b \in Ids |-> {}]
  /\ listed = {}
  /\ nextId = 1
  /\ targetActive = 0
  /\ at = [a \in Actors |-> Idle]
  /\ scene \in Scenes
  /\ alone = {}

Present == {c \in Chunks : blob[c] # "absent"}
Indexed == {c \in Chunks : row[c] # "absent"}
GCRunning == \E a \in Actors : at[a].pc \in Collecting
Newest(S) == CHOOSE b \in S : \A x \in S : x <= b

-----------------------------------------------------------------------------
(* A run: sched.backupAttempt and what it calls.                           *)

\* markTargetActive.
Begin(r) ==
  /\ at[r].pc = "idle"
  /\ "overlap" \in scene \/ ~GCRunning
  /\ nextId <= MaxBackups
  /\ targetActive' = targetActive + 1
  /\ at' = [at EXCEPT ![r] = [Idle EXCEPT !.pc = "storing"]]
  /\ UNCHANGED <<storage, catalog>>

\* Slip: a look-up that fails counts as a hit.
DedupHitOnError(r, c) ==
  /\ at[r].pc = "storing"
  /\ at' = [at EXCEPT ![r].stored = @ \cup {c}]
  /\ UNCHANGED <<storage, catalog, targetActive>>

\* putChunk finds the chunk in the index: nothing is uploaded, and the row's
\* timestamp is left alone.
DedupHit(r, c) ==
  /\ at[r].pc = "storing"
  /\ row[c] # "absent"
  /\ at' = [at EXCEPT ![r].stored = @ \cup {c}]
  /\ UNCHANGED <<storage, catalog, targetActive>>

DedupMiss(r, c) ==
  /\ at[r].pc = "storing"
  /\ row[c] = "absent"
  /\ at' = [at EXCEPT ![r].pc = "head", ![r].item = c]
  /\ UNCHANGED <<storage, catalog, targetActive>>

\* The HEAD that guards against a lost index row.
HeadChunk(r) ==
  /\ at[r].pc = "head"
  /\ at' = [at EXCEPT ![r].pc = IF blob[at[r].item] # "absent" THEN "adding" ELSE "put"]
  /\ UNCHANGED <<storage, catalog, targetActive>>

PutChunk(r) ==
  /\ at[r].pc = "put"
  /\ blob' = [blob EXCEPT ![at[r].item] = "recent"]
  /\ at' = [at EXCEPT ![r].pc = "adding"]
  /\ UNCHANGED <<row, catalog, targetActive>>

\* AddChunk: an existing row keeps its timestamp (ON CONFLICT updates the size).
AddChunk(r) ==
  LET c == at[r].item IN
    /\ at[r].pc = "adding"
    /\ row' = [row EXCEPT ![c] = IF @ = "absent" THEN "recent" ELSE @]
    /\ at' = [at EXCEPT ![r].pc = "storing", ![r].item = Nothing, ![r].stored = @ \cup {c}]
    /\ UNCHANGED <<blob, catalog, targetActive>>

\* One source, not an empty one, is read to the end: its manifest goes to the
\* target first ...
WriteManifest(r) ==
  /\ at[r].pc = "storing"
  /\ at[r].stored # {}
  /\ nextId <= MaxBackups
  /\ manifests' = manifests \cup {nextId}
  /\ content' = [content EXCEPT ![nextId] = at[r].stored]
  /\ nextId' = nextId + 1
  /\ at' = [at EXCEPT ![r].pc = "manifested", ![r].item = nextId, ![r].stored = {}]
  /\ UNCHANGED <<storage, listed, targetActive>>

\* ... and the restore point's row follows.
CreateBackup(r) ==
  /\ at[r].pc = "manifested"
  /\ listed' = listed \cup {at[r].item}
  /\ at' = [at EXCEPT ![r].pc = "retention", ![r].item = Nothing]
  /\ UNCHANGED <<storage, manifests, content, nextId, targetActive>>

\* applyRetention decides once, from one listing.  Any policy that keeps anything
\* keeps the newest point (Retention!NewestIsKept); which others it keeps is its
\* business, so every choice is explored.
PlanRetention(r) ==
  /\ at[r].pc = "retention"
  /\ \E prunes \in SUBSET listed :
       /\ listed # {} => Newest(listed) \notin prunes
       /\ at' = [at EXCEPT ![r].pc = "pruning", ![r].plan = prunes]
  /\ UNCHANGED <<storage, catalog, targetActive>>

PruneManifest(r, b) ==
  /\ at[r].pc = "pruning"
  /\ b \in at[r].plan
  /\ manifests' = manifests \ {b}
  /\ at' = [at EXCEPT ![r].pc = "prunerow", ![r].item = b]
  /\ UNCHANGED <<storage, content, listed, nextId, targetActive>>

\* store.DeleteBackup; a row that is already gone is not an error here.
PruneRow(r) ==
  /\ at[r].pc = "prunerow"
  /\ listed' = listed \ {at[r].item}
  /\ at' = [at EXCEPT ![r].pc = "pruning", ![r].item = Nothing, ![r].plan = @ \ {at[r].item}]
  /\ UNCHANGED <<storage, manifests, content, nextId, targetActive>>

\* The job has another source.
NextSource(r) ==
  /\ at[r].pc = "pruning" /\ at[r].plan = {}
  /\ nextId <= MaxBackups
  /\ at' = [at EXCEPT ![r].pc = "storing"]
  /\ UNCHANGED <<storage, catalog, targetActive>>

\* markTargetIdle in the deferred function of a successful attempt: the run that
\* leaves the target idle collects, outside the lock.
FinishRun(r) ==
  /\ at[r].pc = "pruning" /\ at[r].plan = {}
  /\ targetActive' = targetActive - 1
  /\ at' = [at EXCEPT ![r] = [Idle EXCEPT !.pc = IF targetActive' <= 0 THEN "gclist" ELSE "idle"]]
  /\ UNCHANGED <<storage, catalog>>

\* Slip: only a successful attempt marks the target idle.
FailRunStillActive(r) ==
  /\ at[r].pc \in Working
  /\ at' = [at EXCEPT ![r] = Idle]
  /\ UNCHANGED <<storage, catalog, targetActive>>

\* An error or a cancellation anywhere in the attempt: no collection.  (A panic in
\* a cancelled run ends like this too.)
FailRun(r) ==
  /\ at[r].pc \in Working
  /\ targetActive' = targetActive - 1
  /\ at' = [at EXCEPT ![r] = Idle]
  /\ UNCHANGED <<storage, catalog>>

\* A panic anywhere in the attempt leaves runErr as it was, nil: the deferred
\* function collects as after a success, before launch recovers.
PanicRun(r) ==
  /\ at[r].pc \in Working
  /\ targetActive' = targetActive - 1
  /\ at' = [at EXCEPT ![r] = [Idle EXCEPT !.pc = IF targetActive' <= 0 THEN "gclist" ELSE "idle"]]
  /\ UNCHANGED <<storage, catalog>>

-----------------------------------------------------------------------------
(* The operator: sched.DeleteBackup.                                       *)

DeleteManifest(b) ==
  /\ at[Operator].pc = "idle"
  /\ b \in listed
  /\ manifests' = manifests \ {b}
  /\ at' = [at EXCEPT ![Operator] = [Idle EXCEPT !.pc = "oprow", !.item = b]]
  /\ UNCHANGED <<storage, content, listed, nextId, targetActive>>

\* A row that is already gone is an error here, and the request ends.
DeleteRow ==
  /\ at[Operator].pc = "oprow"
  /\ listed' = listed \ {at[Operator].item}
  /\ at' = [at EXCEPT ![Operator] =
              [Idle EXCEPT !.pc = IF at[Operator].item \in listed THEN "opcheck" ELSE "idle"]]
  /\ UNCHANGED <<storage, manifests, content, nextId, targetActive>>

CheckIdle ==
  /\ at[Operator].pc = "opcheck"
  /\ at' = [at EXCEPT ![Operator].pc = IF targetActive = 0 THEN "gclist" ELSE "idle"]
  /\ UNCHANGED <<storage, catalog, targetActive>>

FailDelete ==
  /\ at[Operator].pc \in {"oprow", "opcheck"}
  /\ at' = [at EXCEPT ![Operator] = Idle]
  /\ UNCHANGED <<storage, catalog, targetActive>>

-----------------------------------------------------------------------------
(* engine.GC, run by actor a.                                              *)

\* The manifest walk takes a while.  Manifests that are there throughout are
\* read; ones written or pruned meanwhile may or may not be.
GCList(a) ==
  /\ at[a].pc = "gclist"
  /\ at' = [at EXCEPT ![a].pc = "gcread", ![a].plan = manifests]
  /\ UNCHANGED <<storage, catalog, targetActive>>

\* Slip: manifests are looked up by the rows of the catalog.
GCReadListed(a) ==
  /\ at[a].pc = "gcread"
  /\ at' = [at EXCEPT ![a].pc = "gcindex", ![a].refs = UNION {content[b] : b \in manifests \cap listed}]
  /\ UNCHANGED <<storage, catalog, targetActive>>

GCRead(a) ==
  /\ at[a].pc = "gcread"
  /\ \E maybe \in SUBSET ((at[a].plan \cup manifests) \ (at[a].plan \cap manifests)) :
       at' = [at EXCEPT ![a].pc = "gcindex",
                        ![a].refs = UNION {content[b] : b \in maybe \cup (at[a].plan \cap manifests)}]
  /\ UNCHANGED <<storage, catalog, targetActive>>

GCIndex(a) ==
  /\ at[a].pc = "gcindex"
  /\ at' = [at EXCEPT ![a].pc = "gcwalk", ![a].indexed = row, ![a].left = Chunks]
  /\ UNCHANGED <<storage, catalog, targetActive>>

\* Slip: only the object's own age counts.
YoungByObject(a, c, dated) == GraceOn /\ dated /\ blob[c] = "recent"

\* chunkAge: the index row decides, the object's own age is the fallback, if the
\* target dates its objects.
Young(a, c, dated) ==
  /\ GraceOn
  /\ IF at[a].indexed[c] # "absent" THEN at[a].indexed[c] = "recent" ELSE dated /\ blob[c] = "recent"

\* Slip: the walk does not look for rows that describe no chunk.
GCVisitOnly(a, c) ==
  /\ at[a].pc = "gcwalk"
  /\ c \in at[a].left
  /\ LET doomed == at[a].doomed \cup ({c} \cap {x \in Present \ at[a].refs : ~Young(a, x, TRUE)})
     IN  at' = [at EXCEPT ![a] =
                  IF at[a].left = {c}
                    THEN [Idle EXCEPT !.pc = "gcdelete", !.plan = at[a].plan, !.doomed = doomed]
                    ELSE [at[a] EXCEPT !.left = @ \ {c}, !.doomed = doomed]]
  /\ UNCHANGED <<storage, catalog, targetActive>>

\* The chunk walk comes to where c is, or would be, in the listing: is it doomed,
\* and does an index row describe a chunk that is not there?  After the last one
\* only the two work lists matter (and plan, which SparesKnownManifests is about).
GCVisit(a, c) ==
  /\ at[a].pc = "gcwalk"
  /\ c \in at[a].left
  /\ \E dated \in BOOLEAN :
       LET doomed == at[a].doomed \cup ({c} \cap {x \in Present \ at[a].refs : ~Young(a, x, dated)})
           stale == at[a].stale \cup ({c} \cap {x \in Chunks \ Present : at[a].indexed[x] # "absent"})
       IN  at' = [at EXCEPT ![a] =
                    IF at[a].left = {c}
                      THEN [Idle EXCEPT !.pc = "gcdelete", !.plan = at[a].plan,
                                        !.doomed = doomed, !.stale = stale]
                      ELSE [at[a] EXCEPT !.left = @ \ {c}, !.doomed = doomed, !.stale = stale]]
  /\ UNCHANGED <<storage, catalog, targetActive>>

GCDeleteChunk(a, c) ==
  /\ at[a].pc = "gcdelete"
  /\ c \in at[a].doomed
  /\ blob' = [blob EXCEPT ![c] = "absent"]
  /\ at' = [at EXCEPT ![a].pc = "gcrow", ![a].item = c]
  /\ UNCHANGED <<row, catalog, targetActive>>

GCDeleteRow(a) ==
  LET c == at[a].item IN
    /\ at[a].pc = "gcrow"
    /\ row' = [row EXCEPT ![c] = "absent"]
    /\ at' = [at EXCEPT ![a].pc = "gcdelete", ![a].item = Nothing, ![a].doomed = @ \ {c}]
    /\ UNCHANGED <<blob, catalog, targetActive>>

GCDropStaleRow(a, c) ==
  /\ at[a].pc = "gcdelete"
  /\ at[a].doomed = {}
  /\ c \in at[a].stale
  /\ row' = [row EXCEPT ![c] = "absent"]
  /\ at' = [at EXCEPT ![a].stale = @ \ {c}]
  /\ UNCHANGED <<blob, catalog, targetActive>>

GCEnd(a) ==
  /\ at[a].pc = "gcdelete"
  /\ at[a].doomed = {} /\ at[a].stale = {}
  /\ at' = [at EXCEPT ![a] = Idle]
  /\ UNCHANGED <<storage, catalog, targetActive>>

\* A storage or database error, or a cancelled request, ends the collection.
GCFail(a) ==
  /\ at[a].pc \in IF "interrupts" \in scene THEN Collecting ELSE Collecting \ {"gcrow"}
  /\ at' = [at EXCEPT ![a] = Idle]
  /\ UNCHANGED <<storage, catalog, targetActive>>

-----------------------------------------------------------------------------

\* The server dies and is restarted: only the target and the database survive.
Crash ==
  /\ "interrupts" \in scene \/ \A a \in Actors : at[a].pc # "gcrow"
  /\ targetActive' = 0
  /\ at' = [a \in Actors |-> Idle]
  /\ UNCHANGED <<storage, catalog>>

\* The grace window of a chunk passes: for the blob, and for its row too unless
\* the row was written later.
Age(c) ==
  /\ blob[c] = "recent" \/ row[c] = "recent"
  /\ blob' = [blob EXCEPT ![c] = IF @ = "recent" THEN "aged" ELSE @]
  /\ \E keep \in BOOLEAN :
       /\ keep => blob[c] = "recent"
       /\ row' = [row EXCEPT ![c] = IF @ = "recent" /\ ~keep THEN "aged" ELSE @]
  /\ UNCHANGED <<catalog, targetActive, at>>

RunStep(r) ==
  \/ Begin(r)
  \/ \E c \in Chunks : DedupHit(r, c) \/ DedupMiss(r, c)
  \/ HeadChunk(r)
  \/ PutChunk(r)
  \/ AddChunk(r)
  \/ WriteManifest(r)
  \/ CreateBackup(r)
  \/ PlanRetention(r)
  \/ \E b \in Ids : PruneManifest(r, b)
  \/ PruneRow(r)
  \/ NextSource(r)
  \/ FinishRun(r)
  \/ FailRun(r)
  \/ PanicRun(r)

OperatorStep ==
  \/ \E b \in Ids : DeleteManifest(b)
  \/ DeleteRow
  \/ CheckIdle
  \/ FailDelete

GCStep(a) ==
  \/ GCList(a)
  \/ GCRead(a)
  \/ GCIndex(a)
  \/ \E c \in Chunks : GCVisit(a, c)
  \/ \E c \in Chunks : GCDeleteChunk(a, c) \/ GCDropStaleRow(a, c)
  \/ GCDeleteRow(a)
  \/ GCEnd(a)
  \/ GCFail(a)

Busy(a) == at[a].pc \in Working \cup Collecting

Next ==
  /\ \/ \E r \in Runs : RunStep(r)
     \/ OperatorStep
     \/ \E a \in Actors : GCStep(a)
     \/ Crash
     \/ \E c \in Chunks : Age(c)
  /\ alone' = {a \in Actors : /\ at'[a].pc \in Collecting
                              /\ \A x \in Actors \ {a} : ~Busy(x)'
                              /\ a \in alone \/ at[a].pc \notin Collecting}
  /\ UNCHANGED scene

Spec == Init /\ [][Next]_vars

-----------------------------------------------------------------------------

\* "every restore point remains independently restorable" (README.md:34): every
\* chunk that the manifest of a listed restore point references is on the target.
Restorable ==
  \A b \in listed \cap manifests : content[b] \subseteq Present

\* Restore points stay restorable through any mix of runs, retention, deletions,
\* collections, failures and crashes, as long as no run starts during a collection
\* (the window after markTargetIdle) and none stops between a chunk and its row.
OrderlyRestorable == scene = {} => Restorable

\* Manager.targetActive is the number of runs at work on the target, whatever way
\* attempts end; were it off by one, no collection, or an unsafe one, would run.
ActiveCount == targetActive = Cardinality({r \in Runs : at[r].pc \in Working})

\* "Chunks uploaded by a run that was cancelled or failed are retained"
\* (README.md:242-243): under the same conditions no collection deletes a chunk
\* whose index row is younger than the grace window.
GraceHonoured ==
  [][scene = {} => \A c \in Chunks :
       blob[c] # "absent" /\ blob'[c] = "absent" => ~(GraceOn /\ row[c] = "recent")]_vars

\* What a collection promises whatever overlaps it: it deletes no chunk of a
\* manifest that was on the target when it began and still is.
SparesKnownManifests ==
  [][\A a \in Actors : at[a].pc = "gcdelete" /\ at'[a].pc = "gcrow" =>
       \A b \in at[a].plan \cap manifests : at'[a].item \notin content[b]]_vars

\* A collection that has done all its work, with nothing else at work on the
\* target since it began, leaves an index that claims no missing chunk, however
\* many earlier collections were cut short (engine.GC's reconciliation of the
\* index with the bucket).
RepairsIndex ==
  \A a \in alone :
    at[a].pc = "gcdelete" /\ at[a].doomed = {} /\ at[a].stale = {} => Indexed \subseteq Present
=============================================================================
