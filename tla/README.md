# ProxBack in TLA+

This directory models the backup server ProxBack: what its scheduler, its
storage engine, its restore-point catalog and its agents do when runs,
deletions, collections, cancellations, failures and crashes meet.  Small
instances are checked with TLC; the central invariants of three components are
proved with TLAPS for every value of the constants.

`PROJECT.json` lists the components, the runs, for each model definition the
source lines it stands for, the hazards of the code and the properties that
watch over them, the theorems, and the disagreements found.

## The system

ProxBack is one Go process with a SQLite database (`internal/store`), an HTTP
API (`internal/api`) and a scheduler (`internal/sched`), plus agents inside
guests (`internal/agent`) and helpers on Proxmox nodes (`internal/helper`).

- A *job* backs up *sources* (guests or one agent) to a *target*.  A cron entry
  or a request triggers a *run*; every run is a goroutine that first takes a
  slot of the concurrency gate (`sched/gate.go`).
- A run may have several *attempts* and a duration limit (`sched/backup.go`,
  `runUnderPolicy`); it keeps a row per source.
- The *engine* cuts a stream into chunks, stores the ones the target lacks, and
  writes a manifest (`engine/pipeline.go`, `engine/engine.go`).  A *restore
  point* is a row in `backups` and a manifest on the target.
- After every source, *retention* deletes points (`store/retention.go`,
  `applyRetention`).  The run that leaves a target idle, and an operator who
  deletes a point, run the *collector* (`engine.GC`), which deletes chunks no
  manifest names.
- An *agent* polls the server (heartbeat), works through the dispatches it is
  given, uploads chunks and reports (`agentmgr`, `agent`).
- *Verification* re-reads a point and records the result with it.

## Modules

| Module | Source | State and actions |
|---|---|---|
| `SlotPool` | (what the gate promises) | A resizable pool of slots: enter, leave, resize. |
| `Gate` | `sched/gate.go` | One action per critical section of the mutex and per arm of the `select` in `Acquire`; the gap between a grant and its noticing is a state. |
| `ChunkStore` | `engine.putChunk`, `WriteManifest`, `engine.GC`, `sched.backupAttempt`, `applyRetention`, `DeleteBackup`, `store/targets.go` | Objects, index rows, manifests and point rows of one target, the active count, and the program counter and locals of each run and of the operator.  Each call to the target and each SQL statement is a step. |
| `RunLifecycle` | `sched.trigger`, `TriggerRestore`, `Verify`, `Cancel`, `launch`, `finish`, `Start`, `Stop`, `store/jobs.go` | Rows of `job_runs`, the goroutine of each run, `Manager.cancels`, `Manager.verifying`, the slots, the process itself. |
| `RunPolicy` | `sched.runUnderPolicy`, `backupVMJob`, `backupAgentJob`, `runsources.go` | One run: attempts, context, the source in hand, the row of each source, what was stored. |
| `Pipeline` | `engine.BackupStream`, `readChunks`, `bufPool`, `storeChunkWithHash` | Reader, workers, free list, `Engine.inflight`, the manifest being assembled, the statistics. |
| `RetentionRules`, `Retention` | `store/retention.go`, `applyRetention` | The rules as they are promised (a set comprehension) and as they are computed (sort and walk), and the loop of backing up, pruning and editing the policy. |
| `AgentDispatch` | `agentmgr.Manager`, `agent.pollOnce` and what it calls | Waits, registered runs, the dispatch queue, the agent's loop, and `/complete` and `/fail` calls, which may be late, lost or left behind by a timeout. |
| `Catalog` | `store/jobs.go` (backups), `backupOneVM`, `parentFor`, `DeleteBackup`, `executeVerify` | Rows, manifests, parents and evidence of one source's points; runs of several jobs, the operator and verifications. |
| `Schedule` | `store/schedule.go`, `BackupWindow.Contains`, `windowCheck`, `NextRun`, `trigger`, `migrateJobSchedules`, posture's age limit | One job followed minute by minute through a calendar: its firings, its runs, the next run on display.  robfig/cron is modelled from its use and marked external. |
| `CronTable` | `ReloadSchedules`, `Start`, `handleCreateJob`, `handlePatchJob`, `handleDeleteJob` | The jobs table, `Manager.entries`, the entries cron runs, and the handlers that edit and reload, with failures and restarts. |
| `UploadLimit` | `engine/ratelimit.go`, `engineForJob`, `applyGlobalUploadLimit`, `executeBackup` | The one limiter of the process, the setting behind it, and tasks with and without a ceiling of their own. |

`Retention` decides in isolation what `ChunkStore` and `Catalog` leave open:
there, any plan that keeps the newest point may be chosen, which is what
`NewestIsKept` (checked) and `NewestPointIsKept` (proved) justify.  In the same
way `RunLifecycle` uses slots as `SlotPool` promises them, and `Gate` is shown to
implement `SlotPool`.  `Pipeline` treats the target as a set of contents;
`ChunkStore` has the index and the object behind it.

Definitions preceded by `Slip:` are not part of any specification.  Each is a
plausible mistake in the definition that follows it, and `PROJECT.json` says
which property notices it.

## What is abstracted

Chunks, runs, jobs, points and agents are model values or small numbers.  Time
is what the code tells apart: a chunk is younger or older than the grace window,
points are numbered in the order of `CreatedAt`, timers may fire at any moment
they are armed; only `Schedule` has a clock, which no change to summer time
disturbs.  Encodings, compression, wording, progress figures and logging
are left out.  Errors of the database, the target and the network are
nondeterministic failures of a step.  A crash keeps the database and the target
and nothing else.

Writes whose failure the code only logs are steps that may be refused, with a
history variable that remembers it: `refused` in `RunLifecycle` (the statements
of `finish`) and in `RunPolicy` (the rows of the sources, `closeOut`, the
outcome), `lapsed` in `UploadLimit`, and `abandoned` in `Catalog` (a deletion that
ended between manifest and row).  The properties say what such a failure may leave
behind and what mends it: a run whose outcome was refused says running, and its
open sources stay open, until the next start (`MarkOrphanRunsFailed`,
`SkipOrphanRunSources`).

A panic is recovered by `launch` and recorded as a failure.  In `ChunkStore` it is
an action of its own (`PanicRun`), because the deferred function of `backupAttempt`
then finds no error and collects.  `RunPolicy` leaves panics out: there a panic
skips the retries, and an agent job's deferred `mon.finish` would close its row as
a success.

## Runs

Passing runs:

- **`gate`** (`MCGate`; three runs, one or two slots).  No slot is lost or handed
  out twice when a grant races a cancellation (`SlotAccounting`), none is free
  while a run queues (`NoIdleSlot`), nobody is overtaken
  (`FirstComeFirstServed`), a queued run is served or withdraws
  (`QueuedRunLeavesQueue`), and the gate implements the pool (`ImplementsPool`).
- **`chunk`** (`MCChunkStore`; two chunks, two runs, the operator, two points).
  The variable `scene` says what a behaviour may contain.  In the orderly scene
  no run starts during a collection and no collection stops between a chunk and
  its row: then every listed point stays restorable (`OrderlyRestorable`) and no
  young chunk is collected (`GraceHonoured`).  In the open scene anything goes;
  still, after failures and panics alike, a collection spares the manifests it could list
  (`SparesKnownManifests`), the active count is right (`ActiveCount`), and a
  collection that completes alone repairs the index (`RepairsIndex`).
- **`run`** (`MCRunLifecycle`; two runs, one job, one point).  A row that says
  running has somebody who will finish it, unless the database refused its outcome
  to this very process (`NoZombieRuns`); a point is verified by one run at a time
  and its reservation lasts as long as that run (`OneVerifyPerPoint`); outcomes are
  final (`TerminalIsFinal`); runs get an outcome, after a refused write at the next
  start, and reservations are given back in every case (`RunEnds`); `Stop` returns
  even if work would go on for ever (`StopReturns`).
- **`policy`** (`MCRunPolicy`; three guests or one agent, three attempts).  When
  the run is over it has an outcome and no source is left open, except through the
  two refused writes of `finish`, and not even then after a restart
  (`RowsSettled`).  Success means every source (`SuccessMeansAllSources`).  A row
  that shows a success has a restore point whichever writes were lost, and an
  agent's row tells the outcome (`RowTellsTheOutcome`).  A cancellation is not
  retried (`CancellationIsNotRetried`), and the run ends (`RunComesToAnEnd`).
- **`pipeline`** (`MCPipeline`; two workers, streams of up to three chunks).
  Buffers are bounded, never lost and never short (`BuffersConserved`), a stream
  reported stored is stored, in order and whole (`WholeStreamStored`; if the
  caller's context is cancelled as the last chunk is handed over, `BackupStream`
  may return a prefix without an error, and the caller fails on that context
  before it writes a manifest), the
  statistics are those of a serial pipeline (`SerialAccounting`), and the call
  returns (`StreamReturns`).
- **`retention`** (`MCRetention`; four points, six instants, five policies).  The
  algorithm computes what its comment promises (`PlanIsAsPromised`), the newest
  point survives (`NewestIsKept`), and pruning run by run equals pruning once,
  also after prunings that were skipped or broke off (`PruningIsIncremental`).
- **`agent`** (`MCAgentDispatch`; two calls, of two runs or of two attempts of
  one).  No update reaches an agent in the middle of a run (`NoUpdateMidRun`),
  registered runs are awaited (`ActiveRunsAreAwaited`), and a wait for a run that
  is no longer registered has its result on the way, once, so that no handler
  blocks on a full channel (`ResultOnTheWay`).  A wait that is cancelled, times
  out or stalls decides first and unregisters the run afterwards (`Quit`); a report
  may come in between.
- **`catalog`** (`MCCatalog`; two jobs of one source, the operator, a
  verification, two points of two chunks).  A listed point has its manifest,
  unless its own deletion is, or ended, between the manifest and the row
  (`ListedMeansStored`, see below), parents are older than children
  (`ParentIsOlder`), and a verification, the first of a point or a later one, never
  records as passed a point with a chunk that was bad from its beginning to its
  end (`PassedWasWhole`); chunks go bad and are stored again at any time.
- **`timing`** (`MCTiming`, which puts `Schedule`, `CronTable` and `UploadLimit`
  side by side; the variable `part` says which one a behaviour is about).  A job
  starts in exactly the minutes its label and window describe
  (`StartsAsLabelled`), the next run on display stays until its minute and is
  then kept (`NextRunIsKept`), a converted expression fires when the original did
  (`LegacyKeepsTiming`, except for month ends, see below), and a punctual job is
  not shown at risk (`PunctualIsNotAtRisk`, except for days 29 and 30).  A reload
  that meets no other gives every enabled job its entry whatever happened before
  (`LoneReloadRepairs`), and as long as handlers do not overlap no entry is left
  over (`NoEntryIsLeftOver`).  A run's own upload ceiling does not outlive the
  runs it overlaps (`ServerCeilingIsBack`).

Runs that show a disagreement between the code and what the repository says:

- **`chunk_overlap`**: `markTargetIdle` finds the target idle and the collection
  runs after the lock is released, while a new run may start.  The run finds an
  old, unreferenced chunk in the index, uploads nothing, and the collection
  deletes the chunk.  README: "every restore point remains independently
  restorable".
- **`run_race`**: two triggers of one job that overlap both find no running run
  and both start one ("one run per job").
- **`cron_race`**: two job edits reload together and both add an entry for one
  job; `Manager.entries` remembers one, and the other stays in cron through every
  later reload, although a reload "rebuilds the cron entries from the job table".
  `trigger` does not look at `Enabled`, so a job disabled later still runs.

Disagreements met while modelling for which no run is kept:

- A deletion that fails, or dies with the server, between `DeleteManifest` and
  `DeleteBackup` leaves a point that is listed and cannot be restored, until it is
  deleted again (`sched/backup.go:779` and `:785`, `:811` and `:817`); README.md
  says that every restore point remains restorable.
- A point whose parent was deleted between the look-up and the insert names a
  parent that is gone (`sched/backup.go:438`, comment at `store/jobs.go:587`).
- A run that fails between manifest and row leaves a manifest, and with it its
  chunks, for good (`sched/backup.go:470`).
- A verification that cannot reach the target is recorded as a failed one
  (`sched/restore.go:83`).
- Retention goes on with a plan although an operator has deleted the points the
  plan keeps, and may delete the last one (`sched/backup.go:774`).
- A guest stored just before its run is cancelled is shown as skipped
  (`sched/backup.go:385`).
- A collection that ends between deleting a chunk and deleting its index row
  leaves a row the next run deduplicates against (`engine.go:589`), until a
  collection completes; `engine.go:598` knows of such rows.
- Retention lists the points of the source on the target, whichever job made them
  (`sched/backup.go:744`), while the documentation says "Retention is per job".
- An older release's expression for day 31, or for days 28-31, becomes the last
  day of the month (`store/schedule.go:404`), while `schedule.go:400` says "no
  job's timing ever changes across the upgrade".
- A monthly job on day 29 or 30 that never misses is shown at risk in March: 30
  days and a quarter do not cover the gap that February leaves
  (`store/schedule.go:340`).
- An upload ceiling does not last "as long as the run that set it"
  (`sched.go:868`): any other run, restore or verification that builds an engine,
  and any other override run that ends, replaces it.
- "the global limit is always restored" (`sched.go:872`), but a Settings read that
  fails is only logged (`sched.go:904`): the override stays in force until another
  task builds an engine.  `ServerCeilingIsBack` excepts this (`lapsed`).
- Two PATCH requests for one job that overlap write whole rows, so one loses its
  change (`handlers_jobs.go:251`).
- A heartbeat whose response is lost has emptied the queue; the retried one does
  not get the dispatch again (`agentmgr.go:297`, comment at line 140).

## Bounds, and why they are enough

Two actors of each kind show every pairwise race; the gate has three runs so
that one can hold, one can be granted and one can queue.  Two restore points
are what retention needs to delete one and keep one.  Two chunks let a point
share one with an older point and add another.  In the open scene of
`ChunkStore` the constraint `MCBound` leaves two actors at work and one chunk in
play, which is what a run and a collection need to meet.  Two workers hold equal
chunks together while a third buffer is being filled.  The calendar of
`MCRetention` has two instants to a day, and weeks and months of two days each,
the weeks shifted by a day so that one crosses from a month to the next.  In
`MCCatalog` one of the two points is `Fragile`, that is, has chunks that may go bad,
and one verification at a time is enough because `verifying` admits no more for a
point; it may be repeated without end.  The calendar of
`MCTiming` has months of 31, 28 and 30 days of four hours of two minutes, all of
which pass (720 minutes), so that every kind of month end is met; runs take up to
one minute.  Two jobs, two handlers and three edits suffice for one reload to
meet another and a third to follow; three tasks are two ceilings and a run
without one.  Symmetry is used only where no liveness is checked.

## Fairness

- `Gate`: a granted or cancelled waiter is runnable, and a run that holds a slot
  releases it (a deferred call).  Nothing is assumed of new runs, cancellations
  or the operator.
- `RunLifecycle`: goroutines that can run do, work heeds its context, handlers
  past their first statement go on, and the service manager restarts the server
  (`deploy/`, `Restart=always`).  `RunEnds` has an explicit premise that work
  which nobody cancels ends (stall timeouts); `StopReturns` does without it.
- `RunPolicy`: steps of a source end and timers fire.
- `Pipeline`: goroutines run, the source delivers and the target answers, well
  or badly.

The other modules are checked for safety alone.

## Proofs

- **`GateProofs`**, for any finite set of runs and any limits.  `SlotAccounting`
  is not inductive: a grant is charged to the run the queue names, so the
  invariant `GateInv` also says that the queue holds every queued, ungranted run
  exactly once.  From it follow `SlotsAreAccountedFor`, `NoSlotIdles`,
  `LimitIsHonoured`, `RunsAreServedInOrder`, and the refinement
  `GateImplementsPool`.  Assumptions: the set of runs is finite, limits are
  natural numbers.
- **`RetentionProofs`**, for any calendar, policy and finite set of points: the
  newest point is kept (`NewestPointIsKept`), deleting points never makes the
  rules give up another (`FewerPointsKeepMore`), and with these, incremental
  pruning equals pruning at once (`PruningIsIncrementalForAll`).  The theorems
  are about the declarative rules; that the sort and walk computes them is
  `PlanIsAsPromised`, checked by TLC alone, for it needs induction over data.
- **`CatalogProofs`**, for any jobs, verifications and number of points:
  `ListedPointsAreStored` and `ChainsGoBack`.  A row is safe when it appears only
  because nobody can have touched the point before, so `CatalogInv` says that a
  point in the making is not listed, is being deleted or planned for deletion by
  nobody and belongs to one run, that whatever is listed, planned or being deleted
  was numbered before, and that what is being listed was written.

Model-checked only: everything about `ChunkStore`, `RunLifecycle`, `RunPolicy`,
`Pipeline`, `AgentDispatch`, `Schedule`, `CronTable` and `UploadLimit`, all
liveness, and what recursive or folded
computations return.

## What is not modelled, and what comes next

Not modelled because it is I/O, encoding or display: the Proxmox and S3 clients,
archive streams, installation, notifications, audit and metrics, the HTTP layer
around the operations, and the web interface.

Planned, in this order:

1. *Restores and browsing*: restore plans, free VM ids, reads that race
   deletions and collections, the cache of archive indexes.
2. *Fleet*: staged binaries and their sidecars, helper work and self-update,
   enrollment tokens, users and the last administrator, the filesystem store.
3. *Policies*: source globs (`MatchGlob`), tag filters and disk exclusions.
4. *Proofs*: `NoZombieRuns`, `TerminalIsFinal` and `OneVerifyPerPoint` for any
   number of runs; `OrderlyRestorable`; `BuffersConserved`;
   `ActiveRunsAreAwaited` and `ResultOnTheWay`.
