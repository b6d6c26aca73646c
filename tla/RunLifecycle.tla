---------------------------- MODULE RunLifecycle ----------------------------
(***************************************************************************)
(* The life of runs in sched.Manager: triggering, the queue, cancellation, *)
(* the recorded outcome, shutdown, crashes and the recovery at start.      *)
(* Every SQL statement and every critical section of Manager.mu is a step  *)
(* of its own.  Slots come from the abstract SlotPool, which Gate          *)
(* implements; what a run does while it works is left open here.           *)
(***************************************************************************)
EXTENDS Naturals, FiniteSets

CONSTANTS Runs,               \* run ids; each is used at most once
          Jobs,               \* job ids: a run about a job is a backup
          Points,             \* restore points: a run about one verifies it
          Nothing,            \* what a restore run, and an unused id, is about
          Settings,           \* concurrency settings an operator may save
          DefaultConcurrency, \* store.DefaultConcurrency
          MaxConcurrency      \* sched.maxConcurrency

ASSUME ConcurrencyAssumption ==
  /\ Settings \subseteq Nat
  /\ DefaultConcurrency \in 1..MaxConcurrency
  /\ MaxConcurrency \in Nat

VARIABLES status,     \* job_runs.status; "none" when there is no row
          about,      \* the job or the restore point of each run
          pc,         \* where the request, and then the goroutine, of each run is
          outcome,    \* the error class that fn returned
          ctxDone,    \* runs whose context is cancelled
          cancels,    \* keys of Manager.cancels
          verifying,  \* keys of Manager.verifying
          limit,      \* the pool's capacity
          owners,     \* the runs holding a slot
          server,     \* what the process is doing
          refused     \* history: runs whose outcome this process could not record

memory == <<ctxDone, cancels, verifying, limit, owners>>
vars == <<status, about, pc, outcome, ctxDone, cancels, verifying, limit, owners, server, refused>>

Pool == INSTANCE SlotPool WITH capacity <- limit

Terminal == {"success", "failed", "canceled"}
Request == {"checked", "created"}
InFlight == {"queued", "working", "closing", "recording", "releasing", "leaving"}

\* SetConcurrency's clamp.
Clamp(n) ==
  IF n = 0 THEN DefaultConcurrency ELSE IF n > MaxConcurrency THEN MaxConcurrency ELSE n

Init ==
  /\ status = [r \in Runs |-> "none"]
  /\ about = [r \in Runs |-> Nothing]
  /\ pc = [r \in Runs |-> "unused"]
  /\ outcome = [r \in Runs |-> "none"]
  /\ ctxDone = {} /\ cancels = {} /\ verifying = {} /\ owners = {}
  /\ limit \in {Clamp(n) : n \in Settings}
  /\ server = "up"
  /\ refused = {}

-----------------------------------------------------------------------------
(* Requests.                                                               *)

HasRunningRun(j) == \E r \in Runs : about[r] = j /\ status[r] = "running"

\* trigger (also behind RetryRun and the cron entries) up to HasRunningRun; a job
\* that is running is refused, which changes nothing.
TriggerCheck(r, j) ==
  /\ pc[r] = "unused"
  /\ server = "up"
  /\ ~HasRunningRun(j)
  /\ about' = [about EXCEPT ![r] = j]
  /\ pc' = [pc EXCEPT ![r] = "checked"]
  /\ UNCHANGED <<status, outcome, memory, server, refused>>

\* TriggerRestore has planned the restore; restores are not limited per point.
TriggerRestore(r) ==
  /\ pc[r] = "unused"
  /\ server = "up"
  /\ pc' = [pc EXCEPT ![r] = "checked"]
  /\ UNCHANGED <<status, about, outcome, memory, server, refused>>

\* Slip: the slot is looked at and reserved later.
VerifyLookOnly(r, p) ==
  /\ pc[r] = "unused"
  /\ server = "up"
  /\ p \notin verifying
  /\ about' = [about EXCEPT ![r] = p]
  /\ pc' = [pc EXCEPT ![r] = "checked"]
  /\ UNCHANGED <<status, outcome, memory, server, refused>>

\* Verify reserves the restore point before the row exists.
VerifyReserve(r, p) ==
  /\ pc[r] = "unused"
  /\ server = "up"
  /\ p \notin verifying
  /\ verifying' = verifying \cup {p}
  /\ about' = [about EXCEPT ![r] = p]
  /\ pc' = [pc EXCEPT ![r] = "checked"]
  /\ UNCHANGED <<status, outcome, ctxDone, cancels, limit, owners, server, refused>>

CreateRun(r) ==
  /\ pc[r] = "checked"
  /\ status' = [status EXCEPT ![r] = "running"]
  /\ pc' = [pc EXCEPT ![r] = "created"]
  /\ UNCHANGED <<about, outcome, memory, server, refused>>

\* The insert fails, or the client went away: nothing was started.
CreateFailed(r) ==
  /\ pc[r] = "checked"
  /\ verifying' = verifying \ {about[r]}
  /\ pc' = [pc EXCEPT ![r] = "gone"]
  /\ UNCHANGED <<status, about, outcome, ctxDone, cancels, limit, owners, server, refused>>

\* launch: the run can be cancelled from here on, and its context is a child of
\* the base context, which Stop has cancelled if it is under way.
Launch(r) ==
  /\ pc[r] = "created"
  /\ cancels' = cancels \cup {r}
  /\ ctxDone' = IF server = "stopping" THEN ctxDone \cup {r} ELSE ctxDone
  /\ pc' = [pc EXCEPT ![r] = "queued"]
  /\ UNCHANGED <<status, about, outcome, verifying, limit, owners, server, refused>>

Cancel(r) ==
  /\ r \in cancels
  /\ ctxDone' = ctxDone \cup {r}
  /\ UNCHANGED <<status, about, pc, outcome, cancels, verifying, limit, owners, server, refused>>

SetConcurrency(n) ==
  /\ server = "up"
  /\ limit' = Clamp(n)
  /\ UNCHANGED <<status, about, pc, outcome, ctxDone, cancels, verifying, owners, server, refused>>

\* DELETE /api/runs/{id}, and each row of POST /api/runs/clear.
DeleteRun(r) ==
  /\ server = "up"
  /\ status[r] \in Terminal
  /\ status' = [status EXCEPT ![r] = "none"]
  /\ UNCHANGED <<about, pc, outcome, memory, server, refused>>

-----------------------------------------------------------------------------
(* The goroutine of a run.                                                 *)

\* gate.Acquire succeeds, possibly although the context is done as well.
Admit(r) ==
  /\ pc[r] = "queued"
  /\ Pool!Enter /\ owners' = owners \cup {r}
  /\ pc' = [pc EXCEPT ![r] = "working"]
  /\ UNCHANGED <<status, about, outcome, ctxDone, cancels, verifying, server, refused>>

\* gate.Acquire fails: the run was cancelled while it queued.
TurnedAway(r) ==
  /\ pc[r] = "queued"
  /\ r \in ctxDone
  /\ outcome' = [outcome EXCEPT ![r] = "canceled"]
  /\ pc' = [pc EXCEPT ![r] = "closing"]
  /\ UNCHANGED <<status, about, memory, server, refused>>

\* fn returns, or panics, which counts as a failure.
WorkEnds(r) ==
  /\ pc[r] = "working"
  /\ \E o \in Terminal :
       /\ o = "canceled" => r \in ctxDone
       /\ outcome' = [outcome EXCEPT ![r] = o]
  /\ pc' = [pc EXCEPT ![r] = "closing"]
  /\ UNCHANGED <<status, about, memory, server, refused>>

\* The deferred calls that a goroutine still has to make when finish returns.
Deferred(r) == IF r \in owners THEN "releasing" ELSE "leaving"

\* finish loads the run ...
RunByID(r) ==
  /\ pc[r] = "closing"
  /\ pc' = [pc EXCEPT ![r] = "recording"]
  /\ UNCHANGED <<status, about, outcome, memory, server, refused>>

\* ... and records its outcome.
FinishRun(r) ==
  /\ pc[r] = "recording"
  /\ status' = [status EXCEPT ![r] = outcome[r]]
  /\ pc' = [pc EXCEPT ![r] = Deferred(r)]
  /\ UNCHANGED <<about, outcome, memory, server, refused>>

\* The database fails one of the two: finish logs it and the row says running.
FinishFails(r) ==
  /\ pc[r] \in {"closing", "recording"}
  /\ refused' = refused \cup {r}
  /\ pc' = [pc EXCEPT ![r] = Deferred(r)]
  /\ UNCHANGED <<status, about, outcome, memory, server>>

\* Slip: a run that did not succeed keeps its slot.
ReleaseSuccess(r) ==
  /\ pc[r] = "releasing"
  /\ owners' = IF outcome[r] = "success" THEN owners \ {r} ELSE owners
  /\ pc' = [pc EXCEPT ![r] = "leaving"]
  /\ UNCHANGED <<status, about, outcome, ctxDone, cancels, verifying, limit, server, refused>>

\* The deferred gate.Release.
ReleaseSlot(r) ==
  /\ pc[r] = "releasing"
  /\ Pool!Leave /\ owners' = owners \ {r}
  /\ pc' = [pc EXCEPT ![r] = "leaving"]
  /\ UNCHANGED <<status, about, outcome, ctxDone, cancels, verifying, server, refused>>

\* The other deferred calls: the entry in cancels, onDone, wg.Done.
Unwind(r) ==
  /\ pc[r] = "leaving"
  /\ cancels' = cancels \ {r}
  /\ verifying' = verifying \ {about[r]}
  /\ pc' = [pc EXCEPT ![r] = "gone"]
  /\ UNCHANGED <<status, about, outcome, ctxDone, limit, owners, server, refused>>

-----------------------------------------------------------------------------
(* The process.                                                            *)

\* Slip: runs in flight are waited for, and not told.
StopPolitely ==
  /\ server = "up"
  /\ server' = "stopping"
  /\ UNCHANGED <<status, about, pc, outcome, memory, refused>>

\* Stop cancels the base context and with it every run.  HTTP requests that
\* outlast the shutdown grace period may still be on their way.
Stop ==
  /\ server = "up"
  /\ server' = "stopping"
  /\ ctxDone' = ctxDone \cup cancels
  /\ UNCHANGED <<status, about, pc, outcome, cancels, verifying, limit, owners, refused>>

\* The process is gone, and its memory with it.
Die ==
  /\ server' = "down"
  /\ pc' = [r \in Runs |-> IF pc[r] = "unused" THEN "unused" ELSE "gone"]
  /\ ctxDone' = {} /\ cancels' = {} /\ verifying' = {} /\ owners' = {} /\ refused' = {}
  /\ UNCHANGED <<status, about, outcome, limit>>

\* wg.Wait in Stop returns.
Exit ==
  /\ server = "stopping"
  /\ \A r \in Runs : pc[r] \notin InFlight
  /\ Die

Crash == server # "down" /\ Die

\* Slip: recovery does not look at the status.
MarkAllRunsFailed ==
  /\ server = "down"
  /\ status' = [r \in Runs |-> IF status[r] # "none" THEN "failed" ELSE "none"]
  /\ server' = "up"
  /\ UNCHANGED <<about, pc, outcome, memory, refused>>

\* Slip: a restart forgets the runs that were in flight.
StartOnly ==
  /\ server = "down"
  /\ server' = "up"
  /\ UNCHANGED <<status, about, pc, outcome, memory, refused>>

\* Start: MarkOrphanRunsFailed, before anything can be triggered.
MarkOrphanRunsFailed ==
  /\ server = "down"
  /\ status' = [r \in Runs |-> IF status[r] = "running" THEN "failed" ELSE status[r]]
  /\ server' = "up"
  /\ UNCHANGED <<about, pc, outcome, memory, refused>>

GoroutineStep(r) ==
  \/ Admit(r)
  \/ TurnedAway(r)
  \/ WorkEnds(r)
  \/ RunByID(r)
  \/ FinishRun(r)
  \/ FinishFails(r)
  \/ ReleaseSlot(r)
  \/ Unwind(r)

RequestStep(r) ==
  \/ \E j \in Jobs : TriggerCheck(r, j)
  \/ \E p \in Points : VerifyReserve(r, p)
  \/ TriggerRestore(r)
  \/ CreateRun(r)
  \/ CreateFailed(r)
  \/ Launch(r)
  \/ Cancel(r)
  \/ DeleteRun(r)

Next ==
  \/ \E r \in Runs : RequestStep(r) \/ GoroutineStep(r)
  \/ \E n \in Settings : SetConcurrency(n)
  \/ Stop
  \/ Exit
  \/ Crash
  \/ MarkOrphanRunsFailed

Spec == Init /\ [][Next]_vars

\* Handlers that are past their first statement go on, a goroutine that is ready
\* runs, work heeds its context, and systemd restarts the server (Restart=always).
\* Nobody is assumed to trigger, cancel, stop or crash, nor is work that is left
\* alone assumed to end.
FairSpec ==
  /\ Spec
  /\ \A r \in Runs :
       /\ WF_vars(CreateRun(r) \/ CreateFailed(r))
       /\ WF_vars(Launch(r))
       /\ WF_vars(GoroutineStep(r) /\ (pc[r] = "working" => r \in ctxDone))
  /\ WF_vars(Exit)
  /\ WF_vars(MarkOrphanRunsFailed)

-----------------------------------------------------------------------------

\* A run that the database calls running is being handled by this process, or
\* this process was refused when it came to record the outcome: no crash, no
\* shutdown, no failed request and no earlier process leaves a run that nothing
\* will ever finish (and a job that is "already running" for good).
NoZombieRuns ==
  server = "up" =>
    \A r \in Runs :
      status[r] = "running" =>
        pc[r] \in {"created", "queued", "working", "closing", "recording"} \/ r \in refused

\* Manager.verifying: at most one verification of a restore point at a time, and
\* the reservation lasts exactly as long as the request or the run behind it.
OneVerifyPerPoint ==
  \A p \in Points :
    LET mine == {r \in Runs : about[r] = p /\ pc[r] \in Request \cup InFlight}
    IN  Cardinality(mine) = IF p \in verifying THEN 1 ELSE 0

\* "ErrAlreadyRunning is returned when a job already has a run in progress"
\* (sched.go:32; "one run per job", handlers_jobs.go:578).
OneRunPerJob ==
  \A r, s \in Runs :
    about[r] \in Jobs /\ about[r] = about[s] /\ status[r] = "running" /\ status[s] = "running"
      => r = s

\* A recorded outcome is history: no late goroutine and no recovery rewrites it;
\* it can only be deleted.
TerminalIsFinal ==
  [][\A r \in Runs : status[r] \in Terminal => status'[r] \in {status[r], "none"}]_vars

\* Work that nobody cancels comes to an end: transfers have stall timeouts.
WorkEnding == \A r \in Runs : []<>(pc[r] # "working")

\* Every run whose work ends gets an outcome, unless the database refuses to take
\* it; then the next start gives it one.  Every restore point that is being
\* verified can be verified again, even if the run's outcome was refused.  All
\* this whatever is cancelled, resized, stopped or crashed meanwhile.
RunEnds ==
  WorkEnding =>
    /\ \A r \in Runs : status[r] = "running" ~> status[r] # "running" \/ r \in refused
    /\ \A r \in Runs : status[r] = "running" /\ server # "up" ~> status[r] # "running"
    /\ \A p \in Points : p \in verifying ~> p \notin verifying

\* Stop returns: a shutdown is not held up by a run that queues or works, even
\* by work that would go on for ever.
StopReturns == server = "stopping" ~> server = "down"
=============================================================================
