----------------------------- MODULE RunPolicy ------------------------------
(***************************************************************************)
(* One backup run under its protection policy: the attempts of             *)
(* sched.runUnderPolicy with their retries, waits and duration limit, the  *)
(* walk over the sources (backupVMJob, or backupAgentJob when there is one *)
(* source), the per-source rows that runMonitor keeps, and the outcome     *)
(* that finish records.  A crash and the recovery at start end the run too.*)
(***************************************************************************)
EXTENDS Naturals, FiniteSets

CONSTANTS NumGuests,   \* guests of a vm job
          RetryCount,  \* policy.retryCount
          HasLimit     \* is policy.maxDurationMinutes set?

ASSUME PolicyAssumption ==
  /\ NumGuests \in Nat \ {0}
  /\ RetryCount \in Nat
  /\ HasLimit \in BOOLEAN

VARIABLES kind,       \* the job's kind: an agent job has one source, whose row is closed on a
                      \* detached context
          pc,         \* where the run is
          attempt,    \* the number of the attempt
          ctx,        \* runCtx: live, canceled by the operator, or expired
          source,     \* the source in hand; runMonitor.seq is source or none
          err,        \* what the source, the attempt, the run returned
          rows,       \* run_sources.status
          completed,  \* sources this attempt finished without an error
          points,     \* sources with a restore point of this run
          status,     \* job_runs.status
          refused     \* history: what the database would not take: a write of the "rows",
                      \* the "closeOut" of the rows, the "outcome"

vars == <<kind, pc, attempt, ctx, source, err, rows, completed, points, status, refused>>

NumSources == IF kind = "agent" THEN 1 ELSE NumGuests
Sources == 1..NumSources
Attempts == RetryCount + 1
Open == {"pending", "running"}

Init ==
  /\ kind \in {"vm", "agent"}
  /\ pc = "attempt"
  /\ attempt = 1
  /\ ctx = "live"
  /\ source = 0
  /\ err = "none"
  /\ rows = [i \in Sources |-> "none"]
  /\ completed = {}
  /\ points = {}
  /\ status = "running"
  /\ refused = {}

\* What a call that takes the context may fail with: its own failure, or the
\* context's error once it is done.
Failures == {"other"} \cup (IF ctx = "live" THEN {} ELSE {ctx})

\* sourceOutcome.
sourceOutcome(e) ==
  CASE e = "none" -> "success" [] e = "canceled" -> "skipped" [] OTHER -> "failed"

-----------------------------------------------------------------------------
(* One attempt.                                                            *)

\* Planning fails: the target, the settings, the guests or the agent cannot be
\* had, or the context is done.
PlanFails ==
  /\ pc = "attempt"
  /\ err' \in Failures
  /\ pc' = "failed"
  /\ completed' = {}
  /\ UNCHANGED <<attempt, ctx, source, rows, points, status, refused>>

\* A write of the rows that leaves them as `written` says, or that the database
\* refuses, which is only logged.
WriteRows(written) ==
  \/ rows' = written /\ UNCHANGED refused
  \/ UNCHANGED rows /\ refused' = refused \cup {"rows"}

\* Every source is recorded, pending, replacing the rows of an earlier attempt.
\* ReplaceRunSources deletes and then inserts one row at a time, so a failure
\* leaves the old rows or the first of the new ones; on a dead context nothing is
\* written.
PlanSources ==
  /\ pc = "attempt"
  /\ \/ ctx # "live" /\ UNCHANGED <<rows, refused>>
     \/ ctx = "live" /\ WriteRows([i \in Sources |-> "pending"])
     \/ /\ ctx = "live"
        /\ \E k \in 0..(NumSources - 1) :
             rows' = [i \in Sources |-> IF i <= k THEN "pending" ELSE "none"]
        /\ refused' = refused \cup {"rows"}
  /\ source' = 1
  /\ completed' = {}
  /\ pc' = "next"
  /\ UNCHANGED <<attempt, ctx, err, points, status>>

\* The rows when the one in hand, if it was ever written, gets a new status.
Marked(new) == [rows EXCEPT ![source] = IF @ = "none" THEN @ ELSE new]

\* mon.begin marks the source.  Before it the walk over guests looks at the
\* context and leaves; an agent's source fails on it and is closed.
BeginSource ==
  /\ pc = "next"
  /\ \/ /\ ctx = "live"
        /\ WriteRows(Marked("running"))
        /\ pc' = "source"
        /\ UNCHANGED err
     \/ /\ ctx # "live"
        /\ err' = ctx
        /\ pc' = IF kind = "agent" THEN "close" ELSE "failed"
        /\ UNCHANGED <<rows, refused>>
  /\ UNCHANGED <<attempt, ctx, source, completed, points, status>>

\* Pre-script, export and manifest went well: the restore point is recorded.
CreateBackup ==
  /\ pc = "source"
  /\ ctx = "live"
  /\ points' = points \cup {source}
  /\ pc' = "stored"
  /\ UNCHANGED <<attempt, ctx, source, err, rows, completed, status, refused>>

\* A step of the source fails, before its restore point exists or after it: the
\* post-script and retention come last, and the point is kept.
SourceFails ==
  /\ pc \in {"source", "stored"}
  /\ err' \in Failures
  /\ pc' = "close"
  /\ UNCHANGED <<attempt, ctx, source, rows, completed, points, status, refused>>

SourceSucceeds ==
  /\ pc = "stored"
  /\ completed' = completed \cup {source}
  /\ pc' = "close"
  /\ UNCHANGED <<attempt, ctx, source, err, rows, points, status, refused>>

\* Slip: the run goes on to the next source whatever happened to this one.
FinishSourceGoingOn ==
  /\ pc = "close"
  /\ \/ ctx # "live" /\ kind = "vm" /\ UNCHANGED <<rows, refused>>
     \/ (ctx = "live" \/ kind = "agent") /\ WriteRows(Marked(sourceOutcome(err)))
  /\ err' = "none"
  /\ pc' = IF source < NumSources THEN "next" ELSE "succeeded"
  /\ source' = IF source < NumSources THEN source + 1 ELSE 0
  /\ UNCHANGED <<attempt, ctx, completed, points, status>>

\* Slip: every row is closed on the run's own context.
FinishSourceOnRunContext ==
  /\ pc = "close"
  /\ \/ ctx # "live" /\ UNCHANGED <<rows, refused>>
     \/ ctx = "live" /\ WriteRows(Marked(sourceOutcome(err)))
  /\ pc' = IF err # "none" THEN "failed" ELSE IF source < NumSources THEN "next" ELSE "succeeded"
  /\ source' = IF err = "none" /\ source < NumSources THEN source + 1 ELSE 0
  /\ UNCHANGED <<attempt, ctx, err, completed, points, status>>

\* mon.finish writes the row with the run's context, except in an agent job.
FinishSource ==
  /\ pc = "close"
  /\ \/ ctx # "live" /\ kind = "vm" /\ UNCHANGED <<rows, refused>>
     \/ (ctx = "live" \/ kind = "agent") /\ WriteRows(Marked(sourceOutcome(err)))
  /\ pc' = IF err # "none" THEN "failed" ELSE IF source < NumSources THEN "next" ELSE "succeeded"
  /\ source' = IF err = "none" /\ source < NumSources THEN source + 1 ELSE 0
  /\ UNCHANGED <<attempt, ctx, err, completed, points, status>>

-----------------------------------------------------------------------------
(* The policy around the attempts.                                         *)

\* Slip: only the attempt's own error tells a cancellation.
DecideByError ==
  /\ pc = "failed"
  /\ pc' = IF err = "canceled" \/ attempt = Attempts THEN "ending" ELSE "waiting"
  /\ UNCHANGED <<attempt, ctx, source, err, rows, completed, points, status, refused>>

\* After a failed attempt: is there another one?
Decide ==
  /\ pc = "failed"
  /\ pc' = IF ctx # "live" \/ err = "canceled" \/ attempt = Attempts THEN "ending" ELSE "waiting"
  /\ UNCHANGED <<attempt, ctx, source, err, rows, completed, points, status, refused>>

\* Slip: the attempt is repeated under the same number.
RetryUncounted ==
  /\ pc = "waiting"
  /\ err' = "none"
  /\ pc' = "attempt"
  /\ UNCHANGED <<attempt, ctx, source, rows, completed, points, status, refused>>

\* retryWait: the timer fires ...
Retry ==
  /\ pc = "waiting"
  /\ attempt' = attempt + 1
  /\ err' = "none"
  /\ pc' = "attempt"
  /\ UNCHANGED <<ctx, source, rows, completed, points, status, refused>>

\* ... or the context is done, and the failure before the wait is reported.
WaitCut ==
  /\ pc = "waiting"
  /\ ctx # "live"
  /\ pc' = "ending"
  /\ UNCHANGED <<attempt, ctx, source, err, rows, completed, points, status, refused>>

\* runUnderPolicy returns: a run that met its duration limit says so.
PolicyEnds ==
  /\ \/ pc = "succeeded" /\ UNCHANGED err
     \/ pc = "ending" /\ err' = IF ctx = "expired" THEN "maxDuration" ELSE err
  /\ pc' = "closeOut"
  /\ UNCHANGED <<attempt, ctx, source, rows, completed, points, status, refused>>

\* The rows when those in one of these states are skipped.
Skipped(states) == [i \in Sources |-> IF rows[i] \in states THEN "skipped" ELSE rows[i]]

\* Slip: only sources that never began are closed out.
CloseOutPending ==
  /\ pc = "closeOut"
  /\ \/ rows' = Skipped({"pending"}) /\ UNCHANGED refused
     \/ UNCHANGED rows /\ refused' = refused \cup {"closeOut"}
  /\ pc' = "record"
  /\ UNCHANGED <<attempt, ctx, source, err, completed, points, status>>

\* finish: closeOut on a detached context, its failure only logged; ...
CloseOut ==
  /\ pc = "closeOut"
  /\ \/ rows' = Skipped(Open) /\ UNCHANGED refused
     \/ UNCHANGED rows /\ refused' = refused \cup {"closeOut"}
  /\ pc' = "record"
  /\ UNCHANGED <<attempt, ctx, source, err, completed, points, status>>

\* ... then the outcome, ...
FinishRun ==
  /\ pc = "record"
  /\ status' = CASE err = "none" -> "success" [] err = "canceled" -> "canceled" [] OTHER -> "failed"
  /\ pc' = "done"
  /\ UNCHANGED <<attempt, ctx, source, err, rows, completed, points, refused>>

\* ... unless the run cannot be loaded or the outcome cannot be written: that is
\* logged, and the run's goroutine ends all the same.
FinishFails ==
  /\ pc = "record"
  /\ refused' = refused \cup {"outcome"}
  /\ pc' = "done"
  /\ UNCHANGED <<attempt, ctx, source, err, rows, completed, points, status>>

-----------------------------------------------------------------------------
(* The world around the run.                                               *)

Underway == pc \notin {"done", "crashed", "marked"}

Cancel ==
  /\ Underway /\ ctx = "live"
  /\ ctx' = "canceled"
  /\ UNCHANGED <<pc, attempt, source, err, rows, completed, points, status, refused>>

Expire ==
  /\ HasLimit
  /\ Underway /\ ctx = "live"
  /\ ctx' = "expired"
  /\ UNCHANGED <<pc, attempt, source, err, rows, completed, points, status, refused>>

\* The server dies, during the run or after it, and comes back.
Crash ==
  /\ pc # "crashed"
  /\ pc' = "crashed"
  /\ UNCHANGED <<attempt, ctx, source, err, rows, completed, points, status, refused>>

\* Start: the runs first, their rows second.
MarkOrphanRunsFailed ==
  /\ pc = "crashed"
  /\ status' = IF status = "running" THEN "failed" ELSE status
  /\ pc' = "marked"
  /\ UNCHANGED <<attempt, ctx, source, err, rows, completed, points, refused>>

SkipOrphanRunSources ==
  /\ pc = "marked"
  /\ rows' = Skipped(Open)
  /\ refused' = refused \ {"closeOut", "outcome"}
  /\ pc' = "done"
  /\ UNCHANGED <<attempt, ctx, source, err, completed, points, status>>

RunStep ==
  \/ PlanFails
  \/ PlanSources
  \/ BeginSource
  \/ CreateBackup
  \/ SourceFails
  \/ SourceSucceeds
  \/ FinishSource
  \/ Decide
  \/ Retry
  \/ WaitCut
  \/ PolicyEnds
  \/ CloseOut
  \/ FinishRun
  \/ FinishFails
  \/ MarkOrphanRunsFailed
  \/ SkipOrphanRunSources

Next == (RunStep \/ Cancel \/ Expire \/ Crash) /\ UNCHANGED kind

Spec == Init /\ [][Next]_vars

\* The steps of a source end, timers fire and the server comes back after a
\* crash; cancellations, expiry and crashes may or may not happen.
FairSpec == Spec /\ WF_vars(RunStep /\ UNCHANGED kind)

-----------------------------------------------------------------------------

\* "nothing may still look like it is backing up" (sched.go:120): when a run is
\* over, by whatever path, it has an outcome and none of its sources is left
\* pending or running.  The only exceptions are the two writes of finish that the
\* database refused, and a restart of the server mends both.
RowsSettled ==
  pc = "done" =>
    /\ status = "running" => "outcome" \in refused
    /\ (\E i \in Sources : rows[i] \in Open) => "closeOut" \in refused

\* A run is a success only if its last attempt completed every source, each with
\* a restore point of this run.
SuccessMeansAllSources ==
  status = "success" => completed = Sources /\ points = Sources

\* When finish records the outcome, a row that shows a success has a restore point
\* of this run, whichever writes of the rows were lost.  The row of an agent run
\* shows a success only if the last attempt completed it, and does so if no write
\* was refused: it is closed on a context that a cancellation does not reach.
RowTellsTheOutcome ==
  pc = "record" =>
    \A i \in Sources :
      /\ rows[i] = "success" => i \in points
      /\ kind = "agent" /\ rows[i] = "success" => i \in completed
      /\ kind = "agent" /\ i \in completed /\ "rows" \notin refused => rows[i] = "success"

\* "A cancellation is never retried" (backup.go:62): once the context is done,
\* in an attempt and not between two, there is no further attempt.
CancellationIsNotRetried ==
  \A n \in 1..Attempts :
    [](ctx # "live" /\ attempt = n /\ pc # "waiting" => [](attempt = n))

\* The run comes to an end within its attempts, whatever fails and whichever write
\* is refused, unless the server keeps crashing.
RunComesToAnEnd == <>[][pc' # "crashed"]_vars => <>[](pc = "done")
=============================================================================
