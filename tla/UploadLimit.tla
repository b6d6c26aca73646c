----------------------------- MODULE UploadLimit ----------------------------
(* The upload ceiling: one process-wide limiter (engine/ratelimit.go) that    *)
(* engineForJob sets from the settings or from the job's policy and that a    *)
(* run with a ceiling of its own puts back when it ends (sched/sched.go,      *)
(* executeBackup), while the operator changes the settings.                   *)
EXTENDS Integers, FiniteSets

CONSTANTS
  Tasks,       \* backups, restores, verifications, deletions, browsing
  Limits,      \* ceilings an operator sets for the server
  Overrides    \* ceilings of job policies; 0 inherits

VARIABLES
  limit,    \* settings.uploadLimitMbps
  limiter,  \* the ceiling in force, 0 for none
  task,     \* what each task is doing
  past,     \* history: the ceilings the server has had since it started
  lapsed    \* history: a ceiling could not be put back

vars == <<limit, limiter, task, past, lapsed>>

Rest == [pc |-> "idle", own |-> 0, read |-> 0]

(* The limiter waits for the first task. *)
Init ==
  /\ limit \in Limits
  /\ limiter = 0
  /\ task = [t \in Tasks |-> Rest]
  /\ past = {0, limit} /\ lapsed = FALSE

-----------------------------------------------------------------------------
TaskGoes(t, to) == task' = [task EXCEPT ![t] = to]

Settings == <<limit, past>>

StartTask(t, own) ==
  /\ task[t].pc = "idle"
  /\ TaskGoes(t, [Rest EXCEPT !.pc = "build", !.own = own])
  /\ UNCHANGED <<limiter, lapsed, Settings>>

(* engineForJob reads the settings, opens the target, then sets the limiter. *)
ReadSettings(t) ==
  /\ task[t].pc = "build"
  /\ TaskGoes(t, [task[t] EXCEPT !.pc = "set", !.read = limit])
  /\ UNCHANGED <<limiter, lapsed, Settings>>

SetUploadLimit(t) ==
  /\ task[t].pc = "set"
  /\ limiter' = IF task[t].own > 0 THEN task[t].own ELSE task[t].read
  /\ TaskGoes(t, [task[t] EXCEPT !.pc = "work"])
  /\ UNCHANGED <<lapsed, Settings>>

(* Another attempt builds the engine again. *)
Retry(t) ==
  /\ task[t].pc = "work"
  /\ TaskGoes(t, [task[t] EXCEPT !.pc = "build"])
  /\ UNCHANGED <<limiter, lapsed, Settings>>

\* Slip: a run that ends while it builds an engine leaves the ceiling.
FinishCleanly(t) ==
  /\ task[t].pc \in {"build", "set", "work"}
  /\ TaskGoes(t, IF task[t].own > 0 /\ task[t].pc = "work"
                 THEN [task[t] EXCEPT !.pc = "restore"] ELSE Rest)
  /\ UNCHANGED <<limiter, lapsed, Settings>>

(* The task ends, in whatever way and wherever it is; executeBackup has       *)
(* deferred applyGlobalUploadLimit if the job has a ceiling of its own.       *)
Finish(t) ==
  /\ task[t].pc \in {"build", "set", "work"}
  /\ TaskGoes(t, IF task[t].own > 0 THEN [task[t] EXCEPT !.pc = "restore"] ELSE Rest)
  /\ UNCHANGED <<limiter, lapsed, Settings>>

RestoreReads(t) ==
  /\ task[t].pc = "restore"
  /\ \/ TaskGoes(t, [task[t] EXCEPT !.pc = "reset", !.read = limit]) /\ UNCHANGED lapsed
     \/ TaskGoes(t, Rest) /\ lapsed' = TRUE
  /\ UNCHANGED <<limiter, Settings>>

applyGlobalUploadLimit(t) ==
  /\ task[t].pc = "reset"
  /\ limiter' = task[t].read
  /\ TaskGoes(t, Rest)
  /\ UNCHANGED <<lapsed, Settings>>

(* handlePutSettings saves a ceiling; the limiter learns of it from the next *)
(* task.                                                                     *)
SaveSettings(l) ==
  /\ limit' = l
  /\ past' = past \cup {l}
  /\ UNCHANGED <<limiter, task, lapsed>>

Next ==
  \/ \E t \in Tasks :
       \/ \E own \in Overrides \cup {0} : StartTask(t, own)
       \/ ReadSettings(t) \/ SetUploadLimit(t) \/ Retry(t) \/ Finish(t)
       \/ RestoreReads(t) \/ applyGlobalUploadLimit(t)
  \/ \E l \in Limits : SaveSettings(l)

Spec == Init /\ [][Next]_vars

-----------------------------------------------------------------------------
(* When no task is under way, the ceiling in force is one the operator set    *)
(* for the server: a run's own ceiling does not outlive it, whatever order    *)
(* runs start, retry and end in, unless putting it back failed.               *)
CeilingIsBack == ~lapsed /\ (\A t \in Tasks : task[t].pc = "idle") => limiter \in past

=============================================================================
