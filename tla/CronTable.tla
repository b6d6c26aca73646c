----------------------------- MODULE CronTable ------------------------------
(* How the scheduler's cron entries follow the job table: the handlers that  *)
(* create, change and delete jobs (api/handlers_jobs.go), each of which ends *)
(* with ReloadSchedules (sched/sched.go), and Start, which begins with it.    *)
(* ReloadSchedules reads the table without a lock, empties the entries under *)
(* the lock, and then adds and records them one at a time.                    *)
EXTENDS Naturals, FiniteSets, Sequences, SequencesExt

CONSTANTS
  Jobs,       \* job ids
  Handlers,   \* requests being handled
  Boot,       \* Start, the reload of a new process; not a handler
  Specs,      \* cron expressions that schedules derive
  Invalid,    \* an expression cron refuses, kept from an older release
  NoSpec,     \* a manual schedule derives no expression
  Absent,     \* no such row
  MaxEdits    \* requests in a behaviour

VARIABLES
  rows,      \* the jobs table
  entries,   \* Manager.entries: the entry id of a job, 0 if there is none
  cron,      \* the entries cron runs
  given,     \* the last entry id handed out
  handler,   \* what each handler is doing
  edits,     \* requests so far
  disturbed, \* history: the handlers that were not alone
  met,       \* history: handlers have overlapped since the process started
  sure       \* history: the last to finish completed its reload, alone

vars == <<rows, entries, cron, given, handler, edits, disturbed, met, sure>>

Actors == Handlers \cup {Boot}

Row == [on : BOOLEAN, spec : Specs \cup {NoSpec}]

Idle == [pc |-> "idle", job |-> Absent, row |-> Absent, list |-> <<>>, id |-> 0]

Booting == [Idle EXCEPT !.pc = "list"]

Init ==
  /\ rows \in [Jobs -> {Absent} \cup [on : BOOLEAN, spec : Specs \cup {Invalid}]]
  /\ entries = [j \in Jobs |-> 0]
  /\ cron = {} /\ given = 0
  /\ handler = [a \in Actors |-> IF a = Boot THEN Booting ELSE Idle]
  /\ edits = 0
  /\ disturbed = {} /\ met = FALSE /\ sure = FALSE

Goes(a, to) == handler' = [handler EXCEPT ![a] = to]

Active == {a \in Actors : handler[a].pc # "idle"}

Ends(a, complete) ==
  /\ Goes(a, Idle)
  /\ sure' = (complete /\ a \notin disturbed)
  /\ disturbed' = disturbed \ {a}

Table == <<entries, cron, given>>

-----------------------------------------------------------------------------
(* The handlers up to the reload.  A handler starts once Start has returned. *)

Begin(h, to) ==
  /\ handler[h].pc = "idle" /\ handler[Boot].pc = "idle"
  /\ edits < MaxEdits
  /\ edits' = edits + 1
  /\ Goes(h, to)
  /\ sure' = FALSE
  /\ met' = (met \/ Active # {})
  /\ disturbed' = IF Active = {} THEN disturbed ELSE disturbed \cup Active \cup {h}
  /\ UNCHANGED Table

handleCreateJob(h, j, row) ==
  /\ rows[j] = Absent
  /\ rows' = [rows EXCEPT ![j] = row]
  /\ Begin(h, [Idle EXCEPT !.pc = "list"])

handleDeleteJob(h, j) ==
  /\ rows[j] # Absent
  /\ rows' = [rows EXCEPT ![j] = Absent]
  /\ Begin(h, [Idle EXCEPT !.pc = "list"])

(* PATCH reads the row, changes the fields it was given, and later writes    *)
(* the whole row back, or finds it gone, or fails.                           *)
PatchReads(h, j, row) ==
  /\ rows[j] # Absent
  /\ Begin(h, [Idle EXCEPT !.pc = "update", !.job = j, !.row = row])
  /\ UNCHANGED rows

UpdateJob(h) ==
  LET j == handler[h].job
  IN  /\ handler[h].pc = "update"
      /\ \/ /\ rows[j] # Absent
            /\ rows' = [rows EXCEPT ![j] = handler[h].row]
            /\ Goes(h, [Idle EXCEPT !.pc = "list"])
            /\ UNCHANGED <<disturbed, sure>>
         \/ Ends(h, FALSE) /\ UNCHANGED rows
      /\ UNCHANGED <<Table, edits, met>>

-----------------------------------------------------------------------------
(* ReloadSchedules. *)

ListJobs(a) ==
  /\ handler[a].pc = "list"
  /\ \E list \in SetToSeqs({[job |-> j, row |-> rows[j]] : j \in {i \in Jobs : rows[i] # Absent}}) :
       Goes(a, [Idle EXCEPT !.pc = "clear", !.list = list])
  /\ UNCHANGED <<rows, Table, edits, disturbed, met, sure>>

(* The query fails, and the handler only logs it.  Start returns the error    *)
(* and the process is started again, which leaves everything as it is.       *)
ListFails(h) ==
  /\ handler[h].pc = "list"
  /\ Ends(h, FALSE)
  /\ UNCHANGED <<rows, Table, edits, met>>

\* Slip: the map is emptied and the entries stay with cron.
ClearMapOnly(a) ==
  /\ handler[a].pc = "clear"
  /\ entries' = [j \in Jobs |-> 0]
  /\ Goes(a, [handler[a] EXCEPT !.pc = "add"])
  /\ UNCHANGED <<rows, cron, given, edits, disturbed, met, sure>>

ClearEntries(a) ==
  /\ handler[a].pc = "clear"
  /\ cron' = {e \in cron : \A j \in Jobs : entries[j] # e.id}
  /\ entries' = [j \in Jobs |-> 0]
  /\ Goes(a, [handler[a] EXCEPT !.pc = "add"])
  /\ UNCHANGED <<rows, given, edits, disturbed, met, sure>>

\* Slip: a disabled job is registered.
WantedDisabled(row) == row.spec # NoSpec

Wanted(row) == row.on /\ row.spec # NoSpec

AddFunc(a) ==
  /\ handler[a].pc = "add" /\ handler[a].list # <<>>
  /\ LET item == Head(handler[a].list)
         rest == [handler[a] EXCEPT !.list = Tail(@)]
     IN  IF Wanted(item.row) /\ item.row.spec # Invalid
         THEN /\ given' = given + 1
              /\ cron' = cron \cup {[id |-> given + 1, job |-> item.job, spec |-> item.row.spec]}
              /\ Goes(a, [rest EXCEPT !.pc = "record", !.job = item.job, !.id = given + 1])
         ELSE /\ Goes(a, rest)
              /\ UNCHANGED <<given, cron>>
  /\ UNCHANGED <<rows, entries, edits, disturbed, met, sure>>

RecordEntry(a) ==
  /\ handler[a].pc = "record"
  /\ entries' = [entries EXCEPT ![handler[a].job] = handler[a].id]
  /\ Goes(a, [handler[a] EXCEPT !.pc = "add"])
  /\ UNCHANGED <<rows, cron, given, edits, disturbed, met, sure>>

Reloaded(a) ==
  /\ handler[a].pc = "add" /\ handler[a].list = <<>>
  /\ Ends(a, TRUE)
  /\ UNCHANGED <<rows, Table, edits, met>>

(* The process stops and starts: only the table survives. *)
Restart ==
  /\ entries' = [j \in Jobs |-> 0]
  /\ cron' = {} /\ given' = 0
  /\ handler' = [a \in Actors |-> IF a = Boot THEN Booting ELSE Idle]
  /\ disturbed' = {} /\ met' = FALSE /\ sure' = FALSE
  /\ UNCHANGED <<rows, edits>>

Next ==
  \/ \E h \in Handlers :
       \/ \E j \in Jobs : \/ \E row \in Row : handleCreateJob(h, j, row) \/ PatchReads(h, j, row)
                          \/ handleDeleteJob(h, j)
       \/ UpdateJob(h) \/ ListFails(h)
  \/ \E a \in Actors : ListJobs(a) \/ ClearEntries(a) \/ AddFunc(a) \/ RecordEntry(a) \/ Reloaded(a)
  \/ Restart

Spec == Init /\ [][Next]_vars

-----------------------------------------------------------------------------
(* What the table asks for: an entry for each enabled job with a schedule. *)
Asked == {[job |-> j, spec |-> rows[j].spec] : j \in {i \in Jobs : rows[i] # Absent /\ rows[i].on
                                                                  /\ rows[i].spec \in Specs}}

Running == {[job |-> e.job, spec |-> e.spec] : e \in cron}

Known == {e \in cron : entries[e.job] = e.id}

(* Once a handler that met no other has reloaded, every enabled job has its   *)
(* entry, with the expression of its row, and Manager.entries knows it,       *)
(* whatever earlier handlers did to each other or left undone.                *)
ReloadRepairs ==
  Active = {} /\ sure =>
    /\ {[job |-> e.job, spec |-> e.spec] : e \in Known} = Asked
    /\ \A j \in Jobs : entries[j] # 0 => \E e \in Known : e.job = j

(* If handlers have not overlapped since the process started, no entry is     *)
(* left over from an earlier definition and none is there twice: disabled and *)
(* deleted jobs do not run.                                                  *)
NoLeftoverEntry == Active = {} /\ sure /\ ~met => cron = Known

(* ReloadSchedules "rebuilds the cron entries from the job table": once a     *)
(* handler that met no other has reloaded, cron runs what the table asks for  *)
(* and nothing else, whatever earlier handlers did to each other.             *)
EntriesFollowJobs == Active = {} /\ sure => Running = Asked /\ Cardinality(cron) = Cardinality(Asked)
=============================================================================
