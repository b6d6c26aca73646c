------------------------------ MODULE Schedule ------------------------------
(* When a job runs by itself: the structured schedule and the cron           *)
(* expression derived from it (store/schedule.go), the backup window          *)
(* (store/policy.go), the next run that is displayed (sched.NextRun), and the *)
(* age a restore point may reach before its workload is shown at risk         *)
(* (api/posture.go).  One enabled job is followed minute by minute through a  *)
(* calendar whose hours and days are scaled down; a day keeps its place in    *)
(* the week and in the month.  Clock changes are left out.                    *)
EXTENDS Integers, Sequences, FiniteSetsExt

CONSTANTS
  MinutesPerHour, HoursPerDay,
  MonthDays,      \* the lengths of consecutive months; the calendar repeats
  Inputs,         \* jobs: [raw, schedule, window], see Job
  Horizon,        \* the last minute of the walk
  Reach,          \* how far ahead cron looks for a firing
  MaxRunTime,     \* the longest run, in minutes
  Nothing

VARIABLES
  job,      \* the job as it is stored
  now,      \* the minute it is
  run,      \* the minute the run in progress succeeds, or Nothing
  success,  \* the minute of the newest success, or Nothing
  shown,    \* the next run as displayed since the last minute, or Nothing
  outcome   \* what the last minute brought

vars == <<job, now, run, success, shown, outcome>>

-----------------------------------------------------------------------------
(* The calendar. *)

Day == MinutesPerHour * HoursPerDay

Starts == [m \in 1..Len(MonthDays) + 1 |-> FoldSet(LAMBDA i, n : MonthDays[i] + n, 0, 1..m - 1)]

Dates ==
  [d \in 0..Starts[Len(MonthDays) + 1] - 1 |->
     LET m == Max({i \in 1..Len(MonthDays) : Starts[i] <= d})
     IN  [month |-> m, day |-> d - Starts[m] + 1]]

DayNo(t) == t \div Day

Clock(t) == t % Day

Date(t) == Dates[DayNo(t) % Starts[Len(MonthDays) + 1]]

daysInMonth(t) == MonthDays[Date(t).month]

Weekday(t) == DayNo(t) % 7

-----------------------------------------------------------------------------
(* Cron expressions: each field has a form, because the presets recognise an *)
(* expression by how it is written, and the values it stands for.            *)

Star == [form |-> "any", vals |-> {}]

One(n) == [form |-> "int", vals |-> {n}]

List(s) == [form |-> IF Cardinality(s) = 1 THEN "int" ELSE "list", vals |-> s]

Range28 == [form |-> "range", vals |-> 28..31]

Expr(minute, hour, dom, month, dow) ==
  [minute |-> minute, hour |-> hour, dom |-> dom, month |-> month, dow |-> dow]

Covers(field, n) == field.form = "any" \/ n \in field.vals

(* robfig/cron: a day is matched by both day fields if one of them is a star *)
(* and by either of them otherwise.                                          *)
DayMatches(e, t) ==
  LET dom == Covers(e.dom, Date(t).day)
      dow == Covers(e.dow, Weekday(t))
  IN  IF "any" \in {e.dom.form, e.dow.form} THEN dom /\ dow ELSE dom \/ dow

Matches(e, t) ==
  /\ e # Nothing
  /\ Covers(e.minute, t % MinutesPerHour)
  /\ Covers(e.hour, Clock(t) \div MinutesPerHour)
  /\ Covers(e.month, Date(t).month)
  /\ DayMatches(e, t)

(* The first firing after t, if there is one within reach. *)
Following(e, t) ==
  IF \A u \in t + 1..t + Reach : ~Matches(e, u) THEN Nothing
  ELSE CHOOSE u \in t + 1..t + Reach : Matches(e, u) /\ \A v \in t + 1..u - 1 : ~Matches(e, v)

-----------------------------------------------------------------------------
(* The structured schedule.  Fields that do not belong to the kind are 0 or  *)
(* empty.                                                                    *)

Plan(kind, minute, hour, weekdays, dayOfMonth, cron) ==
  [kind |-> kind, minute |-> minute, hour |-> hour, weekdays |-> weekdays,
   dayOfMonth |-> dayOfMonth, cron |-> cron]

ManualSchedule == Plan("manual", 0, 0, {}, 0, Nothing)

LastDayOfMonth == 31

Cron(s) ==
  CASE s.kind = "hourly" -> Expr(One(s.minute), Star, Star, Star, Star)
    [] s.kind = "daily" -> Expr(One(s.minute), One(s.hour), Star, Star, Star)
    [] s.kind = "weekly" /\ s.weekdays # {} -> Expr(One(s.minute), One(s.hour), Star, Star, List(s.weekdays))
    [] s.kind = "monthly" /\ s.dayOfMonth >= 1 ->
         Expr(One(s.minute), One(s.hour),
              IF s.dayOfMonth >= LastDayOfMonth THEN Range28 ELSE One(s.dayOfMonth), Star, Star)
    [] OTHER -> s.cron

ShouldRun(s, t) ==
  (s.kind = "monthly" /\ s.dayOfMonth >= LastDayOfMonth) => Date(t).day = daysInMonth(t)

\* Slip: an expression limited to some months passes for a preset.
EveryMonthAssumed(e) == TRUE

EachMonth(e) == e.month.form = "any"

(* schedulePreset and ParseLegacySchedule: what an older release's bare       *)
(* expression becomes.                                                       *)
ParseLegacySchedule(e) ==
  LET minute == Min(e.minute.vals)
      hour == Min(e.hour.vals)
      timed == EachMonth(e) /\ e.minute.form = "int" /\ e.hour.form = "int"
  IN  CASE e = Nothing -> ManualSchedule
        [] EachMonth(e) /\ e.minute.form = "int" /\ e.hour = Star /\ e.dom = Star /\ e.dow = Star ->
             Plan("hourly", minute, 0, {}, 0, Nothing)
        [] timed /\ e.dom = Star /\ e.dow = Star -> Plan("daily", minute, hour, {}, 0, Nothing)
        [] timed /\ e.dom = Star /\ e.dow.form \in {"int", "list"} ->
             Plan("weekly", minute, hour, e.dow.vals, 0, Nothing)
        [] timed /\ e.dow = Star /\ e.dom = Range28 ->
             Plan("monthly", minute, hour, {}, LastDayOfMonth, Nothing)
        [] timed /\ e.dow = Star /\ e.dom.form = "int" ->
             Plan("monthly", minute, hour, {}, Min(e.dom.vals), Nothing)
        [] OTHER -> Plan("advanced", 0, 0, {}, 0, e)

RPO(s) ==
  CASE s.kind = "hourly" -> MinutesPerHour
    [] s.kind = "daily" -> Day
    [] s.kind = "weekly" -> 7 * Day
    [] s.kind = "monthly" -> 30 * Day
    [] OTHER -> Nothing

\* Slip: the grace is an hour whatever the objective.
RPOGraceFlat(rpo) == MinutesPerHour

RPOGrace(rpo) == Max({rpo \div 4, MinutesPerHour})

(* evaluatePosture: is a success at that minute recent enough? *)
within(s, last, t) == t - last <= RPO(s) + RPOGrace(RPO(s))

-----------------------------------------------------------------------------
(* The backup window: Nothing, or minutes of the day.  The end is exclusive. *)
(* A bound that is no time of day is Nothing, and such a window never blocks *)
(* a run; the API stores none.                                               *)

\* Slip: a window that crosses midnight is read like one that does not.
ContainsSameDay(w, t) ==
  \/ w.start = w.end
  \/ w.start <= Clock(t) /\ Clock(t) < w.end

Contains(w, t) ==
  \/ Nothing \in {w.start, w.end}
  \/ w.start = w.end
  \/ w.start < w.end /\ w.start <= Clock(t) /\ Clock(t) < w.end
  \/ w.start > w.end /\ (w.start <= Clock(t) \/ Clock(t) < w.end)

windowCheck(w, t) == w = Nothing \/ Contains(w, t)

\* Slip: three probes, for the three days that may be skipped.
nextRunProbesThree == 3

nextRunProbes == 8

NextRun(s, t) ==
  LET firing[i \in 0..nextRunProbes] ==
        LET u == firing[i - 1]
        IN  IF i = 0 THEN t ELSE IF u = Nothing THEN Nothing ELSE Following(Cron(s), u)
      Real(i) == firing[i] # Nothing /\ ShouldRun(s, firing[i])
  IN  IF Cron(s) = Nothing \/ \A i \in 1..nextRunProbes : ~Real(i) THEN Nothing
      ELSE firing[CHOOSE i \in 1..nextRunProbes : Real(i) /\ \A j \in 1..i - 1 : ~Real(j)]

-----------------------------------------------------------------------------
(* The walk.  A job is created now or converted by migrateJobSchedules from  *)
(* the expression an older release stored.                                   *)

Init ==
  /\ job \in {[i EXCEPT !.schedule = IF i.raw = Nothing THEN i.schedule ELSE ParseLegacySchedule(i.raw)] :
                i \in Inputs}
  /\ now = 0
  /\ run = Nothing /\ success = Nothing
  /\ shown = NextRun(job.schedule, 0)
  /\ outcome = "quiet"

(* The entry of the job fires: the closure of ReloadSchedules, then trigger. *)
Fires(t) == Matches(Cron(job.schedule), t) /\ ShouldRun(job.schedule, t)

trigger(t) ==
  CASE ~Fires(t) -> "quiet"
    [] ~windowCheck(job.window, t) -> "refused"
    [] run # Nothing /\ run > t -> "running"
    [] OTHER -> "started"

(* A minute passes: the run in progress may succeed, the entry may fire, and *)
(* whoever looks sees a new answer of NextRun.                               *)
Minute(d) ==
  LET t == now + 1
      end == IF trigger(t) = "started" THEN t + d ELSE run
  IN  /\ now < Horizon
      /\ trigger(t) # "started" => d = 0
      /\ now' = t
      /\ outcome' = trigger(t)
      /\ success' = IF t \in {run, end} THEN t ELSE success
      /\ run' = IF end = t THEN Nothing ELSE end
      /\ shown' = NextRun(job.schedule, t)
      /\ UNCHANGED job

Next == \E d \in 0..MaxRunTime : Minute(d)

Spec == Init /\ [][Next]_vars

-----------------------------------------------------------------------------
(* What Label tells the operator, with the last day of a month as the day    *)
(* before a first, and the window as an arc of the clock face.               *)
Labelled(s, t) ==
  LET atTime == Clock(t) = s.hour * MinutesPerHour + s.minute
  IN  CASE s.kind = "hourly" -> t % MinutesPerHour = s.minute
        [] s.kind = "daily" -> atTime
        [] s.kind = "weekly" -> atTime /\ Weekday(t) \in s.weekdays
        [] s.kind = "monthly" ->
             atTime /\ IF s.dayOfMonth = 31 THEN Date(t + Day).day = 1 ELSE Date(t).day = s.dayOfMonth
        [] s.kind = "advanced" -> Matches(s.cron, t)
        [] OTHER -> FALSE

Open(w, t) == w = Nothing \/ (Clock(t) - w.start) % Day < (w.end - w.start) % Day

(* A run starts by itself in exactly the minutes that the label and the       *)
(* window describe, unless the job is still running: through Cron, ShouldRun, *)
(* the entry's closure and windowCheck, over month ends and midnight.         *)
StartsAsLabelled ==
  [][outcome' \in {"started", "running"} <=> Labelled(job.schedule, now') /\ Open(job.window, now')]_vars

(* The next run on display is a promise: it stays the same until its minute,  *)
(* and the entry fires then and not before.  NextRun probes often enough, and *)
(* discards the firings that the entry's closure discards.                    *)
NextRunIsKept ==
  [][IF outcome' = "quiet" THEN shown' = shown /\ shown # now' ELSE shown = now']_vars

EveryMonth(s) == s.kind = "monthly" => s.dayOfMonth \notin 29..30

(* A job that meets every firing of a schedule that fires each month is never *)
(* shown at risk because of age: RPO plus RPOGrace covers months of 31 days   *)
(* and runs of different length (evaluatePosture's deadline).                    *)
OnTimeIsWithinRPO ==
  success # Nothing /\ RPO(job.schedule) # Nothing /\ EveryMonth(job.schedule) /\ job.window = Nothing
    => within(job.schedule, success, now)

MonthEnd(e) == e.dom \in {One(31), Range28}

(* Converting an older release's expression changes no job's timing, through  *)
(* ParseLegacySchedule, Cron and ShouldRun.  Expressions for day 31 and for   *)
(* days 28-31 are excepted: they become the last day of the month.            *)
LegacyKeepsTiming ==
  [][job.raw # Nothing /\ ~MonthEnd(job.raw) => (Fires(now') <=> Matches(job.raw, now'))]_vars
=============================================================================
