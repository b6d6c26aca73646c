------------------------------ MODULE MCTiming ------------------------------
(* Small instances of Schedule, CronTable and UploadLimit.  The variable     *)
(* part says which of the three a behaviour is about; the variables of the    *)
(* other two stay as they are.                                                *)
EXTENDS Schedule, TLC

CONSTANTS Parts, j1, j2, h1, h2, s1, t1, t2, t3, Boot, Invalid, NoSpec, Absent

VARIABLES
  part,
  rows, entries, cron, given, handler, edits, disturbed, met, sure,
  limit, limiter, task, past, lapsed

tableVars == <<rows, entries, cron, given, handler, edits, disturbed, met, sure>>
limitVars == <<limit, limiter, task, past, lapsed>>

C == INSTANCE CronTable WITH
  Jobs <- {j1, j2}, Handlers <- {h1, h2}, Specs <- {s1}, MaxEdits <- 3

L == INSTANCE UploadLimit WITH
  Tasks <- {t1, t2, t3}, Limits <- {0, 100}, Overrides <- {5, 7}

MCSymmetry ==
  UNION {Permutations({j1, j2}), Permutations({h1, h2}), Permutations({t1, t2, t3})}

-----------------------------------------------------------------------------
(* Months of 31, 28 and 30 days, of four hours of two minutes. *)

MCMonthDays == <<31, 28, 30>>
At(kind, minute, hour, weekdays, day) ==
  [raw |-> Nothing, schedule |-> Plan(kind, minute, hour, weekdays, day, Nothing), window |-> Nothing]
Old(e) == [raw |-> e, schedule |-> ManualSchedule, window |-> Nothing]
Within(i, start, end) == [i EXCEPT !.window = [start |-> start, end |-> end]]
MCInputs ==
  {At("manual", 0, 0, {}, 0), At("hourly", 1, 0, {}, 0), At("daily", 1, 2, {}, 0),
   At("weekly", 0, 1, {0, 6}, 0), At("monthly", 1, 3, {}, 1), At("monthly", 0, 2, {}, 29),
   At("monthly", 1, 3, {}, 31),
   Within(At("hourly", 1, 0, {}, 0), 6, 3), Within(At("daily", 0, 2, {}, 0), 2, 4),
   Within(At("daily", 0, 2, {}, 0), 4, 6),
   Old(Expr(Star, Star, Star, Star, Star)), Old(Expr(One(0), One(3), Star, Star, Star)),
   Old(Expr(One(0), One(3), One(2), Star, List({2, 4}))), Old(Expr(One(1), One(0), Star, Star, List({1, 3}))),
   Old(Expr(One(1), One(2), One(15), Star, Star)),
   Old(Expr(One(0), One(1), One(31), Star, Star)), Old(Expr(One(0), One(1), Range28, Star, Star)),
   Old(Expr(One(0), One(1), One(30), One(2), Star)), Old(Expr(One(1), Star, Star, Star, Star))}

-----------------------------------------------------------------------------
TimingInit ==
  /\ part \in Parts
  /\ IF part = "schedule" THEN Init
     ELSE /\ job = At("manual", 0, 0, {}, 0) /\ now = 0 /\ run = Nothing /\ success = Nothing
          /\ shown = Nothing /\ outcome = "quiet"
  /\ IF part = "table" THEN C!Init
     ELSE /\ rows = 0 /\ entries = 0 /\ cron = 0 /\ given = 0 /\ handler = 0 /\ edits = 0
          /\ disturbed = 0 /\ met = 0 /\ sure = 0
  /\ IF part = "limit" THEN L!Init
     ELSE limit = 0 /\ limiter = 0 /\ task = 0 /\ past = 0 /\ lapsed = 0

TimingNext ==
  /\ UNCHANGED part
  /\ \/ part = "schedule" /\ Next /\ UNCHANGED <<tableVars, limitVars>>
     \/ part = "table" /\ C!Next /\ UNCHANGED <<vars, limitVars>>
     \/ part = "limit" /\ L!Next /\ UNCHANGED <<vars, tableVars>>

TimingSpec == TimingInit /\ [][TimingNext]_<<part, vars, tableVars, limitVars>>

-----------------------------------------------------------------------------
(* The invariants of the parts, each for the behaviours about its part; the  *)
(* action properties of Schedule hold of the others because nothing changes. *)

(* Schedule!OnTimeIsWithinRPO: punctual jobs are not shown at risk.          *)
PunctualIsNotAtRisk == part = "schedule" => OnTimeIsWithinRPO

(* CronTable!ReloadRepairs: a reload that meets no other is complete.        *)
LoneReloadRepairs == part = "table" => C!ReloadRepairs

(* CronTable!NoLeftoverEntry: without overlap no entry is left over.         *)
NoEntryIsLeftOver == part = "table" => C!NoLeftoverEntry

(* CronTable!EntriesFollowJobs: cron runs what the job table asks for.       *)
CronFollowsJobTable == part = "table" => C!EntriesFollowJobs

(* UploadLimit!CeilingIsBack: a run's own upload ceiling ends with it.      *)
ServerCeilingIsBack == part = "limit" => L!CeilingIsBack
=============================================================================
