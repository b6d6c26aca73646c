----------------------------- MODULE MCRetention ----------------------------
(* Six instants, two to a day.  Weeks and months are both of two days, but   *)
(* a week begins on the second day and ends in the second month.             *)
EXTENDS Retention

MCTimes == 0..5
MCRules == {"daily", "weekly", "monthly"}
MCCalendar ==
  [r \in MCRules |-> [t \in MCTimes |-> CASE r = "daily" -> t \div 2
                                          [] r = "weekly" -> (t + 2) \div 4
                                          [] OTHER -> t \div 4]]
MCIds == 1..4
Keep(l, d, w, m) ==
  [last |-> l, keep |-> [r \in MCRules |-> CASE r = "daily" -> d [] r = "weekly" -> w [] OTHER -> m]]
MCPolicies ==
  {Keep(0, 0, 0, 0), Keep(2, 1, 0, 0), Keep(0, 2, 1, 0), Keep(1, 2, 2, 1), Keep(0, 0, 1, 2)}
=============================================================================
