SPECIFICATION Spec
CONSTANTS
  Rules <- MCRules
  Times <- MCTimes
  Calendar <- MCCalendar
  Ids <- MCIds
  Policies <- MCPolicies
INVARIANTS
  PlanIsAsPromised
  NewestIsKept
  PruningIsIncremental
CHECK_DEADLOCK FALSE
