CONSTANTS
  r1 = r1
  r2 = r2
  Update = Update
  Runs <- MCRuns
  MaxAttempts = 2
  MaxCalls = 2
  MaxChunks = 1
SPECIFICATION Spec
SYMMETRY MCSymmetry
INVARIANTS
  NoUpdateMidRun
  ActiveRunsAreAwaited
  ResultOnTheWay
CHECK_DEADLOCK FALSE
