CONSTANTS
  r1 = r1
  r2 = r2
  job = job
  point = point
  Nothing = Nothing
  Runs <- MCRuns
  Jobs <- MCJobs
  Points <- MCPoints
  Settings <- MCSettings
  DefaultConcurrency = 1
  MaxConcurrency = 2
SPECIFICATION Spec
INVARIANT
  OneRunPerJob
