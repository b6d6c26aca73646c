CONSTANTS
  c1 = c1
  c2 = c2
  r1 = r1
  r2 = r2
  Chunks <- MCChunks
  Runs <- MCRuns
  Operator = op
  Nothing = Nothing
  MaxBackups = 2
  GraceOn = TRUE
  Scenes <- MCOverlap
SPECIFICATION Spec
SYMMETRY MCSymmetry
INVARIANT
  Restorable
