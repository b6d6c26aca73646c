CONSTANTS
  j1 = j1
  j2 = j2
  v1 = v1
  Operator = Operator
  Jobs <- MCJobs
  Verifiers <- MCVerifiers
  MaxPoints = 2
  MaxChunks = 2
  Fragile <- MCFragile
SPECIFICATION Spec
SYMMETRY MCSymmetry
INVARIANTS
  ListedMeansStored
  ParentIsOlder
PROPERTY
  PassedWasWhole
