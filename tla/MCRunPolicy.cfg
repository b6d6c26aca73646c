CONSTANTS
  NumGuests = 3
  RetryCount = 2
  HasLimit = TRUE
SPECIFICATION FairSpec
INVARIANTS
  RowsSettled
  SuccessMeansAllSources
  RowTellsTheOutcome
PROPERTIES
  CancellationIsNotRetried
  RunComesToAnEnd
CHECK_DEADLOCK FALSE
