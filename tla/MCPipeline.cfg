SPECIFICATION FairSpec
CONSTANTS
  w1 = w1
  w2 = w2
  a = a
  b = b
  Nobody = Nobody
  Workers <- MCWorkers
  Contents <- MCContents
  MaxChunks = 3
INVARIANTS
  BuffersConserved
  WholeStreamStored
  SerialAccounting
PROPERTY
  StreamReturns
CHECK_DEADLOCK FALSE
