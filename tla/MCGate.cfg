CONSTANTS
  r1 = r1
  r2 = r2
  r3 = r3
  Runs <- MCRuns
  Limits <- MCLimits
SPECIFICATION FairSpec
INVARIANTS
  SlotAccounting
  NoIdleSlot
PROPERTIES
  FirstComeFirstServed
  QueuedRunLeavesQueue
  ImplementsPool
