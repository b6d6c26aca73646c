CONSTANTS
  Parts = {"schedule", "table", "limit"}
  MinutesPerHour = 2
  HoursPerDay = 4
  MonthDays <- MCMonthDays
  Inputs <- MCInputs
  Horizon = 720
  Reach = 500
  MaxRunTime = 1
  Nothing = Nothing
  j1 = j1
  j2 = j2
  h1 = h1
  h2 = h2
  s1 = s1
  t1 = t1
  t2 = t2
  t3 = t3
  Boot = Boot
  Invalid = Invalid
  NoSpec = NoSpec
  Absent = Absent
SPECIFICATION TimingSpec
SYMMETRY MCSymmetry
INVARIANTS
  PunctualIsNotAtRisk
  LoneReloadRepairs
  NoEntryIsLeftOver
  ServerCeilingIsBack
PROPERTIES
  StartsAsLabelled
  NextRunIsKept
  LegacyKeepsTiming
CHECK_DEADLOCK FALSE
