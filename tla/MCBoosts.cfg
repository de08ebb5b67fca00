SPECIFICATION ExecutorSpec
CONSTANTS
  c1 = c1
  c2 = c2
  boost1 = boost1
  boost2 = boost2
  hh1 = hh1
  b1 = b1
  b2 = b2
  Free = Free
  NoTime = NoTime
  Callers <- MCCallers
  Actions <- MCActions
  Batches <- MCBatches
  Requests <- MCRequests
  KindOf <- MCKindOf
  Limit <- MCLimit
  Tracked <- MCTracked
  UserScopes <- MCScopes
  Outcomes <- RunnerOutcomes
  Quiet <- NightTimes
  BoostGap = 2
  DayLength = 4
  MaxTime = 6
SYMMETRY Symmetry
INVARIANTS
  NoRunAtNight
  BoostsApart
