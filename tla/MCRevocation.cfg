SPECIFICATION ExecutorSpec
CONSTANTS
  c1 = c1
  c2 = c2
  li1 = li1
  li2 = li2
  b1 = b1
  b2 = b2
  Free = Free
  NoTime = NoTime
  Callers <- MCCallers
  Actions <- MCActions
  Batches <- MCBatches
  Requests <- MCRequests
  KindOf <- MCKindOf
  Limit <- MCLimit
  Tracked <- MCNone
  UserScopes <- MCScopes
  Outcomes <- RunnerOutcomes
  Quiet <- MCNone
  BoostGap = 1
  DayLength = 1
  MaxTime = 0
PROPERTIES
  RevocationStopsActions
