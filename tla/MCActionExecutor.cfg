SPECIFICATION ExecutorSpec
CONSTANTS
  c1 = c1
  c2 = c2
  hh1 = hh1
  hh2 = hh2
  li1 = li1
  li2 = li2
  b1 = b1
  b2 = b2
  b3 = b3
  Free = Free
  NoTime = NoTime
  Callers <- MCCallers
  Actions <- MCActions
  Batches <- MCBatches
  Requests <- MCRequests
  KindOf <- MCKindOf
  Limit <- MCLimit
  Tracked <- MCTracked
  UserScopes <- MCScopes
  Outcomes <- RunnerOutcomes
  Quiet <- NoQuiet
  BoostGap = 1
  DayLength = 1
  MaxTime = 0
SYMMETRY Symmetry
INVARIANTS
  ExecutorTypeOK
  AtMostOneRun
  RunLeavesReceipt
  SettlesOwnPending
  RunsWithinLimit
  OneLinkedinRunner
  StopsAtFirstFailure
  AppliedMeansDelivered
PROPERTIES
  FinalStays
  NoStartWhenStopped
