SPECIFICATION FairAutoApplySpec
CONSTANTS
  d1 = d1
  i1 = i1
  c1 = c1
  a1 = a1
  a2 = a2
  b1 = b1
  acme = acme
  Free = Free
  NoTime = NoTime
  Callers <- MCCallers
  Dispatchers <- MCDispatchers
  Actions <- MCActions
  Batches <- MCBatches
  Items <- MCItems
  Requests <- MCRequests
  KindOf <- MCKindOf
  Limit <- MCLimit
  Tracked <- MCItems
  UserScopes <- MCNone
  Outcomes <- MCOutcomes
  EnableModes <- MCModes
  Quiet <- MCNone
  CompanyOf <- MCCompanyOf
  RuleSets <- MCRuleSets
  Operations <- MCOperations
  Window <- MCWindow
  Pauses <- NoPause
  DailyLimit <- MCDailyLimit
  BoostGap = 1
  DayLength = 4
  MaxTime = 1
  MaxLetter = 1
  BreakAfter = 8
  BreakTime = 1
  LeaseTime = 1
  PauseTime = 1
PROPERTIES
  CallEnds
  ApprovedIsAnswered
