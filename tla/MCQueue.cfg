SPECIFICATION AutoApplySpec
CONSTANTS
  d1 = d1
  i1 = i1
  i2 = i2
  acme = acme
  Free = Free
  NoTime = NoTime
  Callers <- MCDispatchers
  Dispatchers <- MCDispatchers
  Actions <- MCItems
  Batches <- MCItems
  Items <- MCItems
  Requests <- MCRequests
  KindOf <- MCKindOf
  Limit <- MCLimit
  Tracked <- MCItems
  UserScopes <- MCNone
  Outcomes <- MCOutcomes
  EnableModes <- MCModes
  Quiet <- MCNone
  CompanyOf <- MCCompanyOf
  RuleSets <- MCRuleSets
  Operations <- MCOperations
  Window <- MCWindow
  Pauses <- NoPause
  DailyLimit <- MCDailyLimit
  BoostGap = 1
  DayLength = 4
  MaxTime = 1
  MaxLetter = 1
  BreakAfter = 1
  BreakTime = 1
  LeaseTime = 1
  PauseTime = 1
SYMMETRY Symmetry
INVARIANTS
  AutoApplyTypeOK
  ApprovedHasText
  RunsWithinSchedule
