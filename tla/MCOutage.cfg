SPECIFICATION OutageSpec
CONSTANTS
  Lanes = {l1}
  Fits = {f1}
  Reqs = {r1}
  ReqOf <- MCReqOf
  Nobody = Nobody
  ReadAnswers = {"good", "down"}
  FitAnswers = {"good", "down"}
  Lease = 3
  CallTime = 1
  DeferTime = 1
  ChannelPause = 1
  ChannelWait = 5
  BudgetWait = 1
  RetryWait = 1
  MaxDefers = 6
  MaxAttempts = 3
  MaxAsks = 1
  MaxStarts = 0
INVARIANTS
  OutageFailsNothing
