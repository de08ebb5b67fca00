SPECIFICATION MechanicsLive
CONSTANTS
  Lanes = {l1, l2}
  Fits = {f1}
  Reqs = {r1}
  ReqOf <- MCReqOf
  Nobody = Nobody
  ReadAnswers = {"good", "invalid", "down"}
  FitAnswers = {"good", "invalid", "budget", "down"}
  Lease = 2
  CallTime = 1
  DeferTime = 1
  ChannelPause = 1
  ChannelWait = 2
  BudgetWait = 1
  RetryWait = 1
  MaxDefers = 2
  MaxAttempts = 2
  MaxAsks = 2
  MaxStarts = 1
INVARIANTS
  MechanicsTypeOK
  WaitsCostNothing
  CallsAreNeeded
PROPERTIES
  WaitsForWork
  FenceHolds
  PercentComes
