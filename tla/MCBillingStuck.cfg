SPECIFICATION FairBillingSpec
CONSTANTS
  k1 = k1
  k2 = k2
  NoTime = NoTime
  Keys <- OneKey
  Plans <- MCPlans
  Month = 2
  RemindBefore = 1
  Grace = 1
  Recheck = 0
  ReminderLease = 1
  MaxAttempts = 2
  MaxRenewals = 1
  MaxTime = 3
PROPERTIES
  RenewalIsResolved
