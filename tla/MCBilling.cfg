SPECIFICATION BillingSpec
CONSTANTS
  k1 = k1
  k2 = k2
  NoTime = NoTime
  Keys <- MCKeys
  Plans <- MCPlans
  Month = 2
  RemindBefore = 1
  Grace = 1
  Recheck = 0
  ReminderLease = 1
  MaxAttempts = 2
  MaxRenewals = 2
  MaxTime = 4
SYMMETRY Symmetry
INVARIANTS
  BillingTypeOK
  RenewalWasAgreed
  MoneyIsNotWrittenOff
PROPERTIES
  ChargesWhatIsDue
  CancelHolds
  AccessIsPaidFor
  AccessNeverShrinks
