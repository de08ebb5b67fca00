SPECIFICATION FairNotificationsSpec
CONSTANTS
  n1 = n1
  Notes <- MCNotes
  Backoff <- MCBackoff
  MaxAttempts = 3
  StaleAfter = 2
  MaxAge = 2
INVARIANTS
  AnswersAreBounded
PROPERTIES
  DeliverySettles
