CONSTANTS
  MaxAnswers = 4
  Tasks = {t1, t2}
  RetryAttempts = 2
  PersistOffline = TRUE
  Linked = FALSE
  Faults = {"flicker", "unavailable", "reject", "recaptcha"}
  MaxFaults = 2
SPECIFICATION FairSpec
CHECK_DEADLOCK FALSE
INVARIANTS
  TypeOK
  OneResponse
  AnswersAccountedFor
  AckedNotResent
PROPERTIES
  ImplementsOutbox
  LocksReleased
