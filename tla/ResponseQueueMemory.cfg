CONSTANTS
  MaxAnswers = 4
  Tasks = {t1, t2}
  RetryAttempts = 2
  PersistOffline = FALSE
  Linked = FALSE
  Faults = {"flicker", "unavailable", "reject", "recaptcha"}
  MaxFaults = 4
SPECIFICATION FairSpec
CHECK_DEADLOCK FALSE
PROPERTIES
  AnswersResolved
