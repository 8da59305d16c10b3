CONSTANTS
  MaxAnswers = 3
  Tasks = {t1, t2, t3}
  RetryAttempts = 2
  PersistOffline = TRUE
  Linked = FALSE
  Faults = {"flicker", "dbAdd", "db"}
  MaxFaults = 4
SPECIFICATION Spec
CHECK_DEADLOCK FALSE
INVARIANTS
  SingleFlight
  LocksHeld
  AnswersAccountedFor
PROPERTIES
  HandledRowNotResent
SYMMETRY Symmetry
