CONSTANTS
  MaxAnswers = 3
  Tasks = {t1, t2}
  RetryAttempts = 2
  PersistOffline = TRUE
  Linked = FALSE
  Faults = {}
  MaxFaults = 0
SPECIFICATION Spec
CHECK_DEADLOCK FALSE
INVARIANTS
  NothingStranded
SYMMETRY Symmetry
