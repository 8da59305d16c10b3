CONSTANTS
  MaxAnswers = 3
  Tasks = {t1, t2}
  RetryAttempts = 2
  PersistOffline = TRUE
  Linked = TRUE
  Faults = {"flicker", "lostReply"}
  MaxFaults = 3
SPECIFICATION Spec
CHECK_DEADLOCK FALSE
INVARIANTS
  DropsOnlyUnacceptable
SYMMETRY Symmetry
