CONSTANTS
  MaxAnswers = 3
  Tasks = {t1, t2, t3}
  RetryAttempts = 2
  PersistOffline = TRUE
  Linked = TRUE
  Faults = {"flicker", "reload", "lostReply", "delete"}
  MaxFaults = 3
SPECIFICATION Spec
CHECK_DEADLOCK FALSE
PROPERTIES
  UpdatesInOrder
  RowsKeptUntilSettled
  IdKeptWhileLive
SYMMETRY Symmetry
