SPECIFICATION Spec
CONSTANTS
  w1 = w1
  w2 = w2
  Workers = {w1, w2}
  MaxChanges = 4
  Requests = {"setup", "trial", "switch", "finalize", "checkout", "undo"}
  MaxFaults = 1
INVARIANTS
  TypeOK
  NoCardNeverBilled
  OneHobby
  NoStraySchedule
CHECK_DEADLOCK FALSE
SYMMETRY Symmetry
