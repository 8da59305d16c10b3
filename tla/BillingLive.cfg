SPECIFICATION FairSpec
CONSTANTS
  w1 = w1
  w2 = w2
  Workers = {w1, w2}
  Requests = {"hobby", "trial", "switch", "undo", "read"}
  MaxChanges = 4
  MaxFaults = 1
PROPERTIES
  Converges
  LandsOnPlan
CHECK_DEADLOCK FALSE
