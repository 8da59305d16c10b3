\* One save, one archive request or purge and the job at a time; two responses
\* with three finishing requests, two attempts, one stall; three moves in all.
\* When nothing is left to do, only the scheduling job goes on.
SPECIFICATION FairSpec
CONSTANTS
  Editors = {e1}
  Admins = {a1}
  Scheduler = scheduler
  Statuses = {"paused", "inProgress", "completed"}
  LastDay = 2
  Retention = 0
  MaxMoves = 3
  Responses = {r1, r2}
  Requests <- MCRequests
  AutoComplete = 2
  MaxAttempts = 2
  MaxStalled = 1
  e1 = e1
  a1 = a1
  scheduler = scheduler
  r1 = r1
  r2 = r2
INVARIANTS
  TypeOK
  DatesOrdered
  EffectsOnce
PROPERTIES
  TransitionsCurrent
  PurgedOnlyExpired
  EffectsRun
  AutoCompletes
  SchedulesApplied
