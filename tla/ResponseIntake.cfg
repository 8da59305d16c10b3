\* Two requests at a time on three responses, two quotas the same answer
\* qualifies for, four requests, one deletion or failure.  The
\* requests run out, so the system may stop.
SPECIFICATION Spec
CONSTANTS
  Responses = {r1, r2, r3}
  Workers = {w1, w2}
  Answers = {yes, no}
  NoAnswer = NoAnswer
  Quota <- MCQuota
  MaxRequests = 4
  MaxUpsets = 1
  r1 = r1
  r2 = r2
  r3 = r3
  w1 = w1
  w2 = w2
  yes = yes
  no = no
SYMMETRY Symmetry
CHECK_DEADLOCK FALSE
INVARIANTS
  TypeOK
  OvershootBounded
  LinksMatch
  FinishedReported
PROPERTIES
  NeverReadmitted
