CONSTANTS
  Sources = {s1, s2}
  Externals = {x}
  Contents = {a, b}
  Clients = {c1, c2}
  MaxAttempts = 2
  Changes = {}
SPECIFICATION Spec
INVARIANTS
  AnswersConsistent
SYMMETRY Symmetry
