CONSTANTS
  Sources = {s1, s2}
  Externals = {x}
  Contents = {a, b}
  Clients = {c1, c2}
  MaxAttempts = 3
  Changes = {"importer", "delete"}
SPECIFICATION Spec
INVARIANTS
  TypeOK
  JobMatchesVersion
  VersionsNumbered
  RegistryLinksNewest
  ValidatedCommits
PROPERTIES
  JobKeepsVersion
  ImplementsRegistry
SYMMETRY Symmetry
