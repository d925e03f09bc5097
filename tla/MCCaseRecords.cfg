SPECIFICATION Spec
CONSTANTS
  Alerts = {a1}
  Requests = {r1, r2, r3, r4}
  Bodies <- AllBodies
  Citations = 2
  None = None
  Earlier = Earlier
SYMMETRY Symmetry
INVARIANTS
  CreatesAgree
  VersionsAreDense
  RefusalsAreRaces
  AuditedFilesAreComplete
  ReadsAreFresh
  LoneDraftsAreAudited
CHECK_DEADLOCK FALSE
