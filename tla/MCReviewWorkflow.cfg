SPECIFICATION Spec
CONSTANTS
  Requests = {r1, r2, r3, r4}
  i1 = i1
  ExternalIds = {i1}
  NoId = NoId
  Blank = Blank
  NoFlow = NoFlow
  NoPlan = NoPlan
  Running = Running
  Contexts <- AllContexts
  Bodies <- AllBodies
SYMMETRY Symmetry
INVARIANTS
  TypeOK
  RowsAreCoherent
  StatusIsAccounted
  TrailRetells
  ApprovalIsGrounded
PROPERTY
  OnlyStaleWritesLose
CHECK_DEADLOCK FALSE
