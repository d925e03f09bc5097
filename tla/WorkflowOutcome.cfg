SPECIFICATION Spec
CONSTANTS
  Requests = {r1, r2, r3}
  i1 = i1
  ExternalIds = {i1}
  NoId = NoId
  Blank = Blank
  NoFlow = NoFlow
  NoPlan = NoPlan
  Running = Running
  Contexts <- NestedContexts
  Bodies <- GoodBodies
SYMMETRY Symmetry
INVARIANT ApprovalIsNeverGuessed
CHECK_DEADLOCK FALSE
