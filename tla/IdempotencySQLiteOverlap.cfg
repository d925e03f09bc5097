SPECIFICATION Spec
CONSTANTS
  Keys = {k1, k2}
  Bodies = {b1, b2}
  Requests = {r1, r2, r3}
  NoKey = NoKey
  NoRecord = NoRecord
  Writes = 2
  Deployments <- SQLiteOverlap
INVARIANT ReplayIsExact
CHECK_DEADLOCK FALSE
