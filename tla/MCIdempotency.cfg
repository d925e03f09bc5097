SPECIFICATION Spec
CONSTANTS
  Keys = {k1, k2}
  Bodies = {b1, b2}
  Requests = {r1, r2, r3}
  NoKey = NoKey
  NoRecord = NoRecord
  Writes = 2
  Deployments <- Sound
INVARIANTS
  ReplayIsExact
  SurplusWorkIsReported
  AnswersStandForWork
PROPERTY
  ImplementsExactlyOnce
CHECK_DEADLOCK FALSE
