SPECIFICATION Spec
CONSTANTS
  MaxIterations = 1
  MaxCalls = 2
  MaxQuestions = 2
  Callable <- SomeCalls
INVARIANTS
  HistoryIsAnswered
  ChangesAreTold
PROPERTY
  TurnsEnd
CHECK_DEADLOCK FALSE
