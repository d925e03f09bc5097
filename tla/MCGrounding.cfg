SPECIFICATION Spec
CONSTANTS
  Worlds <- SomeWorlds
  Backends = {"hana", "sqlite"}
  Modes <- Mode
  Written <- OneSentence
INVARIANTS
  EvidenceIsTraceable
  AnswersStandByTheFile
PROPERTY
  ExplanationsAreAnswered
CHECK_DEADLOCK FALSE
