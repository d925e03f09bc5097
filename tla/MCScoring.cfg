SPECIFICATION Spec
CONSTANTS
  None = None
  Worlds <- SomeWorlds
  Values <- SomeValues
  MaxChanges = 2
  MaxFailed = 2
  Backends = {"hana", "sqlite"}
INVARIANTS
  BackendsAgree
  FailedLookupsAreDeclared
PROPERTY
  RiskierNeverRanksLower
