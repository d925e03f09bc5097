SPECIFICATION StoreSpec
CONSTANTS
  r1 = r1
  r2 = r2
  r3 = r3
  a1 = a1
  a2 = a2
  a3 = a3
  a4 = a4
  Requests = {r1, r2, r3}
  Alerts = {a1, a2, a3, a4}
  Loaded = {a1, a2, a3}
  Closed = {a3}
  Created <- CreatedAt
  Factors = 2
  PageSize = 1
  MaxFailures = 1
  Asks <- AskSets
  Databases = {"hana", "sqlite"}
INVARIANTS
  LoneSaveIsWhole
  CalmReadersSeeOneSave
  NoStaleScore
  BatchMissesOnlyTies
PROPERTY
  RequestsEnd
CHECK_DEADLOCK FALSE
