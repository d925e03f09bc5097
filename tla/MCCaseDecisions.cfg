SPECIFICATION Spec
CONSTANTS
  Cases = {c1, c2}
  Requests = {r1, r2, r3}
  NoRequest = NoRequest
SYMMETRY Symmetry
INVARIANTS
  StatusHasAttestedDecision
  StatusNotSuperseded
  AuditAccounts
  RecordsAgree
CHECK_DEADLOCK FALSE
