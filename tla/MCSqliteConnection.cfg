SPECIFICATION Spec
CONSTANTS
  Calls = {c1, c2, c3, c4}
  k1 = k1
  k2 = k2
  k3 = k3
  Keys = {k1, k2, k3}
  Programs <- SmallPrograms
SYMMETRY Symmetry
INVARIANTS
  AtomicAlone
  LossNeedsARollback
  NoTransactionIsLeft
CHECK_DEADLOCK FALSE
