SPECIFICATION Spec
CONSTANTS
  Keys = {k1, k2}
  Procs = {p1, p2}
  Sizes = {1}
  Lives = {"pending"}
  Limit = 1
  MaxList = 1
  MaxDebt = 0
SYMMETRY KeySymmetry
INVARIANTS
  NoLockLeak
CHECK_DEADLOCK FALSE
