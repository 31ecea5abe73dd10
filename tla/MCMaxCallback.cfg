SPECIFICATION Spec
CONSTANTS
  Keys = {k1, k2}
  Sizes = {1}
  Lives = {"pending"}
  Procs = {p1}
  Limit = 4
  MaxList = 6
  MaxDebt = 10
SYMMETRY KeySymmetry
INVARIANTS
  CallbackGetsLock
