SPECIFICATION Spec
CONSTANTS
  Keys = {k1, k2, k3}
  Sizes = {1, 2, 3}
  Lives = {"never"}
  Procs = {p1}
  Limit = 4
  MaxList = 6
  MaxDebt = 10
INVARIANTS
  TypeOK
  AccountingExact
  NeverOvercounted
PROPERTIES
  IsLRUCache
  CallsReturn
