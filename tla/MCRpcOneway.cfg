SPECIFICATION Spec
CONSTANTS
  NumCalls = 2
  Kinds = {"plain", "onewayUnknown"}
  NumConns = 2
  MaxCap = 2
  MaxIdle = 1
INVARIANTS
  NoOnewayResult
CHECK_DEADLOCK FALSE
