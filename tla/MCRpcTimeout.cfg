SPECIFICATION Spec
CONSTANTS
  NumCalls = 1
  Kinds = {"deadline"}
  NumConns = 1
  MaxCap = 1
  MaxIdle = 1
INVARIANTS
  ClientSurvives
CHECK_DEADLOCK FALSE
