SPECIFICATION Spec
CONSTANTS
  NumCalls = 3
  Kinds = {"deadline", "unknown", "nomethod", "oneway"}
  NumConns = 2
  MaxCap = 2
  MaxIdle = 1
INVARIANTS
  TypeOK
  ConnsAccounted
  QuietWhenIdle
PROPERTIES
  ImplementsRemoteCall
  CallsEnd
CHECK_DEADLOCK FALSE
