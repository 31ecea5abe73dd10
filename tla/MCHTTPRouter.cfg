SPECIFICATION Spec
CONSTANTS
  Words = {"a", "b"}
  Exprs = {"(a)"}
  Segments <- MCSegments
  Matching <- MCMatching
  MaxDepth = 2
  MaxCalls = 3
INVARIANTS TypeOK OneWildChild LookupByPriority LastValueWins MiddlewaresOfPath
PROPERTIES RoutesStay WordsReachTheirHandler
CHECK_DEADLOCK FALSE
