CONSTANTS
  Types <- MCTypes
  Struct <- MCStruct
  Underscore <- MCUnderscore
  NoTag = "-"
  BadTag = "!"
  Stmt <- MCStmt
  Sub <- MCSub
  Built <- Body
  WithSubquery <- AsSubquery
  Columns <- ReturnedNames
  Procs = {p1, p2}
  Roots <- MCRoots
  Parts <- MCParts
  Customs <- MCCustoms
  Schema <- MCSchema
  MaxConns = 2
  MaxCalls = 2
  MaxOthers = 1
SYMMETRY Symmetry
SPECIFICATION Spec
INVARIANTS
  TypeOK
  ReadsBack
  GetFills
  DoTxOutcome
  ConnsAccounted
PROPERTY CustomModelKept
CHECK_DEADLOCK FALSE
