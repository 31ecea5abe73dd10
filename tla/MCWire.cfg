CONSTANTS
  Base = 8
  FieldBytes = 2
  NL = 1
  CR = 2
  DeadlineKey <- MCKeyD
  OnewayKey <- MCKeyO
  TrueText <- MCTrue
  Services <- MCServices
  Codecs = {1}
  Compressors = {1}
  Values = {"zero", "small", "big", "long"}
  Zero = "zero"
  Encoded <- MCEncoded
  NotFound <- MCNotFound
  Unsupported <- MCUnsupported
  Garbled <- MCGarbled
  Calls <- MCCalls
  Answers <- MCAnswers
  MaxCalls = 3
SPECIFICATION Spec
INVARIANTS
  TypeOK
  RequestsArrive
  CallerTold
  PanicsExplained
  NoneWaitsInVain
CHECK_DEADLOCK FALSE
