SPECIFICATION Spec
CONSTANTS
  Servers = {s1}
  NumCallbacks = 2
  MaxActive = 0
  ShutdownTimeout = 8
  CbTimeout = 3
  StopSleep = 1
  CloseSleep = 1
INVARIANTS
  AllCallbacksRun
