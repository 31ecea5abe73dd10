SPECIFICATION Spec
CONSTANTS
  Servers = {s1, s2}
  NumCallbacks = 2
  MaxActive = 1
  ShutdownTimeout = 30
  CbTimeout = 13
  StopSleep = 1
  CloseSleep = 1
INVARIANTS
  TypeOK
  PhaseBarriers
  GracefulInTime
  CutOffOnlyAtDeadline
  SecondSignalHeeded
PROPERTIES
  AdmissionStops
  Terminates
