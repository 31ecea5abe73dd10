SPECIFICATION Spec
CONSTANTS
  Keys = {k1, k2}
  Procs = {p1, p2}
  Expirations = {1}
  SweepLimit = 0
  MaxItems = 2
  MaxTime = 2
INVARIANTS
  TypeOK
  NoLiveItemLost
  GetLinearizable
PROPERTIES
  ExpiredItemsGo
