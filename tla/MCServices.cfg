SPECIFICATION ServicesSpec
CONSTANTS
  Capacity = 2
  MaxPieces = 4
  Callers = {c1, c2, c3}
  Unloaders = {u1, u2}
  Shutdown = Shutdown
  NoCaller = NoCaller
  Emitters = {e1, e2}
  NoEmitter = NoEmitter
  Keep = 3
  PageLimit = 2
  EventLimit = 3
  MaxEvents = 5
  MaxBoots = 2
  MaxLosses = 1
  Suites = {b1, b2}
  Rejecting = {b1}
  Rows = 1
  Streams = 1
  KeptRuns = 2
  MaxAuto = 1
  Automatic = Automatic
  NoSuite = NoSuite
INVARIANTS
  ServicesTypeOK
  StreamSafe
  EmbeddingSafe
  EventsSafe
  
PROPERTIES
  WorkersEnd
  UnloadHolds
  PageFollowsLog
