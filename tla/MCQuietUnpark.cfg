CONSTANTS
  PR = {"pr1"}
  AttentionOnly = FALSE
  Runner = {"auto"}
  Caller = {"c1"}
  Worker = {"w1"}
  Contents <- MCContents
  MaxInFlight = 1
  WorkerSlots = 1
  MaxUpdates = 1
  MaxMoves = 1
  MaxCalls = 1
SPECIFICATION Spec
PROPERTY UnparksOnSignal
CHECK_DEADLOCK FALSE
