SPECIFICATION FairSpec
CONSTANTS
  Callbacks = {"send", "make"}
  MaxSessions = 2
  MaxConnections = 2
INVARIANTS TypeOK WaitsForItself Released
PROPERTIES PromisesKept CallerReturns
CHECK_DEADLOCK FALSE
