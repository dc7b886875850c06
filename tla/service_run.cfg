SPECIFICATION Spec
CONSTANTS
  Callbacks = {}
  MaxSessions = 1
  MaxConnections = 1
INVARIANT DeliveredOnce
CHECK_DEADLOCK FALSE
