SPECIFICATION FairSpec
CONSTANTS
  Callbacks = {}
  MaxSessions = 1
  MaxConnections = 1
PROPERTY Removed
CHECK_DEADLOCK FALSE
