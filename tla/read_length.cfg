SPECIFICATION Spec
CONSTANTS
  Messages <- LengthMessages
  Exchanges = 1
INVARIANT PreciseLength
\* The exchanges end.
CHECK_DEADLOCK FALSE
