SPECIFICATION FairSpec
CONSTANTS
  Messages <- AllMessages
  Exchanges = 2
INVARIANTS
  TypeOK
  BodyIsPrefix
  OnePiece
  ChunksComplete
PROPERTIES
  LengthLosesOne
  CloseEnds
\* The exchanges end.
CHECK_DEADLOCK FALSE
