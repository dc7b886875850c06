SPECIFICATION FairSpec
CONSTANT Requests <- AllRequests
INVARIANTS
  TypeOK
  DeliveredOnce
  TimerCovers
  InFlight
  RedirectBound
  ServerCloses
  StreamFits
  BodyOfThisAnswer
  CallbacksTold
PROPERTIES
  OutcomeKept
  ResentOnlyUnanswered
  PromiseKept
\* The exchange ends.
CHECK_DEADLOCK FALSE
