SPECIFICATION Spec
CONSTANT Requests <- StayRequests
INVARIANT AnsweredWhenDone
\* The exchange ends.
CHECK_DEADLOCK FALSE
