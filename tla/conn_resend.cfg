SPECIFICATION Spec
CONSTANT Requests <- DefaultRequests
INVARIANT OneRequestOnTheWire
\* The exchange ends.
CHECK_DEADLOCK FALSE
