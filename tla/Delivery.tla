------------------------------ MODULE Delivery ------------------------------
(***************************************************************************)
(* What a connection promises the caller of Send, and nothing of how it    *)
(* does it: the future obtained from connection_t::get() is fulfilled, and *)
(* it is fulfilled once.  conn_impl_t::end() is the only place that        *)
(* touches the promise.  A second set_value or set_exception on the same   *)
(* std::promise would throw on the io thread, so "once" is a safety matter *)
(* and "at all" is what keeps a blocked caller from waiting for ever.      *)
(***************************************************************************)
EXTENDS Naturals, Sequences

CONSTANT Outcome      \* what a promise can be given: a response or an exception

VARIABLE delivered    \* the outcomes the promise was given, oldest first

TypeOK == delivered \in Seq(Outcome)

Init == delivered = <<>>

\* The promise, still empty, is given its outcome.
Deliver == /\ delivered = <<>>
           /\ \E o \in Outcome : delivered' = <<o>>

Next == Deliver

Spec == Init /\ [][Next]_delivered

\* A connection that was started fulfils its promise.
Live == WF_delivered(Next)

FairSpec == Spec /\ Live
=============================================================================
