---------------------------- MODULE MCConnection ----------------------------
(* Instances of Connection for TLC: which requests are sent.               *)
EXTENDS Connection, FiniteSets

\* Every combination of keep_alive and redirect, with no redirect allowed or one,
\* and on top of it at most one of the options that only change what is delivered,
\* where the body goes or one step of the chain.
AllRequests ==
  {r \in [keep_alive : BOOLEAN, redirect : BOOLEAN, redirect_count : 0..1,
          throw_on_error : BOOLEAN, body_callback : BOOLEAN, ssl : BOOLEAN] :
     LET extra == {o \in {"throw_on_error", "body_callback", "ssl"} : r[o]}
     IN Cardinality(extra) <= r.redirect_count}

\* The options a request has by default, but for the number of redirects.
DefaultRequests == [keep_alive : {TRUE}, redirect : {TRUE}, redirect_count : {1},
                    throw_on_error : {FALSE}, body_callback : {FALSE}, ssl : {FALSE}]

\* The default options, with redirect_t{false}.
StayRequests == [keep_alive : {TRUE}, redirect : {FALSE}, redirect_count : {1},
                 throw_on_error : {FALSE}, body_callback : {FALSE}, ssl : {FALSE}]
=============================================================================
