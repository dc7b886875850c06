----------------------------- MODULE MCRequest ------------------------------
(* Instances of Request for TLC.                                           *)
EXTENDS Request, TLC

CONSTANTS alpha, beta, root, page, plain, spaced, one, slash, pair, login, other

At(n, d) == [of |-> n, depth |-> d]
Place(protocol, domain, port, path, query) ==
  [protocol |-> protocol, domain |-> domain, port |-> port, path |-> path, query |-> query]

\* A domain by itself; another over TLS, with a page; one with a port and a query of
\* what need not be encoded, one with what is, and one with what should be; and a
\* relative Location.
Places ==
  {Place(None, alpha, None, None, NoParams),
   Place("https", beta, None, page, NoParams),
   Place(None, beta, "443", None, At(plain, 0) :> At(one, 0) @@ At(spaced, 1) :> At(one, 0)),
   Place("http", alpha, "8080", None, At(plain, 0) :> At(slash, 1)),
   Place(None, alpha, None, page, At(plain, 0) :> At(slash, 0)),
   Place(None, None, None, page, At(plain, 0) :> At(one, 0))}

\* Parameters are not encoded when they are given: one that needs it, one that splits,
\* one given nothing.
GivenParams ==
  {At(plain, 0) :> At(w, 0) : w \in {slash, pair, None}} \cup {At(spaced, 0) :> At(one, 0)}
=============================================================================
