----------------------------- MODULE MCSession ------------------------------
(* Instances of Session for TLC.                                           *)
EXTENDS Session

CONSTANTS alpha, beta, eighty, other, root, page, c1, c2

Place(domain, port, path) == [domain |-> domain, port |-> port, path |-> path]

\* One domain without a port, another with one, and a Location that names none.
Hosts == {Place(alpha, None, None), Place(beta, other, None), Place(None, None, page)}
=============================================================================
