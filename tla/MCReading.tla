----------------------------- MODULE MCReading ------------------------------
(* Instances of Reading for TLC: the answers a server may give.            *)
EXTENDS Reading

Of(framing, sizes) == [framing : {framing}, parts : sizes, reason : {TRUE}]

\* Bodies of no byte to three, in no chunk to two, and a status line that has no
\* reason phrase.
AllMessages ==
  Of("length", {<<>>, <<1>>, <<2>>, <<3>>})
    \cup Of("chunked", {<<>>, <<1>>, <<3>>, <<1, 2>>, <<2, 1>>})
    \cup Of("eof", {<<>>, <<2>>})
    \cup [framing : {"length"}, parts : {<<2>>}, reason : {FALSE}]

LengthMessages == Of("length", {<<2>>})
=============================================================================
