------------------------------- MODULE Reading -------------------------------
(***************************************************************************)
(* How a connection reads a response: the read handlers of conn_impl_t     *)
(* (crequests/connection.cpp) with response_buf, the callbacks prepare_    *)
(* parser() binds, and http_parser as those callbacks leave it, paused in  *)
(* the middle of its input.  The network delivers what the server sent in  *)
(* any pieces; a read takes what it asks for, and any more that is there.  *)
(*                                                                         *)
(* The stream is a sequence of tokens.  A line end is two, CR and LF, since *)
(* a pause may fall between them, a byte of a body and the one digit of a  *)
(* chunk's size are one each; a status line or a header is one token, what *)
(* is inside it does not matter here.                                      *)
(*                                                                         *)
(* Timer, errors other than the end of the stream, and what is done with   *)
(* the outcome are in Connection: a read that never completes is a state   *)
(* in which the exchange can only time out.                                *)
(***************************************************************************)
EXTENDS Integers, SequencesExt

CONSTANTS
  Messages,     \* the responses servers give
  Exchanges     \* how many exchanges share the stream

Framing == {"length", "chunked", "eof"}

\* A message: how its end is found, the sizes of its parts (chunks, or the one
\* piece of the others), and whether its status line has a reason phrase.
MessageType == [framing : Framing, parts : Seq(Nat \ {0}), reason : BOOLEAN]

ASSUME MessagesAssumption ==
  /\ \A m \in Messages : /\ m \in [framing : Framing, parts : Seq(Nat), reason : BOOLEAN]
                         /\ \A c \in DOMAIN m.parts : m.parts[c] > 0
  /\ Exchanges \in Nat \ {0}

VARIABLES
  asked,      \* the exchange that is under way
  clean,      \* every exchange before it succeeded
  message,    \* what the server answers it
  intact,     \* it sends all of it
  wire,       \* sent by the server and not yet read
  closed,     \* the server closes the stream behind that
  op,         \* the read in flight, "none" when the exchange is over
  outcome,    \* the state end() is called with, "none" before
  buf,        \* response_buf
  rx,         \* the parser, and what its callbacks have collected
  cutoff,     \* a read of this exchange met the end of the stream
  whole       \* every read so far has taken all there was

exchangeVars == <<asked, clean, message, intact, closed>>
vars == <<exchangeVars, wire, op, outcome, buf, rx, cutoff, whole>>

-----------------------------------------------------------------------------
(* What the server sends.                                                  *)

Token(kind, n, of) == [kind |-> kind, n |-> n, of |-> of]
Sign(kind) == Token(kind, 0, 0)
CRLF == <<Sign("CR"), Sign("LF")>>

Plus(x, y) == x + y
Concat(s, t) == s \o t

SizeUpTo(m, c) == FoldLeft(Plus, 0, SubSeq(m.parts, 1, c))
Size(m) == SizeUpTo(m, Len(m.parts))

\* The body of the message that answers exchange e.
Body(m, e) == [i \in 1..Size(m) |-> Token("byte", i, e)]

Chunk(m, e, c) == <<Token("size", m.parts[c], 0)>> \o CRLF
                    \o SubSeq(Body(m, e), SizeUpTo(m, c - 1) + 1, SizeUpTo(m, c)) \o CRLF

Payload(m, e) ==
  IF m.framing = "chunked"
  THEN FoldLeft(Concat, <<>>, [c \in DOMAIN m.parts |-> Chunk(m, e, c)])
         \o <<Token("size", 0, 0)>> \o CRLF \o CRLF
  ELSE Body(m, e)

\* The one header says how the body ends; when nothing does, it is another header.
Render(m, e) ==
  <<Sign(IF m.reason THEN "status" ELSE "bare")>> \o CRLF
    \o <<Token(m.framing, IF m.framing = "length" THEN Size(m) ELSE 0, 0)>> \o CRLF
    \o CRLF \o Payload(m, e)

\* What the server sends of m, when it may break off, and then closes.
Sendings(m, e) ==
  {[tokens |-> SubSeq(Render(m, e), 1, k),
    intact |-> k = Len(Render(m, e)),
    closed |-> k < Len(Render(m, e)) \/ m.framing = "eof"] : k \in 0..Len(Render(m, e))}

-----------------------------------------------------------------------------
(* The parser and its callbacks.                                           *)

\* The length headers_complete_fn is given when there is no Content-Length.
Unbounded == 1000000

\* A new parser, after prepare_parser().  taken, marked and halted are of one call
\* of execute(): the tokens it took, whether body_fn was called, whether it paused.
FreshRx == [at |-> "start", framing |-> "eof", left |-> 0,
            headers |-> "unread", length |-> 0, status |-> FALSE, raw |-> <<>>,
            taken |-> 0, marked |-> FALSE, halted |-> FALSE]

\* Tokens that only move the parser on, for each state.
Shift ==
  [start      |-> [CR |-> "start", LF |-> "start", status |-> "status", bare |-> "bare"],
   bare       |-> [CR |-> "line"],
   line       |-> [LF |-> "fields"],
   fields     |-> [CR |-> "blank"],
   field      |-> [CR |-> "field_lf"],
   field_lf   |-> [LF |-> "fields"],
   size_cr    |-> [CR |-> "size_lf"],
   chunk_lf   |-> [LF |-> "size"],
   trailer    |-> [CR |-> "trailer_lf"],
   trailer_lf |-> [LF |-> "start"]]

To(p, at) == [p EXCEPT !.at = at, !.taken = @ + 1]
Byte(p, t, at) == [p EXCEPT !.at = at, !.taken = @ + 1, !.raw = Append(@, t),
                            !.left = @ - 1, !.marked = TRUE]
Halt(p) == [p EXCEPT !.halted = TRUE]

\* What the headers say comes next.
AfterHeaders(p) ==
  IF p.framing = "chunked" THEN "size"
  ELSE IF p.framing = "eof" THEN "rest"
  ELSE IF p.left = 0 THEN "start" ELSE "body"

\* One token.  A callback that pauses the parser halts it: after the token
\* (status, chunk header, the end of a chunk's data), or before it, so that it is
\* left in response_buf (the last LF of the headers, the last byte of a body).
Step(p, t) ==
  IF p.halted THEN p
  ELSE IF p.at = "status" /\ t.kind = "CR"
  THEN Halt([To(p, "line") EXCEPT !.status = TRUE])
  ELSE IF p.at = "fields" /\ t.kind \in Framing
  THEN [To(p, "field") EXCEPT !.framing = t.kind, !.left = t.n]
  ELSE IF p.at = "blank" /\ t.kind = "LF"
  THEN Halt([p EXCEPT !.at = "headers", !.headers = p.framing,
                      !.length = IF p.framing = "length" THEN p.left ELSE Unbounded])
  ELSE IF p.at = "headers" /\ t.kind = "LF" THEN To(p, AfterHeaders(p))
  ELSE IF p.at = "body" /\ p.left > 1 THEN Byte(p, t, "body")
  ELSE IF p.at = "body" /\ p.left = 1
  THEN Halt([Byte(p, t, "done") EXCEPT !.taken = p.taken])
  ELSE IF p.at = "done" THEN To(p, "start")
  ELSE IF p.at = "rest" THEN Byte(p, t, "rest")
  ELSE IF p.at = "size" /\ t.kind = "size" THEN [To(p, "size_cr") EXCEPT !.left = t.n]
  ELSE IF p.at = "size_lf" /\ t.kind = "LF"
  THEN Halt([To(p, IF p.left = 0 THEN "trailer" ELSE "chunk") EXCEPT !.length = p.left])
  ELSE IF p.at = "chunk" THEN Byte(p, t, IF p.left = 1 THEN "chunk_cr" ELSE "chunk")
  ELSE IF p.at = "chunk_cr" /\ t.kind = "CR" THEN [To(p, "chunk_lf") EXCEPT !.halted = p.marked]
  ELSE IF p.at \in DOMAIN Shift /\ t.kind \in DOMAIN Shift[p.at]
  THEN To(p, Shift[p.at][t.kind])
  ELSE Halt([p EXCEPT !.at = "error", !.taken = 0])

\* execute_parser() on the bytes b.  The singleton has TLC compute each state of
\* the parser once.
Advance(p, t) == CHOOSE next \in {Step(q, t) : q \in {p}} : TRUE
Execute(b) == FoldLeft(Advance, rx, b)

\* The parser between two calls of execute().
Resumed(p) == [p EXCEPT !.taken = 0, !.marked = FALSE, !.halted = p.at = "error"]

-----------------------------------------------------------------------------
(* Reads and their handlers.                                               *)

Holds(b, delimiter) ==
  \E i \in 0..(Len(b) - Len(delimiter)) :
    \A j \in DOMAIN delimiter : b[i + j] = delimiter[j]

\* async_read_until: how many more tokens it may take.
Until(delimiter) ==
  IF Holds(buf, delimiter) THEN {0}
  ELSE {k \in 1..Len(wire) : Holds(buf \o SubSeq(wire, 1, k), delimiter)}

\* async_read with transfer_at_least(n).
AtLeast(n) == IF n <= 0 THEN {0} ELSE n..Len(wire)

\* What read_content_length() and read_chunk_data() still ask for.
Missing == rx.length - Len(buf)

Amounts ==
  IF op = "none" THEN {}
  ELSE IF op \in {"read_status", "read_chunk_header"} THEN Until(CRLF)
  ELSE IF op = "read_headers" THEN Until(CRLF \o CRLF)
  ELSE IF op = "read_until_eof" THEN AtLeast(1)
  ELSE AtLeast(Missing)

\* How the read in flight may complete: with that many tokens, or at the end of the
\* stream with all there are.
Completions ==
  IF Amounts = {} /\ closed THEN {[ec |-> "eof", took |-> Len(wire)]}
  ELSE {[ec |-> "ok", took |-> k] : k \in Amounts}

Receive(c) ==
  /\ wire' = SubSeq(wire, c.took + 1, Len(wire))
  /\ whole' = (whole /\ wire' = <<>>)
  /\ cutoff' = (cutoff \/ c.ec = "eof")

\* response_buf, when its handler is called.
Filled(c) == buf \o SubSeq(wire, 1, c.took)

Read(o) == op' = o /\ outcome' = "none"
\* Mutant: after set_error() the handler goes on.
FinishGoesOn(code) == op' = op /\ outcome' = code
Finish(code) == op' = "none" /\ outcome' = code

Unparsed(b) == buf' = b /\ rx' = rx

\* execute_parser() when response_buf is b; what it takes is consumed.
Parse(b) ==
  LET p == Execute(b) IN rx' = Resumed(p) /\ buf' = SubSeq(b, p.taken + 1, Len(b))

\* It returned 0.
TookNothing(b) == buf' = b

OnReadStatus ==
  /\ op = "read_status" /\ UNCHANGED exchangeVars
  /\ \E c \in Completions :
       /\ Receive(c)
       /\ IF c.ec = "eof" THEN Unparsed(Filled(c)) /\ Finish("READ_STATUS_ERROR")
          ELSE /\ Parse(Filled(c))
               /\ IF TookNothing(Filled(c)) THEN Finish("READ_STATUS_DATA_ERROR")
                  ELSE Read("read_headers")

\* Mutant: Content-Length is not looked for.
ContentReadUncounted(headers) ==
  IF headers = "chunked" THEN "read_chunk_header" ELSE "read_until_eof"

\* read_content()
ContentRead(headers) ==
  IF headers = "length" THEN "read_content_length"
  ELSE IF headers = "chunked" THEN "read_chunk_header"
  ELSE "read_until_eof"

OnReadHeaders ==
  /\ op = "read_headers" /\ UNCHANGED exchangeVars
  /\ \E c \in Completions :
       /\ Receive(c) /\ Parse(Filled(c))
       /\ IF TookNothing(Filled(c)) THEN Finish("READ_HEADERS_ERROR")
          ELSE Read(ContentRead(rx'.headers))

\* Mutant: any end of the stream will do.
OnReadContentLengthCutOff ==
  /\ op = "read_content_length" /\ UNCHANGED exchangeVars
  /\ \E c \in Completions :
       /\ Receive(c) /\ Parse(Filled(c))
       /\ Finish(IF TookNothing(Filled(c)) THEN "READ_CONTENT_LENGTH_ERROR" ELSE "SUCCESS")

OnReadContentLength ==
  /\ op = "read_content_length" /\ UNCHANGED exchangeVars
  /\ \E c \in Completions :
       /\ Receive(c)
       /\ IF c.ec = "eof" /\ Len(Filled(c)) < rx.length
          THEN Unparsed(Filled(c)) /\ Finish("READ_CONTENT_LENGTH_ERROR")
          ELSE /\ Parse(Filled(c))
               /\ Finish(IF TookNothing(Filled(c)) THEN "READ_CONTENT_LENGTH_ERROR"
                                                   ELSE "SUCCESS")

\* Mutant: content_length > 1.
OnReadChunkHeaderOffByOne ==
  /\ op = "read_chunk_header" /\ UNCHANGED exchangeVars
  /\ \E c \in Completions :
       /\ Receive(c)
       /\ IF c.ec = "eof" THEN Unparsed(Filled(c)) /\ Finish("SUCCESS")
          ELSE /\ Parse(Filled(c))
               /\ IF TookNothing(Filled(c)) THEN Finish("READ_CHUNK_HEADER_ERROR")
                  ELSE IF rx'.length > 1 THEN Read("read_chunk_data")
                  ELSE Finish("SUCCESS")

\* Whether the next bytes are in response_buf already makes no difference: a read
\* that has what it asks for completes without taking any more.
OnReadChunkHeader ==
  /\ op = "read_chunk_header" /\ UNCHANGED exchangeVars
  /\ \E c \in Completions :
       /\ Receive(c)
       /\ IF c.ec = "eof" THEN Unparsed(Filled(c)) /\ Finish("SUCCESS")
          ELSE /\ Parse(Filled(c))
               /\ IF TookNothing(Filled(c)) THEN Finish("READ_CHUNK_HEADER_ERROR")
                  ELSE IF rx'.length > 0 THEN Read("read_chunk_data")
                  ELSE Finish("SUCCESS")

\* Mutant: a chunk that breaks off is read again.
OnReadChunkDataAgain ==
  /\ op = "read_chunk_data" /\ UNCHANGED exchangeVars
  /\ \E c \in Completions :
       /\ Receive(c)
       /\ IF c.ec = "eof" /\ Len(Filled(c)) < rx.length
          THEN Unparsed(Filled(c)) /\ Read("read_chunk_data")
          ELSE /\ Parse(Filled(c))
               /\ IF TookNothing(Filled(c)) THEN Finish("READ_CHUNK_DATA_ERROR")
                  ELSE Read("read_chunk_header")

OnReadChunkData ==
  /\ op = "read_chunk_data" /\ UNCHANGED exchangeVars
  /\ \E c \in Completions :
       /\ Receive(c)
       /\ IF c.ec = "eof" /\ Len(Filled(c)) < rx.length
          THEN Unparsed(Filled(c)) /\ Finish("READ_CHUNK_DATA_ERROR")
          ELSE /\ Parse(Filled(c))
               /\ IF TookNothing(Filled(c)) THEN Finish("READ_CHUNK_DATA_ERROR")
                  ELSE Read("read_chunk_header")

OnReadUntilEof ==
  /\ op = "read_until_eof" /\ UNCHANGED exchangeVars
  /\ \E c \in Completions :
       /\ Receive(c)
       /\ IF c.ec = "ok" THEN Unparsed(Filled(c)) /\ Read("read_until_eof")
          ELSE /\ Parse(Filled(c))
               /\ Finish(IF TookNothing(Filled(c)) THEN "READ_UNTIL_EOF_ERROR" ELSE "SUCCESS")

\* The server answers exchange e with m, after what is left of the last answer.
Answer(m, e, left) ==
  \E s \in Sendings(m, e) : intact' = s.intact /\ wire' = left \o s.tokens /\ closed' = s.closed

\* Mutant: the body collected so far is not reset.
NextExchangeKeepsRaw ==
  /\ outcome # "none" /\ ~closed /\ asked < Exchanges
  /\ asked' = asked + 1 /\ clean' = (clean /\ outcome = "SUCCESS")
  /\ message' \in Messages /\ Answer(message', asked', wire)
  /\ op' = "read_status" /\ outcome' = "none"
  /\ buf' = <<>> /\ rx' = [FreshRx EXCEPT !.raw = rx.raw]
  /\ cutoff' = FALSE /\ whole' = (whole /\ wire = <<>>)

\* The session's next connection takes the stream over, with a response_buf and a
\* parser of its own; what the last one left unread is still to come.
NextExchange ==
  /\ outcome # "none" /\ ~closed /\ asked < Exchanges
  /\ asked' = asked + 1 /\ clean' = (clean /\ outcome = "SUCCESS")
  /\ message' \in Messages /\ Answer(message', asked', wire)
  /\ op' = "read_status" /\ outcome' = "none"
  /\ buf' = <<>> /\ rx' = FreshRx
  /\ cutoff' = FALSE /\ whole' = (whole /\ wire = <<>>)

Init ==
  /\ asked = 1 /\ clean = TRUE
  /\ message \in Messages
  /\ \E s \in Sendings(message, asked) :
       intact = s.intact /\ wire = s.tokens /\ closed = s.closed
  /\ op = "read_status" /\ outcome = "none"
  /\ buf = <<>> /\ rx = FreshRx
  /\ cutoff = FALSE /\ whole = TRUE

Reads ==
  \/ OnReadStatus \/ OnReadHeaders \/ OnReadContentLength \/ OnReadChunkHeader
  \/ OnReadChunkData \/ OnReadUntilEof

Next == Reads \/ NextExchange

Spec == Init /\ [][Next]_vars

\* The network delivers what was sent, and the io thread handles the read this
\* completes.  Nobody has to send a second request.
FairSpec == Spec /\ WF_vars(Reads)

-----------------------------------------------------------------------------
(* Properties.                                                             *)

Outcomes == {"SUCCESS", "READ_STATUS_ERROR", "READ_STATUS_DATA_ERROR", "READ_HEADERS_ERROR",
             "READ_CONTENT_LENGTH_ERROR", "READ_CHUNK_HEADER_ERROR", "READ_CHUNK_DATA_ERROR",
             "READ_UNTIL_EOF_ERROR"}

TypeOK ==
  /\ asked \in 1..Exchanges /\ message \in Messages
  /\ clean \in BOOLEAN /\ intact \in BOOLEAN /\ closed \in BOOLEAN
  /\ cutoff \in BOOLEAN /\ whole \in BOOLEAN
  /\ op \in {"none", "read_status", "read_headers", "read_content_length",
             "read_chunk_header", "read_chunk_data", "read_until_eof"}
  /\ outcome \in Outcomes \cup {"none"}
  /\ (op = "none") = (outcome # "none")
  /\ DOMAIN rx = DOMAIN FreshRx
  /\ rx.headers \in Framing \cup {"unread"} /\ rx.length \in Nat

Sent     == Body(message, asked)
Succeeds == outcome = "SUCCESS"

\* A clean stream, and a status line http_parser reports.
First == asked = 1 /\ message.reason

\* The read in flight waits for what the server, done with its answer, never sends.
Stuck == op # "none" /\ Amounts = {} /\ ~closed

\* However the stream is cut into pieces, what is delivered as the body is the
\* beginning of the body of this answer: nothing is lost within it, nothing comes
\* twice, no size or line end of a chunk gets in, nor a byte of an earlier answer,
\* as long as every exchange before it succeeded: one that failed may leave the rest
\* of its answer on a stream that is kept.
BodyIsPrefix == clean => IsPrefix(rx.raw, Sent)

\* An answer that every read finds complete is delivered, whole.
OnePiece ==
  First /\ whole /\ intact => ~Stuck /\ (outcome # "none" => Succeeds /\ rx.raw = Sent)

\* read_content_length(), on any exchange of a clean stream, in pieces or broken off,
\* succeeds with at most the last byte of the body missing.  This is not all there is to
\* say of a Content-Length: behind a line end that an earlier answer left, the read that
\* gets it is read_until_eof(), which takes an answer that breaks off for a success.
LengthLosesOne ==
  [][clean /\ op = "read_content_length" /\ outcome' = "SUCCESS"
       => Len(rx'.raw) >= Size(message) - 1]_vars

\* A chunked body is delivered as a success whole, unless the stream ended.
ChunksComplete ==
  First /\ Succeeds /\ rx.headers = "chunked" /\ ~cutoff => rx.raw = Sent

\* A server that closes the stream ends the exchange, at whatever point.
CloseEnds == closed ~> outcome # "none"

(* What the comments say and the code does not do.                         *)

\* read_content() is "reading precise length of the body".
PreciseLength ==
  First /\ Succeeds /\ rx.headers = "length" => rx.raw = Sent
=============================================================================
