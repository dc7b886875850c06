----------------------------- MODULE Connection -----------------------------
(***************************************************************************)
(* conn_impl_t (crequests/connection.cpp): one HTTP exchange as a chain of *)
(* asynchronous operations on a strand.  The user thread calls start();    *)
(* from then on the io thread runs one completion handler at a time, and   *)
(* the handler of an operation starts the next one.  A timer races the     *)
(* chain, end() delivers the outcome, and handlers that were already       *)
(* queued, or could not be cancelled, still run afterwards.                *)
(*                                                                         *)
(* An operation is in flight from the call that starts it until its        *)
(* handler runs.  Between the two it may complete (Complete): its result   *)
(* is then queued, and a later cancel() no longer changes it.  What the    *)
(* server sends is not modelled byte by byte: the handler that parses      *)
(* chooses what the parser found.                                          *)
(*                                                                         *)
(* One io thread runs the handlers (service_t::service_data_t::start), so  *)
(* a handler is one atomic action, with one exception: end() may have to   *)
(* shut TLS down, which waits for the server, and its second half is then  *)
(* an action of its own.  The user thread is not serialised with the io    *)
(* thread, and start() is therefore cut in two at the point where its      *)
(* first operation can already complete.                                   *)
(***************************************************************************)
EXTENDS Naturals, Sequences

CONSTANT Requests     \* the options a request may be sent with

RequestType == [keep_alive     : BOOLEAN,
                redirect       : BOOLEAN,
                redirect_count : Nat,
                throw_on_error : BOOLEAN,
                body_callback  : BOOLEAN,     \* is one set?
                ssl            : BOOLEAN]

ASSUME RequestsAssumption == Requests \subseteq RequestType

VARIABLES
  request,    \* response.request(): the request being served
  reused,     \* m_is_reused: the stream was taken from an earlier connection
  state,      \* error_code_t state
  stream,     \* what became of the socket of stream_t
  op,         \* the operation of the chain that is in flight
  ec,         \* its completion: "waiting", or the result queued for its handler
  started,    \* start() was called
  arming,     \* setup_timeout() calls the user thread's start() still has to make
  timer,      \* timeout_timer has a wait that has not elapsed
  expired,    \* elapsed waits of timeout_timer whose handlers are queued
  dispose,    \* dispose_timer: "off", "armed", "expired" or "done"
  response,   \* the fields of response_t that the control depends on
  raw,        \* the member raw: has it collected body bytes?
  reqbuf,     \* request_buf: how many copies of the request it holds
  sent,       \* copies of the request written to the present stream
  feed,       \* the last call of the user's body_callback
  held,       \* the io thread is in end(), waiting for the server's close_notify
  shown,      \* what final_callback was shown
  delivered   \* the outcomes given to the promise

chainVars  == <<op, ec>>
callerVars == <<started, arming>>
timerVars  == <<timer, expired>>
endVars    == <<state, stream, timer, dispose, response, raw, feed, held, shown, delivered>>
sendVars   == <<request, reqbuf, sent>>
vars == <<request, reused, state, stream, op, ec, started, arming, timer, expired,
          dispose, response, raw, reqbuf, sent, feed, held, shown, delivered>>

-----------------------------------------------------------------------------
(* States, operations and results.                                         *)

Failure == {"RESOLVE_ERROR", "CONNECT_ERROR", "HANDSHAKE_ERROR", "WRITE_ERROR",
            "READ_STATUS_ERROR", "READ_STATUS_DATA_ERROR", "READ_HEADERS_ERROR",
            "READ_CONTENT_LENGTH_ERROR", "READ_CHUNK_HEADER_ERROR",
            "READ_CHUNK_DATA_ERROR", "READ_UNTIL_EOF_ERROR",
            "REDIRECT_EXHAUSTED", "REDIRECT_ERROR", "TIMEOUT"}

\* The states for which in_final_state() answers true.
Final == Failure \cup {"SUCCESS", "EXPIRED"}

Running == {"INIT", "RESOLVE", "CONNECT", "HANDSHAKE", "WRITE", "READ_STATUS",
            "READ_HEADERS", "READ_CONTENT_LENGTH", "READ_CHUNK_HEADER",
            "READ_CHUNK_DATA", "READ_UNTIL_EOF"}

Reads == {"read_status", "read_headers", "read_content_length",
          "read_chunk_header", "read_chunk_data", "read_until_eof"}

\* The operations stream_t starts only on an open socket.
OnOpenSocket == {"handshake", "write"} \cup Reads
Operation    == {"resolve", "connect"} \cup OnOpenSocket

(* "eof" and "reset" are the codes is_socket_closed() accepts, "eof" those *)
(* is_eof() accepts, "aborted" is operation_aborted.                       *)
Result == {"ok", "eof", "reset", "error", "aborted"}
SocketClosed == {"eof", "reset"}

(* "new": a socket object that was never opened; "connecting": opened, not *)
(* connected; "shut": cancel() shut it down but left it open; "closed": no *)
(* socket object any more, closed here or moved to another connection.     *)
StreamState == {"new", "connecting", "open", "shut", "closed"}
IsOpen(s)   == s \in {"connecting", "open", "shut"}

Code    == {"none", "plain", "moved"}         \* "moved": 301, 302 or 303
Framing == {"length", "chunked", "eof"}
Headers == [close : BOOLEAN, location : BOOLEAN, framing : Framing]
NoHeaders == [close |-> FALSE, location |-> FALSE, framing |-> "eof"]
Body    == {"empty", "data"}

ResponseType == [code : Code, headers : Headers, error : Failure \cup {"SUCCESS"},
                 body : Body, redirect_count : Nat]

\* response_t{request}, and response.redirect_count(n)
FreshResponse(n) == [code |-> "none", headers |-> NoHeaders, error |-> "SUCCESS",
                     body |-> "empty", redirect_count |-> n]

Outcome == [how : {"value", "exception"}, state : Failure \cup {"SUCCESS"}, body : Body]
View    == [state : Failure \cup {"SUCCESS"}, body : Body]
Nothing == [state |-> "nothing"]

TypeOK ==
  /\ request \in RequestType
  /\ reused \in BOOLEAN
  /\ state \in Running \cup Final
  /\ stream \in StreamState
  /\ op \in Operation \cup {"none"}
  /\ ec \in Result \cup {"waiting"}
  /\ started \in BOOLEAN /\ arming \in 0..2
  /\ timer \in BOOLEAN /\ expired \in Nat
  /\ dispose \in {"off", "armed", "expired", "done"}
  /\ response \in ResponseType
  /\ raw \in Body
  /\ reqbuf \in Nat /\ sent \in Nat
  /\ feed \in {"silent", "piece", "end"}
  /\ held \in BOOLEAN
  /\ shown \in View \cup {Nothing}
  /\ delivered \in Seq(Outcome)

-----------------------------------------------------------------------------
(* Helpers: the set_* functions, end(), and starting an operation.         *)

\* set_state(): a final state is kept, except that EXPIRED may be left.
After(s) == IF state \in Final /\ state # "EXPIRED" THEN state ELSE s

\* The chain goes no further.
Stop == op' = "none" /\ ec' = "waiting"

\* Start operation o on a stream in state s; stream_t drops it, handler and
\* all, when it needs an open socket and there is none.
Issue(o, s) ==
  /\ op' = IF \/ o \in OnOpenSocket /\ ~IsOpen(s)
              \/ o = "connect" /\ s = "closed"
           THEN "none" ELSE o
  /\ ec' = "waiting"

\* body_fn: a piece of the body goes to the body_callback if there is one.
RawWith(got)  == IF got /\ ~request.body_callback THEN "data" ELSE raw
FeedWith(got) == IF got /\ request.body_callback THEN "piece" ELSE feed

\* What end() does to the stream; rsp is the response so far.
Closing(rsp) == request.keep_alive /\ rsp.headers.close
Cancelling   == ~request.keep_alive
\* Mutant: end() looks only at the request's own keep_alive.
StreamAfterOurClose(rsp) == IF Cancelling /\ stream = "open" THEN "shut" ELSE stream
StreamAfterEnd(rsp) ==
  CASE Closing(rsp) /\ IsOpen(stream)  -> "closed"
    [] Cancelling /\ stream = "open"   -> "shut"
    [] OTHER                           -> stream

\* The result, after end(), of an operation that was in flight.  Cancelling the
\* resolver may come too late for a lookup that is under way, and cancelling a
\* connect only moves it on to the next endpoint, if there is one.
ResultAfterEnd(rsp) ==
  CASE op = "none" \/ ec # "waiting"         -> {ec}
    [] op = "resolve"                        -> {"waiting", "aborted"}
    [] Closing(rsp)                          -> {"aborted"}
    [] Cancelling /\ op = "connect"          -> {"waiting", "aborted"}
    [] Cancelling                            -> {"aborted"}
    [] OTHER                                 -> {"waiting"}

\* Is the stream one with TLS?  One taken over may be although its request is not,
\* after a redirect that was followed late (Session).
MayBeTls == request.ssl \/ (reused /\ response.redirect_count = 0)

\* Shutting TLS down sends a close_notify and waits for the server's, unless the
\* handshake was never completed or the server has closed.
MayWait(rsp) ==
  /\ Closing(rsp) \/ Cancelling
  /\ MayBeTls /\ stream = "open" /\ ec \notin SocketClosed
  /\ op = "handshake" => ec = "ok"

\* end() after stream.cancel(), with `bytes` in the member raw.
HandOver(code, rsp, bytes) ==
  /\ stream' = StreamAfterEnd(rsp)
  /\ response' = [rsp EXCEPT !.error = code, !.body = bytes]
  /\ raw' = "empty"
  /\ feed' = IF request.body_callback THEN "end" ELSE feed
  /\ delivered' = Append(delivered,
       IF code # "SUCCESS" /\ request.throw_on_error
       THEN [how |-> "exception", state |-> code, body |-> "empty"]
       ELSE [how |-> "value", state |-> code, body |-> bytes])

\* set_state(code); response.error(code); end().  final_callback runs before the body
\* is moved into the response, and all of it before the promise is set.
End(code, rsp, got) ==
  /\ state' = code
  /\ timer' = FALSE
  /\ shown' = [state |-> code, body |-> rsp.body]
  /\ dispose' = "armed"
  /\ \/ /\ MayWait(rsp) /\ held' = TRUE
        /\ response' = [rsp EXCEPT !.error = code]
        /\ raw' = RawWith(got) /\ feed' = FeedWith(got)
        /\ UNCHANGED <<stream, delivered>>
     \/ held' = FALSE /\ HandOver(code, rsp, RawWith(got))

\* The response keeps what the handler just parsed; nothing else changes.
Absorb(rsp, got) ==
  /\ response' = rsp /\ raw' = RawWith(got) /\ feed' = FeedWith(got)
  /\ UNCHANGED <<state, stream, timer, dispose, held, shown, delivered>>

\* Mutant: in_final_state() is not asked.
ConcludeAnyway(code, rsp, got) == Stop /\ End(code, rsp, got)

\* set_error(), and the second half of set_success(): nothing is delivered twice.
Conclude(code, rsp, got) ==
  /\ Stop
  /\ \/ state \in Final /\ Absorb(rsp, got)
     \/ state \notin Final /\ End(code, rsp, got)

\* Mutant: the end of the stream is taken for a cancelled operation.
FailUnlessEof(code) ==
  \/ ec \in {"aborted", "eof"} /\ Stop /\ UNCHANGED endVars
  \/ ec \notin {"aborted", "eof"} /\ Conclude(code, response, FALSE)

\* set_error(code, ec): an aborted operation says nothing.
Fail(code) ==
  \/ ec = "aborted" /\ Stop /\ UNCHANGED endVars
  \/ ec # "aborted" /\ Conclude(code, response, FALSE)

\* The chain goes on with operation o, in state s.
Proceed(s, o) ==
  /\ state' = After(s)
  /\ Issue(o, stream)
  /\ UNCHANGED <<stream, timer, dispose, held, shown, delivered>>

\* Mutant: the old stream is kept for the new attempt.
ResolveOnOldStream ==
  /\ Issue("resolve", stream)
  /\ state' = After("RESOLVE")
  /\ raw' = "empty"
  /\ UNCHANGED <<stream, sent>>

\* resolve() on a stream that was just created, by a parser that starts afresh.
ResolveAnew ==
  /\ stream' = "new"
  /\ Issue("resolve", "new")
  /\ state' = After("RESOLVE")
  /\ raw' = "empty"
  /\ sent' = 0

\* restart() up to and including start()'s resolve().  The buffers are kept.
Reconnect ==
  /\ reused' = FALSE
  /\ ResolveAnew
  /\ UNCHANGED <<request, dispose, response, reqbuf, feed, held, shown, delivered>>

\* Mutant: one redirect too many.
ExhaustedLate(rsp) == rsp.redirect_count > request.redirect_count

Exhausted(rsp) == rsp.redirect_count >= request.redirect_count

\* Mutant: what was read of the answer that redirects is kept.
FollowRedirectKeepsRaw(rsp) ==
  /\ response' = FreshResponse(rsp.redirect_count + 1)
  /\ \E ssl \in BOOLEAN : request' = [request EXCEPT !.ssl = ssl]
  /\ reqbuf' = 0
  /\ stream' = "new" /\ Issue("resolve", "new") /\ state' = After("RESOLVE")
  /\ raw' = raw /\ sent' = 0
  /\ UNCHANGED <<timer, dispose, held, shown, delivered>>

\* perform_redirect() past its two checks: a new response_t, a new stream.
FollowRedirect(rsp) ==
  /\ response' = FreshResponse(rsp.redirect_count + 1)
  /\ \E ssl \in BOOLEAN : request' = [request EXCEPT !.ssl = ssl]
  /\ reqbuf' = 0
  /\ ResolveAnew
  /\ UNCHANGED <<timer, dispose, held, shown, delivered>>

PerformRedirect(rsp, got) ==
  \/ Exhausted(rsp) /\ Conclude("REDIRECT_EXHAUSTED", rsp, got) /\ UNCHANGED sendVars
  \/ /\ ~Exhausted(rsp) /\ ~rsp.headers.location
     /\ Conclude("REDIRECT_ERROR", rsp, got) /\ UNCHANGED sendVars
  \/ /\ ~Exhausted(rsp) /\ rsp.headers.location
     /\ feed' = FeedWith(got) /\ FollowRedirect(rsp)

\* set_success(): a redirect that is not to be followed ends nothing.
SetSuccess(rsp, got) ==
  \/ rsp.code = "moved" /\ request.redirect /\ PerformRedirect(rsp, got)
  \/ /\ rsp.code = "moved" /\ ~request.redirect
     /\ Stop /\ Absorb(rsp, got) /\ UNCHANGED sendVars
  \/ rsp.code # "moved" /\ Conclude("SUCCESS", rsp, got) /\ UNCHANGED sendVars

\* write(): make_request() is appended to whatever request_buf still holds.
Write(s) ==
  /\ reqbuf' = reqbuf + 1
  /\ state' = After("WRITE")
  /\ Issue("write", s)

-----------------------------------------------------------------------------
(* The user thread.                                                        *)

Init ==
  /\ request \in Requests
  /\ reused \in BOOLEAN
  /\ stream \in IF reused THEN StreamState ELSE {"new"}
  /\ state = "INIT" /\ op = "none" /\ ec = "waiting"
  /\ started = FALSE /\ arming = 0 /\ timer = FALSE /\ expired = 0
  /\ dispose = "off"
  /\ response = FreshResponse(0) /\ raw = "empty"
  /\ reqbuf = 0 /\ sent = 0
  /\ feed = "silent" /\ held = FALSE /\ shown = Nothing /\ delivered = <<>>

Starting(arms) ==
  /\ ~started /\ started' = TRUE /\ arming' = arms
  /\ UNCHANGED timerVars

\* start() of a connection of its own.
StartFresh ==
  /\ Starting(1) /\ ~reused
  /\ ResolveAnew
  /\ UNCHANGED <<request, reused, dispose, response, reqbuf, feed, held, shown, delivered>>

\* Mutant: the early return of the reused path skips setup_timeout().
StartReusedUntimed ==
  /\ Starting(0) /\ reused /\ IsOpen(stream)
  /\ Write(stream)
  /\ UNCHANGED <<request, reused, stream, dispose, response, raw, sent, feed,
                 held, shown, delivered>>

\* start() on a stream taken from an earlier connection and still open.
StartReused ==
  /\ Starting(1) /\ reused /\ IsOpen(stream)
  /\ Write(stream)
  /\ UNCHANGED <<request, reused, stream, dispose, response, raw, sent, feed,
                 held, shown, delivered>>

\* start() on a stream taken from an earlier connection and no longer open:
\* restart() calls start() again, and both calls arm the timer.
StartClosed ==
  /\ Starting(2) /\ reused /\ ~IsOpen(stream)
  /\ Reconnect

\* setup_timeout() at the end of start(): a wait still pending is replaced.
Arm ==
  /\ arming > 0 /\ arming' = arming - 1
  /\ timer' = TRUE
  /\ UNCHANGED <<request, reused, state, stream, op, ec, started, expired, dispose,
                 response, raw, reqbuf, sent, feed, held, shown, delivered>>

\* A later Send of the session moves the stream into its new connection; it
\* first waits for this connection's response.
TakeStream ==
  /\ delivered # <<>> /\ stream # "closed"
  /\ stream' = "closed"
  /\ UNCHANGED <<request, reused, state, op, ec, started, arming, timer, expired,
                 dispose, response, raw, reqbuf, sent, feed, held, shown, delivered>>

-----------------------------------------------------------------------------
(* The network and the clock.                                              *)

Results ==
  CASE op \in {"resolve", "connect", "handshake"}            -> {"ok", "error"}
    [] op = "write" /\ stream \in {"shut", "connecting"}     ->
         IF MayBeTls THEN {"reset", "error"} ELSE {"reset"}
    [] op = "write" /\ stream \notin {"shut", "connecting"}  -> {"ok", "reset", "error"}
    [] OTHER                                                 -> {"ok", "eof", "reset", "error"}

Complete ==
  /\ op # "none" /\ ec = "waiting"
  /\ ec' \in Results
  /\ UNCHANGED <<request, reused, state, stream, op, started, arming, timer, expired,
                 dispose, response, raw, reqbuf, sent, feed, held, shown, delivered>>

Elapse ==
  /\ timer
  /\ timer' = FALSE /\ expired' = expired + 1
  /\ UNCHANGED <<request, reused, state, stream, op, ec, started, arming, dispose,
                 response, raw, reqbuf, sent, feed, held, shown, delivered>>

ElapseDispose ==
  /\ dispose = "armed" /\ dispose' = "expired"
  /\ UNCHANGED <<request, reused, state, stream, op, ec, started, arming, timer, expired,
                 response, raw, reqbuf, sent, feed, held, shown, delivered>>

\* The server's close_notify arrives, or the end of its stream: end() goes on.
PeerCloses ==
  /\ held /\ held' = FALSE
  /\ HandOver(state, response, raw)
  /\ UNCHANGED <<request, reused, state, op, ec, started, arming, timer, expired,
                 dispose, reqbuf, sent, shown>>

-----------------------------------------------------------------------------
(* The completion handlers, run by the io thread unless end() holds it.    *)

Ready(o) == ~held /\ op = o /\ ec # "waiting"

\* What no completion handler of the chain touches.
Outside == UNCHANGED <<started, arming, expired>>

OnResolve ==
  /\ Ready("resolve") /\ Outside
  /\ UNCHANGED <<reused, sendVars>>
  /\ \/ /\ ec = "ok"
        /\ state' = After("CONNECT")
        /\ Issue("connect", stream)
        /\ stream' = IF stream = "closed" THEN stream ELSE "connecting"
        /\ UNCHANGED <<timer, dispose, response, raw, feed, held, shown, delivered>>
     \/ ec # "ok" /\ Fail("RESOLVE_ERROR")

\* Without TLS the handshake's callback runs at once, inside on_connect.
OnConnect ==
  /\ Ready("connect") /\ Outside
  /\ UNCHANGED <<reused, request, sent>>
  /\ \/ /\ ec = "ok"
        /\ stream' = IF stream = "connecting" THEN "open" ELSE stream
        /\ \/ /\ request.ssl \/ ~IsOpen(stream')
              /\ state' = After("HANDSHAKE")
              /\ Issue("handshake", stream')
              /\ UNCHANGED reqbuf
           \/ ~request.ssl /\ IsOpen(stream') /\ Write(stream')
        /\ UNCHANGED <<timer, dispose, response, raw, feed, held, shown, delivered>>
     \/ ec # "ok" /\ Fail("CONNECT_ERROR") /\ UNCHANGED reqbuf

OnHandshake ==
  /\ Ready("handshake") /\ Outside
  /\ UNCHANGED <<reused, request, sent>>
  /\ \/ /\ ec = "ok" /\ Write(stream)
        /\ UNCHANGED <<stream, timer, dispose, response, raw, feed, held, shown, delivered>>
     \/ ec # "ok" /\ Fail("HANDSHAKE_ERROR") /\ UNCHANGED reqbuf

\* Mutant: restart() also after the end.
MayRestartAnytime == ec \in SocketClosed /\ reused

\* Mutant: restart() cancels the timer and does not arm it again.
RestartUntimed ==
  /\ ec \in SocketClosed /\ reused /\ state \notin Final
  /\ Reconnect /\ timer' = FALSE

\* A dead stream that was taken over is replaced, once, by one of our own.
MayRestart == ec \in SocketClosed /\ reused /\ state \notin Final
Restart    == MayRestart /\ Reconnect /\ timer' = TRUE

OnWrite ==
  /\ Ready("write") /\ Outside
  /\ \/ /\ ec = "ok"
        /\ sent' = reqbuf /\ reqbuf' = 0
        /\ Proceed("READ_STATUS", "read_status")
        /\ UNCHANGED <<request, reused, response, raw, feed>>
     \/ Restart
     \/ /\ ec # "ok" /\ ~MayRestart
        /\ Fail("WRITE_ERROR") /\ UNCHANGED <<reused, sendVars>>

\* The parser may consume the line without a status: a line end left over from
\* the previous response of a reused stream, or no reason phrase.
OnReadStatus ==
  /\ Ready("read_status") /\ Outside
  /\ \/ /\ ec = "ok"
        /\ \E code \in Code : response' = [response EXCEPT !.code = code]
        /\ Proceed("READ_HEADERS", "read_headers")
        /\ UNCHANGED <<reused, sendVars, raw, feed>>
     \/ /\ ec = "ok" /\ Conclude("READ_STATUS_DATA_ERROR", response, FALSE)
        /\ UNCHANGED <<reused, sendVars>>
     \/ Restart
     \/ /\ ec # "ok" /\ ~MayRestart
        /\ Fail("READ_STATUS_ERROR") /\ UNCHANGED <<reused, sendVars>>

\* read_chunk_header(), and the chunks whose bytes are already in response_buf:
\* their handlers are called directly, until one has to read or the chain ends.
ReadChunks(rsp, got) ==
  \/ /\ \/ Proceed("READ_CHUNK_HEADER", "read_chunk_header")
        \/ Proceed("READ_CHUNK_DATA", "read_chunk_data")
     /\ response' = rsp /\ raw' = RawWith(got) /\ feed' = FeedWith(got)
     /\ UNCHANGED sendVars
  \/ Conclude("READ_CHUNK_HEADER_ERROR", rsp, got) /\ UNCHANGED sendVars
  \/ Conclude("READ_CHUNK_DATA_ERROR", rsp, got) /\ UNCHANGED sendVars
  \/ SetSuccess(rsp, got)

\* read_content(): the headers say how the end of the body is found.
ReadContent(rsp) ==
  \/ /\ rsp.headers.framing = "length"
     /\ Proceed("READ_CONTENT_LENGTH", "read_content_length")
     /\ response' = rsp /\ UNCHANGED <<raw, feed, sendVars>>
  \/ rsp.headers.framing = "chunked" /\ \E got \in BOOLEAN : ReadChunks(rsp, got)
  \/ /\ rsp.headers.framing = "eof"
     /\ Proceed("READ_UNTIL_EOF", "read_until_eof")
     /\ response' = rsp /\ UNCHANGED <<raw, feed, sendVars>>

\* The parser finds the headers; or only the status, if it had none yet; or
\* neither, at the end of the stream.
ParsedHeaders ==
  {[response EXCEPT !.headers = h] : h \in Headers}
    \cup {[response EXCEPT !.code = c] : c \in {d \in Code : response.code = "none"}}
    \cup {rsp \in {response} : ec = "eof"}

OnReadHeaders ==
  /\ Ready("read_headers") /\ Outside
  /\ UNCHANGED reused
  /\ \/ ec \in {"ok", "eof"} /\ \E rsp \in ParsedHeaders : ReadContent(rsp)
     \/ /\ ec \in {"ok", "eof"} /\ Conclude("READ_HEADERS_ERROR", response, FALSE)
        /\ UNCHANGED sendVars
     \/ /\ ec \notin {"ok", "eof"} /\ Fail("READ_HEADERS_ERROR")
        /\ UNCHANGED sendVars

\* At the end of the stream the bytes read may or may not be enough.
OnReadContentLength ==
  /\ Ready("read_content_length") /\ Outside
  /\ UNCHANGED reused
  /\ \/ ec \in {"ok", "eof"} /\ \E got \in BOOLEAN : SetSuccess(response, got)
     \/ /\ ec \in {"ok", "eof"} /\ Conclude("READ_CONTENT_LENGTH_ERROR", response, FALSE)
        /\ UNCHANGED sendVars
     \/ /\ ec \notin {"ok", "eof"} /\ Fail("READ_CONTENT_LENGTH_ERROR")
        /\ UNCHANGED sendVars

\* A stream that ends between two chunks ends the body.
OnReadChunkHeader ==
  /\ Ready("read_chunk_header") /\ Outside
  /\ UNCHANGED reused
  /\ \/ ec = "ok" /\ \E got \in BOOLEAN : ReadChunks(response, got)
     \/ ec = "eof" /\ SetSuccess(response, FALSE)
     \/ ec \notin {"ok", "eof"} /\ Fail("READ_CHUNK_HEADER_ERROR") /\ UNCHANGED sendVars

OnReadChunkData ==
  /\ Ready("read_chunk_data") /\ Outside
  /\ UNCHANGED reused
  /\ \/ ec \in {"ok", "eof"} /\ \E got \in BOOLEAN : ReadChunks(response, got)
     \/ ec \notin {"ok", "eof"} /\ Fail("READ_CHUNK_DATA_ERROR") /\ UNCHANGED sendVars

\* What was read is parsed at the end of the stream, and there must be something
\* of it left to parse.
OnReadUntilEof ==
  /\ Ready("read_until_eof") /\ Outside
  /\ UNCHANGED reused
  /\ \/ /\ ec = "ok" /\ Proceed("READ_UNTIL_EOF", "read_until_eof")
        /\ UNCHANGED <<response, raw, feed, sendVars>>
     \/ ec = "eof" /\ \E got \in BOOLEAN : SetSuccess(response, got)
     \/ /\ ec = "eof" /\ Conclude("READ_UNTIL_EOF_ERROR", response, FALSE)
        /\ UNCHANGED sendVars
     \/ /\ ec \notin {"ok", "eof"} /\ Fail("READ_UNTIL_EOF_ERROR")
        /\ UNCHANGED sendVars

\* set_timeout(): the chain is not told, unless end() cancels what it waits for.
OnTimeout ==
  /\ ~held /\ expired > 0 /\ expired' = expired - 1
  /\ \/ /\ state \notin Final
        /\ End("TIMEOUT", response, FALSE)
        /\ op' = op /\ ec' \in ResultAfterEnd(response)
     \/ /\ state \in Final /\ Cancelling /\ IsOpen(stream)
        /\ stream' = "closed"
        /\ op' = op
        /\ ec' = IF op \in OnOpenSocket \cup {"connect"} /\ ec = "waiting"
                 THEN "aborted" ELSE ec
        /\ UNCHANGED <<state, timer, dispose, response, raw, feed, held, shown, delivered>>
     \/ /\ state \in Final /\ ~(Cancelling /\ IsOpen(stream))
        /\ UNCHANGED <<chainVars, endVars>>
  /\ UNCHANGED <<reused, callerVars, sendVars>>

\* Mutant: set_dispose() ends the connection.
DisposeEnds ==
  /\ ~held /\ dispose = "expired"
  /\ End("EXPIRED", response, FALSE)
  /\ UNCHANGED <<request, reused, op, ec, started, arming, expired, reqbuf, sent>>

\* set_dispose()
OnDispose ==
  /\ ~held /\ dispose = "expired" /\ dispose' = "done"
  /\ state' = After("EXPIRED")
  /\ UNCHANGED <<request, reused, stream, op, ec, started, arming, timer, expired,
                 response, raw, reqbuf, sent, feed, held, shown, delivered>>

-----------------------------------------------------------------------------
User == StartFresh \/ StartReused \/ StartClosed \/ Arm \/ TakeStream

World == Complete \/ Elapse \/ ElapseDispose \/ PeerCloses

Handler ==
  \/ OnResolve \/ OnConnect \/ OnHandshake \/ OnWrite \/ OnReadStatus \/ OnReadHeaders
  \/ OnReadContentLength \/ OnReadChunkHeader \/ OnReadChunkData \/ OnReadUntilEof
  \/ OnTimeout \/ OnDispose

Next == User \/ World \/ Handler

(* Send() starts the connection it makes and its thread goes on; time       *)
(* passes; the io thread runs the handlers that are queued, each in its     *)
(* turn.  Of the network nothing is assumed: Complete and PeerCloses have   *)
(* no fairness, an operation may never complete and a server never close.   *)
(* Nobody has to send a second request.                                     *)
Fairness ==
  /\ WF_vars(StartFresh \/ StartReused \/ StartClosed)
  /\ WF_vars(Arm)
  /\ WF_vars(Elapse) /\ WF_vars(ElapseDispose)
  /\ WF_vars(OnTimeout) /\ WF_vars(OnDispose)

Spec == Init /\ [][Next]_vars

FairSpec == Spec /\ Fairness

-----------------------------------------------------------------------------
(* Properties.                                                             *)

\* end() runs at most once, and exactly when the state machine has reached a
\* final state: the promise is never set twice, whatever races the timeout, and it
\* is set as soon as no TLS shutdown holds end() any more.
DeliveredOnce ==
  /\ Len(delivered) <= 1
  /\ held => state \in Final
  /\ delivered # <<>> <=> state \in Final /\ ~held

\* Once start() has returned, a connection that has delivered nothing has its
\* timeout pending or queued: restarts and redirects never lose it.
TimerCovers ==
  started /\ arming = 0 /\ state \notin Final => timer \/ expired > 0

\* A connection that has delivered nothing waits for an operation of its chain,
\* unless the answer is a redirect it was told not to follow.
InFlight ==
  started /\ state \notin Final =>
    op # "none" \/ (response.code = "moved" /\ ~request.redirect)

\* Until the outcome is delivered the operation in flight has the socket it
\* needs, so stream_t drops no handler, and nothing has cancelled it.
StreamFits ==
  state \notin Final =>
    /\ op = "resolve" => stream = "new"
    /\ op = "connect" => stream = "connecting"
    /\ op \in OnOpenSocket => IsOpen(stream)
    /\ ec # "aborted"

\* set_dispose() runs only after end(), whose final state set_state() keeps: no
\* connection ever becomes EXPIRED.
NeverExpired ==
  /\ state # "EXPIRED"
  /\ dispose # "off" => state \in Final

\* perform_redirect() never goes beyond the request's redirect_count, also when
\* late handlers run it after the end.
RedirectBound == response.redirect_count <= request.redirect_count

\* A stream whose server announced Connection: close is not left open for the
\* session's next request when the response was read to its end.
ServerCloses ==
  delivered # <<>> /\ state = "SUCCESS" /\ request.keep_alive /\ response.headers.close
    => ~IsOpen(stream)

\* The body collected is of the answer being read: none is left of an answer that
\* redirected, or of a stream that was given up.
BodyOfThisAnswer ==
  state \notin Final /\ raw = "data" =>
    \/ op \in {"read_content_length", "read_chunk_header", "read_chunk_data", "read_until_eof"}
    \/ op = "none" /\ response.code = "moved"

\* The callbacks are told what the promise is: final_callback was shown the outcome
\* delivered and no other, and a request with a body_callback, told of its end,
\* gets its body there only.
CallbacksTold ==
  /\ state \notin Final => shown = Nothing
  /\ delivered # <<>> =>
       /\ shown.state = Head(delivered).state
       /\ request.body_callback => feed # "silent" /\ Head(delivered).body = "empty"

\* Late handlers, redirects and timers change neither the outcome nor the final
\* state.
OutcomeKept == [][delivered # <<>> => state' = state /\ delivered' = delivered]_vars

\* A request is sent again on a new stream only if no answer to it was parsed
\* and nothing was delivered.
ResentOnlyUnanswered ==
  [][reused /\ ~reused' => response.code = "none" /\ delivered = <<>>]_vars

\* The promise of Delivery: fulfilled once, and fulfilled at all unless the server
\* keeps end() waiting for its close_notify for ever.
Promise     == INSTANCE Delivery WITH delivered <- delivered, Outcome <- Outcome
PromiseKept == Promise!Spec /\ ([]<>~held => Promise!Live)

(* What the comments and the README say and the code does not do.           *)

\* "This response can be obtained when the current connection is done": a
\* connection that has nothing more to wait for has delivered its response.
AnsweredWhenDone == started /\ state \notin Final => op # "none"

\* write() writes the request: one copy of it, on any stream.
OneRequestOnTheWire == sent <= 1
=============================================================================
