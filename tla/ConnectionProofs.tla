-------------------------- MODULE ConnectionProofs --------------------------
(***************************************************************************)
(* Theorems about Connection, for every set of requests.                   *)
(***************************************************************************)
EXTENDS Connection, TLAPS

USE DEF RequestType

(* The type invariant, cut along the groups of variables the actions touch. *)
EndTyped ==
  /\ state \in Running \cup Final
  /\ stream \in StreamState
  /\ timer \in BOOLEAN
  /\ dispose \in {"off", "armed", "expired", "done"}
  /\ response \in ResponseType
  /\ raw \in Body
  /\ feed \in {"silent", "piece", "end"}
  /\ held \in BOOLEAN
  /\ shown \in View \cup {Nothing}
  /\ delivered \in Seq(Outcome)

ChainTyped == op \in Operation \cup {"none"} /\ ec \in Result \cup {"waiting"}
SendTyped  == request \in RequestType /\ reqbuf \in Nat /\ sent \in Nat
RestTyped  == /\ reused \in BOOLEAN
              /\ started \in BOOLEAN /\ arming \in 0..2 /\ expired \in Nat

LEMMA TypeParts == TypeOK <=> EndTyped /\ ChainTyped /\ SendTyped /\ RestTyped
BY DEF TypeOK, EndTyped, ChainTyped, SendTyped, RestTyped

Codes == Failure \cup {"SUCCESS"}

LEMMA BodyType ==
  ASSUME EndTyped, NEW got \in BOOLEAN
  PROVE  RawWith(got) \in Body /\ FeedWith(got) \in {"silent", "piece", "end"}
BY DEF RawWith, FeedWith, EndTyped, Body

\* The second half of end(), which gives the promise its outcome.
LEMMA HandOverType ==
  ASSUME EndTyped, SendTyped, NEW code \in Codes, NEW rsp \in ResponseType,
         NEW bytes \in Body, HandOver(code, rsp, bytes)
  PROVE  /\ stream' \in StreamState /\ response' \in ResponseType /\ raw' \in Body
         /\ feed' \in {"silent", "piece", "end"} /\ delivered' \in Seq(Outcome)
         /\ \E o \in Outcome : delivered' = Append(delivered, o)
         /\ response'.redirect_count = rsp.redirect_count
<1>1. stream' \in StreamState
  BY DEF HandOver, StreamAfterEnd, EndTyped, StreamState, IsOpen
<1>2. response' \in ResponseType /\ raw' \in Body
  BY DEF HandOver, ResponseType, Codes, Body
<1>3. feed' \in {"silent", "piece", "end"}
  BY DEF HandOver, EndTyped
<1>4. \E o \in Outcome : delivered' = Append(delivered, o)
  BY DEF HandOver, Outcome, Codes, Body
<1>5. delivered' \in Seq(Outcome)
  BY <1>4 DEF EndTyped
<1>6. response'.redirect_count = rsp.redirect_count
  BY DEF HandOver, ResponseType
<1> QED  BY <1>1, <1>2, <1>3, <1>4, <1>5, <1>6

\* end() leaves what it writes well typed, and gives the promise one outcome unless
\* it has to wait.
LEMMA EndType ==
  ASSUME EndTyped, SendTyped, NEW code \in Codes, NEW rsp \in ResponseType,
         NEW got \in BOOLEAN, End(code, rsp, got)
  PROVE  /\ EndTyped'
         /\ response'.redirect_count = rsp.redirect_count
         /\ \/ held' /\ delivered' = delivered
            \/ ~held' /\ \E o \in Outcome : delivered' = Append(delivered, o)
<1>1. /\ state' \in Running \cup Final /\ timer' \in BOOLEAN
      /\ dispose' \in {"off", "armed", "expired", "done"} /\ held' \in BOOLEAN
  BY DEF End, Codes, Final
<1>2. shown' \in View \cup {Nothing}
  BY DEF End, View, Codes, ResponseType
<1>3. RawWith(got) \in Body /\ FeedWith(got) \in {"silent", "piece", "end"}
  BY BodyType
<1>4. CASE /\ held' = TRUE
           /\ response' = [rsp EXCEPT !.error = code]
           /\ raw' = RawWith(got) /\ feed' = FeedWith(got)
           /\ UNCHANGED <<stream, delivered>>
  <2>1. response' \in ResponseType /\ response'.redirect_count = rsp.redirect_count
    BY <1>4 DEF ResponseType, Codes
  <2> QED  BY <1>1, <1>2, <1>3, <1>4, <2>1 DEF EndTyped
<1>5. CASE held' = FALSE /\ HandOver(code, rsp, RawWith(got))
  BY <1>1, <1>2, <1>3, <1>5, HandOverType DEF EndTyped
<1> QED  BY <1>4, <1>5 DEF End

-----------------------------------------------------------------------------
(* What any handler of the chain does to the outcome.  Either it is not    *)
(* decided by this step (Kept), and then the chain goes on if it has to,   *)
(* or this step decides it (Ended).                                        *)

Kept ==
  /\ delivered' = delivered /\ dispose' = dispose /\ held' = held
  /\ state \in Final => state' = state
  /\ state \notin Final =>
       /\ state' \notin Final
       /\ timer' = timer \/ timer' = TRUE
       /\ op' # "none" \/ (response'.code = "moved" /\ ~request'.redirect)
       /\ StreamFits'

Ended ==
  /\ state \notin Final
  /\ state' \in Codes
  /\ \/ held' /\ delivered' = delivered
     \/ ~held' /\ \E o \in Outcome : delivered' = Append(delivered, o)
  /\ dispose' = "armed"

Moves ==
  /\ EndTyped' /\ ChainTyped' /\ SendTyped'
  /\ RedirectBound'
  /\ Kept \/ Ended

\* What the chain's operators are entitled to.
Context ==
  /\ EndTyped /\ ChainTyped /\ SendTyped
  /\ RedirectBound
  /\ state # "EXPIRED"

SameCount(rsp) == rsp \in ResponseType /\ rsp.redirect_count = response.redirect_count

LEMMA StatesDisjoint == Running \cap Final = {} /\ Codes \subseteq Final /\ "EXPIRED" \notin Codes
BY DEF Running, Final, Codes, Failure

LEMMA ConcludeMoves ==
  ASSUME Context, NEW code \in Codes, NEW rsp, SameCount(rsp), NEW got \in BOOLEAN,
         Conclude(code, rsp, got), UNCHANGED sendVars
  PROVE  Moves
<1>1. ChainTyped' /\ SendTyped'
  BY DEF Conclude, Stop, ChainTyped, Context, SendTyped, sendVars
<1>2. CASE state \in Final /\ Absorb(rsp, got)
  <2>1. EndTyped'
    BY <1>2, BodyType DEF Absorb, Context, EndTyped, SameCount
  <2>2. RedirectBound'
    BY <1>2 DEF Absorb, RedirectBound, Context, SameCount, sendVars
  <2>3. Kept
    BY <1>2 DEF Absorb, Kept
  <2> QED  BY <1>1, <2>1, <2>2, <2>3 DEF Moves
<1>3. CASE state \notin Final /\ End(code, rsp, got)
  <2>1. /\ EndTyped'
        /\ response'.redirect_count = rsp.redirect_count
        /\ \/ held' /\ delivered' = delivered
           \/ ~held' /\ \E o \in Outcome : delivered' = Append(delivered, o)
    BY <1>3, EndType DEF Context, SameCount
  <2>2. RedirectBound'
    BY <2>1 DEF RedirectBound, Context, SameCount, sendVars
  <2>4. Ended
    BY <1>3, <2>1 DEF End, Ended
  <2> QED  BY <1>1, <2>1, <2>2, <2>4 DEF Moves
<1> QED  BY <1>2, <1>3 DEF Conclude

LEMMA FailMoves ==
  ASSUME Context, ec = "aborted" => state \in Final, NEW code \in Codes,
         Fail(code), UNCHANGED sendVars
  PROVE  Moves
<1>1. CASE ec = "aborted" /\ Stop /\ UNCHANGED endVars
  BY <1>1 DEF Context, Stop, endVars, sendVars, Moves, Kept, EndTyped, ChainTyped,
              SendTyped, RedirectBound
<1>2. CASE ec # "aborted" /\ Conclude(code, response, FALSE)
  BY <1>2, ConcludeMoves DEF SameCount, Context, EndTyped
<1> QED  BY <1>1, <1>2 DEF Fail

LEMMA ProceedMoves ==
  ASSUME Context, NEW s \in Running, NEW o \in Reads, Proceed(s, o),
         state \notin Final => IsOpen(stream),
         SameCount(response'), raw' \in Body, feed' \in {"silent", "piece", "end"},
         SendTyped', request' = request
  PROVE  Moves
<1>1. EndTyped'
  BY DEF Context, EndTyped, Proceed, After, SameCount, Final
<1>2. ChainTyped'
  BY DEF Proceed, Issue, ChainTyped, Operation, OnOpenSocket
<1>3. RedirectBound'
  BY DEF RedirectBound, SameCount, Context
<1>4. Kept
  BY StatesDisjoint
  DEF Kept, Proceed, Issue, After, StreamFits, Context, IsOpen, Reads, OnOpenSocket
<1> QED  BY <1>1, <1>2, <1>3, <1>4 DEF Moves

LEMMA RedirectMoves ==
  ASSUME Context, NEW rsp, SameCount(rsp), NEW got \in BOOLEAN, PerformRedirect(rsp, got)
  PROVE  Moves
<1>1. CASE Exhausted(rsp) /\ Conclude("REDIRECT_EXHAUSTED", rsp, got) /\ UNCHANGED sendVars
  BY <1>1, ConcludeMoves DEF Codes, Failure
<1>2. CASE Conclude("REDIRECT_ERROR", rsp, got) /\ UNCHANGED sendVars
  BY <1>2, ConcludeMoves DEF Codes, Failure
<1>3. CASE ~Exhausted(rsp) /\ feed' = FeedWith(got) /\ FollowRedirect(rsp)
  <2>1. /\ request' \in RequestType
        /\ request'.redirect_count = request.redirect_count
    BY <1>3 DEF FollowRedirect, Context, SendTyped
  <2>2. /\ rsp.redirect_count \in Nat /\ request.redirect_count \in Nat
        /\ rsp.redirect_count + 1 <= request.redirect_count
    BY <1>3 DEF Exhausted, SameCount, ResponseType, Context, SendTyped
  <2>3. /\ response' \in ResponseType
        /\ response'.redirect_count = rsp.redirect_count + 1
    BY <1>3, <2>2 DEF FollowRedirect, FreshResponse, NoHeaders, Headers, Framing,
                      ResponseType, Code, Body
  <2>4. SendTyped' /\ ChainTyped'
    BY <1>3, <2>1 DEF FollowRedirect, ResolveAnew, Issue, SendTyped, ChainTyped,
                      OnOpenSocket, Reads, Operation
  <2>5. EndTyped'
    BY <1>3, <2>3, BodyType
    DEF FollowRedirect, ResolveAnew, After, Context, EndTyped, StreamState, Body, Running
  <2>6. RedirectBound'
    BY <2>1, <2>2, <2>3 DEF RedirectBound
  <2>7. Kept
    BY <1>3, StatesDisjoint
    DEF FollowRedirect, ResolveAnew, After, Issue, Kept, StreamFits, Context,
        OnOpenSocket, Reads, Running
  <2> QED  BY <2>4, <2>5, <2>6, <2>7 DEF Moves
<1> QED  BY <1>1, <1>2, <1>3 DEF PerformRedirect

LEMMA SuccessMoves ==
  ASSUME Context, NEW rsp, SameCount(rsp), NEW got \in BOOLEAN, SetSuccess(rsp, got)
  PROVE  Moves
<1>1. CASE PerformRedirect(rsp, got)
  BY <1>1, RedirectMoves
<1>2. CASE /\ rsp.code = "moved" /\ ~request.redirect
           /\ Stop /\ Absorb(rsp, got) /\ UNCHANGED sendVars
  <2>1. EndTyped' /\ ChainTyped' /\ SendTyped'
    BY <1>2, BodyType DEF Absorb, Stop, Context, EndTyped, ChainTyped, SendTyped,
                          SameCount, sendVars
  <2>2. RedirectBound'
    BY <1>2 DEF Absorb, RedirectBound, Context, SameCount, sendVars
  <2>3. Kept
    BY <1>2 DEF Absorb, Stop, Kept, StreamFits, OnOpenSocket, Reads, sendVars
  <2> QED  BY <2>1, <2>2, <2>3 DEF Moves
<1>3. CASE Conclude("SUCCESS", rsp, got) /\ UNCHANGED sendVars
  BY <1>3, ConcludeMoves DEF Codes
<1> QED  BY <1>1, <1>2, <1>3 DEF SetSuccess

LEMMA ChunksMove ==
  ASSUME Context, state \notin Final => IsOpen(stream),
         NEW rsp, SameCount(rsp), NEW got \in BOOLEAN, ReadChunks(rsp, got)
  PROVE  Moves
<1>1. CASE /\ \/ Proceed("READ_CHUNK_HEADER", "read_chunk_header")
              \/ Proceed("READ_CHUNK_DATA", "read_chunk_data")
           /\ response' = rsp /\ raw' = RawWith(got) /\ feed' = FeedWith(got)
           /\ UNCHANGED sendVars
  <2>1. /\ SameCount(response') /\ raw' \in Body /\ feed' \in {"silent", "piece", "end"}
        /\ SendTyped' /\ request' = request
    BY <1>1, BodyType DEF SameCount, Context, SendTyped, sendVars
  <2>2. CASE Proceed("READ_CHUNK_HEADER", "read_chunk_header")
    BY <2>1, <2>2, ProceedMoves DEF Running, Reads
  <2>3. CASE Proceed("READ_CHUNK_DATA", "read_chunk_data")
    BY <2>1, <2>3, ProceedMoves DEF Running, Reads
  <2> QED  BY <1>1, <2>2, <2>3
<1>2. CASE Conclude("READ_CHUNK_HEADER_ERROR", rsp, got) /\ UNCHANGED sendVars
  BY <1>2, ConcludeMoves DEF Codes, Failure
<1>3. CASE Conclude("READ_CHUNK_DATA_ERROR", rsp, got) /\ UNCHANGED sendVars
  BY <1>3, ConcludeMoves DEF Codes, Failure
<1>4. CASE SetSuccess(rsp, got)
  BY <1>4, SuccessMoves
<1> QED  BY <1>1, <1>2, <1>3, <1>4 DEF ReadChunks

LEMMA ContentMoves ==
  ASSUME Context, state \notin Final => IsOpen(stream),
         NEW rsp, SameCount(rsp), ReadContent(rsp)
  PROVE  Moves
<1>1. CASE /\ \/ Proceed("READ_CONTENT_LENGTH", "read_content_length")
              \/ Proceed("READ_UNTIL_EOF", "read_until_eof")
           /\ response' = rsp /\ UNCHANGED <<raw, feed, sendVars>>
  <2>1. /\ SameCount(response') /\ raw' \in Body /\ feed' \in {"silent", "piece", "end"}
        /\ SendTyped' /\ request' = request
    BY <1>1 DEF SameCount, Context, EndTyped, SendTyped, sendVars
  <2>2. CASE Proceed("READ_CONTENT_LENGTH", "read_content_length")
    BY <2>1, <2>2, ProceedMoves DEF Running, Reads
  <2>3. CASE Proceed("READ_UNTIL_EOF", "read_until_eof")
    BY <2>1, <2>3, ProceedMoves DEF Running, Reads
  <2> QED  BY <1>1, <2>2, <2>3
<1>2. CASE \E got \in BOOLEAN : ReadChunks(rsp, got)
  BY <1>2, ChunksMove
<1> QED  BY <1>1, <1>2 DEF ReadContent

-----------------------------------------------------------------------------
(* The inductive invariant.  DeliveredOnce alone is not inductive: a step   *)
(* from EXPIRED would leave a final state, so NeverExpired is needed, and   *)
(* it needs to know that the dispose timer runs only after end().  InFlight *)
(* needs StreamFits, or stream_t could drop the handler the chain waits     *)
(* for.                                                                     *)

IInv ==
  /\ TypeOK
  /\ DeliveredOnce
  /\ NeverExpired
  /\ RedirectBound
  /\ StreamFits
  /\ InFlight
  /\ TimerCovers

LEMMA InvContext == IInv => Context
BY TypeParts DEF IInv, Context, NeverExpired

\* What every handler of the chain does, and what it leaves alone.
HandlerEffect == Moves /\ reused' \in BOOLEAN /\ UNCHANGED <<started, arming, expired>>

LEMMA ResponseSame == EndTyped => SameCount(response)
BY DEF EndTyped, SameCount

LEMMA ResolveMoves == IInv /\ OnResolve => HandlerEffect
<1> SUFFICES ASSUME IInv, OnResolve PROVE HandlerEffect
  OBVIOUS
<1>0. Context /\ StreamFits /\ reused \in BOOLEAN
  BY InvContext DEF IInv, TypeOK
<1>1. reused' \in BOOLEAN /\ UNCHANGED <<started, arming, expired>> /\ UNCHANGED sendVars
  BY <1>0 DEF OnResolve, Outside
<1>2. CASE /\ ec = "ok"
           /\ state' = After("CONNECT")
           /\ Issue("connect", stream)
           /\ stream' = IF stream = "closed" THEN stream ELSE "connecting"
           /\ UNCHANGED <<timer, dispose, response, raw, feed, held, shown, delivered>>
  <2>1. EndTyped' /\ ChainTyped' /\ SendTyped'
    BY <1>0, <1>1, <1>2
    DEF Context, EndTyped, ChainTyped, SendTyped, After, Running, Issue, Operation,
        StreamState, sendVars
  <2>2. RedirectBound'
    BY <1>0, <1>1, <1>2 DEF RedirectBound, Context, sendVars
  <2>3. op = "resolve"
    BY DEF OnResolve, Ready
  <2>4. Kept
    BY <1>0, <1>2, <2>3, StatesDisjoint
    DEF Kept, After, Issue, StreamFits, Context, OnOpenSocket, Reads, Running
  <2> QED  BY <1>1, <2>1, <2>2, <2>4 DEF HandlerEffect, Moves
<1>3. CASE ec # "ok" /\ Fail("RESOLVE_ERROR")
  BY <1>0, <1>1, <1>3, FailMoves DEF HandlerEffect, Codes, Failure, StreamFits
<1> QED  BY <1>2, <1>3 DEF OnResolve

\* write() on an open stream, whichever handler or start() calls it.
LEMMA WriteMoves ==
  ASSUME Context, NEW s, s = stream', Write(s), s \in StreamState,
         state \notin Final => IsOpen(s),
         UNCHANGED <<request, sent, timer, dispose, response, raw, feed, held, shown, delivered>>
  PROVE  Moves
<1>1. EndTyped' /\ ChainTyped' /\ SendTyped'
  BY DEF Write, Context, EndTyped, ChainTyped, SendTyped, After, Running, Issue,
         Operation, OnOpenSocket
<1>2. RedirectBound'
  BY DEF RedirectBound, Context
<1>3. Kept
  BY StatesDisjoint
  DEF Kept, Write, After, Issue, StreamFits, Context, OnOpenSocket, Reads, Running
<1> QED  BY <1>1, <1>2, <1>3 DEF Moves

LEMMA ConnectMoves == IInv /\ OnConnect => HandlerEffect
<1> SUFFICES ASSUME IInv, OnConnect PROVE HandlerEffect
  OBVIOUS
<1>0. Context /\ StreamFits /\ reused \in BOOLEAN /\ op = "connect"
  BY InvContext DEF IInv, TypeOK, OnConnect, Ready
<1>1. /\ reused' \in BOOLEAN /\ UNCHANGED <<started, arming, expired>>
      /\ UNCHANGED <<request, sent>>
  BY <1>0 DEF OnConnect, Outside
<1>2. CASE ec = "ok"
  <2>1. /\ stream' = IF stream = "connecting" THEN "open" ELSE stream
        /\ UNCHANGED <<timer, dispose, response, raw, feed, held, shown, delivered>>
    BY <1>2 DEF OnConnect, Fail
  <2>2. stream' \in StreamState /\ (state \notin Final => IsOpen(stream'))
    BY <1>0, <2>1 DEF Context, EndTyped, StreamState, StreamFits, IsOpen
  <2>3. CASE state' = After("HANDSHAKE") /\ Issue("handshake", stream') /\ UNCHANGED reqbuf
    <3>1. EndTyped' /\ ChainTyped' /\ SendTyped'
      BY <1>0, <1>1, <2>1, <2>2, <2>3
      DEF Context, EndTyped, ChainTyped, SendTyped, After, Running, Issue, Operation,
          OnOpenSocket
    <3>2. RedirectBound'
      BY <1>0, <1>1, <2>1 DEF RedirectBound, Context
    <3>3. Kept
      BY <1>0, <2>1, <2>2, <2>3, StatesDisjoint
      DEF Kept, After, Issue, StreamFits, Context, OnOpenSocket, Reads, Running
    <3> QED  BY <1>1, <3>1, <3>2, <3>3 DEF HandlerEffect, Moves
  <2>4. CASE Write(stream')
    BY <1>0, <1>1, <2>1, <2>2, <2>4, WriteMoves DEF HandlerEffect
  <2> QED  BY <1>2, <2>3, <2>4 DEF OnConnect
<1>3. CASE ec # "ok" /\ Fail("CONNECT_ERROR") /\ UNCHANGED reqbuf
  BY <1>0, <1>1, <1>3, FailMoves DEF HandlerEffect, Codes, Failure, StreamFits, sendVars
<1> QED  BY <1>2, <1>3 DEF OnConnect

LEMMA HandshakeMoves == IInv /\ OnHandshake => HandlerEffect
<1> SUFFICES ASSUME IInv, OnHandshake PROVE HandlerEffect
  OBVIOUS
<1>0. Context /\ StreamFits /\ reused \in BOOLEAN /\ op = "handshake"
  BY InvContext DEF IInv, TypeOK, OnHandshake, Ready
<1>1. /\ reused' \in BOOLEAN /\ UNCHANGED <<started, arming, expired>>
      /\ UNCHANGED <<request, sent>>
  BY <1>0 DEF OnHandshake, Outside
<1>2. CASE /\ ec = "ok" /\ Write(stream)
           /\ UNCHANGED <<stream, timer, dispose, response, raw, feed, held, shown, delivered>>
  <2>1. stream' = stream /\ stream \in StreamState /\ (state \notin Final => IsOpen(stream))
    BY <1>0, <1>2 DEF Context, EndTyped, StreamFits, OnOpenSocket
  <2> QED  BY <1>0, <1>1, <1>2, <2>1, WriteMoves DEF HandlerEffect
<1>3. CASE ec # "ok" /\ Fail("HANDSHAKE_ERROR") /\ UNCHANGED reqbuf
  BY <1>0, <1>1, <1>3, FailMoves DEF HandlerEffect, Codes, Failure, StreamFits, sendVars
<1> QED  BY <1>2, <1>3 DEF OnHandshake

\* restart(), called by a handler.
LEMMA RestartMoves ==
  ASSUME Context, Restart
  PROVE  Moves /\ reused' \in BOOLEAN
<1>1. EndTyped' /\ ChainTyped' /\ SendTyped' /\ reused' \in BOOLEAN
  BY DEF Restart, Reconnect, ResolveAnew, Issue, After, Context, EndTyped, ChainTyped,
         SendTyped, StreamState, Running, Body, Operation, OnOpenSocket, Reads
<1>2. RedirectBound'
  BY DEF Restart, Reconnect, RedirectBound, Context
<1>3. Kept
  BY StatesDisjoint
  DEF Restart, MayRestart, Reconnect, ResolveAnew, Issue, After, Kept, StreamFits,
      OnOpenSocket, Reads, Running
<1> QED  BY <1>1, <1>2, <1>3 DEF Moves

LEMMA WriteDoneMoves == IInv /\ OnWrite => HandlerEffect
<1> SUFFICES ASSUME IInv, OnWrite PROVE HandlerEffect
  OBVIOUS
<1>0. Context /\ StreamFits /\ reused \in BOOLEAN /\ op = "write"
  BY InvContext DEF IInv, TypeOK, OnWrite, Ready
<1>1. UNCHANGED <<started, arming, expired>>
  BY DEF OnWrite, Outside
<1>2. CASE /\ ec = "ok"
           /\ sent' = reqbuf /\ reqbuf' = 0
           /\ Proceed("READ_STATUS", "read_status")
           /\ UNCHANGED <<request, reused, response, raw, feed>>
  <2>1. /\ SameCount(response') /\ raw' \in Body /\ feed' \in {"silent", "piece", "end"}
        /\ SendTyped' /\ request' = request /\ reused' \in BOOLEAN
    BY <1>0, <1>2, ResponseSame DEF SameCount, Context, EndTyped, SendTyped
  <2>2. state \notin Final => IsOpen(stream)
    BY <1>0 DEF StreamFits, OnOpenSocket
  <2> QED  BY <1>0, <1>1, <1>2, <2>1, <2>2, ProceedMoves DEF HandlerEffect, Running, Reads
<1>3. CASE Restart
  BY <1>0, <1>1, <1>3, RestartMoves DEF HandlerEffect
<1>4. CASE /\ ec # "ok" /\ ~MayRestart
           /\ Fail("WRITE_ERROR") /\ UNCHANGED <<reused, sendVars>>
  BY <1>0, <1>1, <1>4, FailMoves DEF HandlerEffect, Codes, Failure, StreamFits
<1> QED  BY <1>2, <1>3, <1>4 DEF OnWrite

LEMMA StatusMoves == IInv /\ OnReadStatus => HandlerEffect
<1> SUFFICES ASSUME IInv, OnReadStatus PROVE HandlerEffect
  OBVIOUS
<1>0. Context /\ StreamFits /\ reused \in BOOLEAN /\ op = "read_status"
  BY InvContext DEF IInv, TypeOK, OnReadStatus, Ready
<1>1. UNCHANGED <<started, arming, expired>>
  BY DEF OnReadStatus, Outside
<1>2. CASE /\ ec = "ok"
           /\ \E code \in Code : response' = [response EXCEPT !.code = code]
           /\ Proceed("READ_HEADERS", "read_headers")
           /\ UNCHANGED <<reused, sendVars, raw, feed>>
  <2>1. /\ SameCount(response') /\ raw' \in Body /\ feed' \in {"silent", "piece", "end"}
        /\ SendTyped' /\ request' = request /\ reused' \in BOOLEAN
    BY <1>0, <1>2 DEF SameCount, Context, EndTyped, SendTyped, ResponseType, sendVars
  <2>2. state \notin Final => IsOpen(stream)
    BY <1>0 DEF StreamFits, OnOpenSocket, Reads
  <2> QED  BY <1>0, <1>1, <1>2, <2>1, <2>2, ProceedMoves DEF HandlerEffect, Running, Reads
<1>3. CASE /\ ec = "ok" /\ Conclude("READ_STATUS_DATA_ERROR", response, FALSE)
           /\ UNCHANGED <<reused, sendVars>>
  BY <1>0, <1>1, <1>3, ConcludeMoves, ResponseSame DEF HandlerEffect, Codes, Failure, Context
<1>4. CASE Restart
  BY <1>0, <1>1, <1>4, RestartMoves DEF HandlerEffect
<1>5. CASE /\ ec # "ok" /\ ~MayRestart
           /\ Fail("READ_STATUS_ERROR") /\ UNCHANGED <<reused, sendVars>>
  BY <1>0, <1>1, <1>5, FailMoves DEF HandlerEffect, Codes, Failure, StreamFits
<1> QED  BY <1>2, <1>3, <1>4, <1>5 DEF OnReadStatus

LEMMA HeadersMove == IInv /\ OnReadHeaders => HandlerEffect
<1> SUFFICES ASSUME IInv, OnReadHeaders PROVE HandlerEffect
  OBVIOUS
<1>0. Context /\ StreamFits /\ reused \in BOOLEAN /\ op = "read_headers"
  BY InvContext DEF IInv, TypeOK, OnReadHeaders, Ready
<1>1. UNCHANGED <<started, arming, expired>> /\ reused' \in BOOLEAN
  BY <1>0 DEF OnReadHeaders, Outside
<1>2. ASSUME NEW rsp \in ParsedHeaders, ReadContent(rsp)
      PROVE  Moves
  <2>1. SameCount(rsp)
    BY <1>0, <1>2 DEF ParsedHeaders, SameCount, Context, EndTyped, ResponseType
  <2>2. state \notin Final => IsOpen(stream)
    BY <1>0 DEF StreamFits, OnOpenSocket, Reads
  <2> QED  BY <1>0, <1>2, <2>1, <2>2, ContentMoves
<1>3. CASE Conclude("READ_HEADERS_ERROR", response, FALSE) /\ UNCHANGED sendVars
  BY <1>0, <1>1, <1>3, ConcludeMoves, ResponseSame DEF HandlerEffect, Codes, Failure, Context
<1>4. CASE Fail("READ_HEADERS_ERROR") /\ UNCHANGED sendVars
  BY <1>0, <1>1, <1>4, FailMoves DEF HandlerEffect, Codes, Failure, StreamFits
<1> QED  BY <1>1, <1>2, <1>3, <1>4 DEF OnReadHeaders, HandlerEffect

LEMMA ContentLengthMoves == IInv /\ OnReadContentLength => HandlerEffect
<1> SUFFICES ASSUME IInv, OnReadContentLength PROVE HandlerEffect
  OBVIOUS
<1>0. Context /\ StreamFits /\ SameCount(response) /\ reused \in BOOLEAN
  BY InvContext, ResponseSame DEF IInv, TypeOK, Context
<1>1. UNCHANGED <<started, arming, expired>> /\ reused' \in BOOLEAN
  BY <1>0 DEF OnReadContentLength, Outside
<1>2. CASE \E got \in BOOLEAN : SetSuccess(response, got)
  BY <1>0, <1>1, <1>2, SuccessMoves DEF HandlerEffect
<1>3. CASE Conclude("READ_CONTENT_LENGTH_ERROR", response, FALSE) /\ UNCHANGED sendVars
  BY <1>0, <1>1, <1>3, ConcludeMoves DEF HandlerEffect, Codes, Failure
<1>4. CASE Fail("READ_CONTENT_LENGTH_ERROR") /\ UNCHANGED sendVars
  BY <1>0, <1>1, <1>4, FailMoves DEF HandlerEffect, Codes, Failure, StreamFits
<1> QED  BY <1>2, <1>3, <1>4 DEF OnReadContentLength

LEMMA ChunkHeaderMoves == IInv /\ OnReadChunkHeader => HandlerEffect
<1> SUFFICES ASSUME IInv, OnReadChunkHeader PROVE HandlerEffect
  OBVIOUS
<1>0. /\ Context /\ StreamFits /\ SameCount(response) /\ reused \in BOOLEAN
      /\ op = "read_chunk_header"
  BY InvContext, ResponseSame DEF IInv, TypeOK, Context, OnReadChunkHeader, Ready
<1>1. UNCHANGED <<started, arming, expired>> /\ reused' \in BOOLEAN
  BY <1>0 DEF OnReadChunkHeader, Outside
<1>2. CASE \E got \in BOOLEAN : ReadChunks(response, got)
  <2>1. state \notin Final => IsOpen(stream)
    BY <1>0 DEF StreamFits, OnOpenSocket, Reads
  <2> QED  BY <1>0, <1>1, <1>2, <2>1, ChunksMove DEF HandlerEffect
<1>3. CASE SetSuccess(response, FALSE)
  BY <1>0, <1>1, <1>3, SuccessMoves DEF HandlerEffect
<1>4. CASE Fail("READ_CHUNK_HEADER_ERROR") /\ UNCHANGED sendVars
  BY <1>0, <1>1, <1>4, FailMoves DEF HandlerEffect, Codes, Failure, StreamFits
<1> QED  BY <1>2, <1>3, <1>4 DEF OnReadChunkHeader

LEMMA ChunkDataMoves == IInv /\ OnReadChunkData => HandlerEffect
<1> SUFFICES ASSUME IInv, OnReadChunkData PROVE HandlerEffect
  OBVIOUS
<1>0. /\ Context /\ StreamFits /\ SameCount(response) /\ reused \in BOOLEAN
      /\ op = "read_chunk_data"
  BY InvContext, ResponseSame DEF IInv, TypeOK, Context, OnReadChunkData, Ready
<1>1. UNCHANGED <<started, arming, expired>> /\ reused' \in BOOLEAN
  BY <1>0 DEF OnReadChunkData, Outside
<1>2. CASE \E got \in BOOLEAN : ReadChunks(response, got)
  <2>1. state \notin Final => IsOpen(stream)
    BY <1>0 DEF StreamFits, OnOpenSocket, Reads
  <2> QED  BY <1>0, <1>1, <1>2, <2>1, ChunksMove DEF HandlerEffect
<1>3. CASE Fail("READ_CHUNK_DATA_ERROR") /\ UNCHANGED sendVars
  BY <1>0, <1>1, <1>3, FailMoves DEF HandlerEffect, Codes, Failure, StreamFits
<1> QED  BY <1>2, <1>3 DEF OnReadChunkData

LEMMA UntilEofMoves == IInv /\ OnReadUntilEof => HandlerEffect
<1> SUFFICES ASSUME IInv, OnReadUntilEof PROVE HandlerEffect
  OBVIOUS
<1>0. /\ Context /\ StreamFits /\ SameCount(response) /\ reused \in BOOLEAN
      /\ op = "read_until_eof"
  BY InvContext, ResponseSame DEF IInv, TypeOK, Context, OnReadUntilEof, Ready
<1>1. UNCHANGED <<started, arming, expired>> /\ reused' \in BOOLEAN
  BY <1>0 DEF OnReadUntilEof, Outside
<1>2. CASE /\ Proceed("READ_UNTIL_EOF", "read_until_eof")
           /\ UNCHANGED <<response, raw, feed, sendVars>>
  <2>1. /\ SameCount(response') /\ raw' \in Body /\ feed' \in {"silent", "piece", "end"}
        /\ SendTyped' /\ request' = request
    BY <1>0, <1>2 DEF SameCount, Context, EndTyped, SendTyped, sendVars
  <2>2. state \notin Final => IsOpen(stream)
    BY <1>0 DEF StreamFits, OnOpenSocket, Reads
  <2> QED  BY <1>0, <1>1, <1>2, <2>1, <2>2, ProceedMoves DEF HandlerEffect, Running, Reads
<1>3. CASE \E got \in BOOLEAN : SetSuccess(response, got)
  BY <1>0, <1>1, <1>3, SuccessMoves DEF HandlerEffect
<1>4. CASE Conclude("READ_UNTIL_EOF_ERROR", response, FALSE) /\ UNCHANGED sendVars
  BY <1>0, <1>1, <1>4, ConcludeMoves DEF HandlerEffect, Codes, Failure
<1>5. CASE Fail("READ_UNTIL_EOF_ERROR") /\ UNCHANGED sendVars
  BY <1>0, <1>1, <1>5, FailMoves DEF HandlerEffect, Codes, Failure, StreamFits
<1> QED  BY <1>2, <1>3, <1>4, <1>5 DEF OnReadUntilEof

-----------------------------------------------------------------------------
(* The invariant holds initially and every action keeps it.                *)

\* One step of the promise: nothing, or its only outcome.
PromiseStep == Promise!Next \/ delivered' = delivered

\* What a step may do to an outcome that was delivered.
KeepsOutcome == delivered # <<>> => state' = state /\ delivered' = delivered

StepKeeps == IInv' /\ KeepsOutcome /\ PromiseStep

LEMMA InitIInv == Init => IInv
<1> SUFFICES ASSUME Init PROVE IInv
  OBVIOUS
<1>1. TypeOK
  <2>1. request \in RequestType
    BY RequestsAssumption DEF Init
  <2>2. response \in ResponseType
    BY DEF Init, FreshResponse, ResponseType, NoHeaders, Headers, Framing, Code, Body
  <2>3. stream \in StreamState
    BY DEF Init, StreamState
  <2>4. delivered \in Seq(Outcome)
    BY DEF Init
  <2>5. state \in Running /\ raw \in Body
    BY DEF Init, Running, Body
  <2>6. arming \in 0..2 /\ expired \in Nat /\ reqbuf \in Nat /\ sent \in Nat
    BY DEF Init
  <2>7. reused \in BOOLEAN /\ started \in BOOLEAN /\ timer \in BOOLEAN
    BY Zenon DEF Init
  <2> QED
    BY <2>1, <2>2, <2>3, <2>4, <2>5, <2>6, <2>7 DEF Init, TypeOK
<1>2. state \notin Final /\ delivered = <<>>
  BY DEF Init, Final, Failure
<1>3. DeliveredOnce /\ NeverExpired /\ RedirectBound /\ InFlight /\ TimerCovers
  BY <1>1, <1>2 DEF Init, DeliveredOnce, NeverExpired, RedirectBound, InFlight,
                    TimerCovers, FreshResponse, TypeOK
<1>4. StreamFits
  BY DEF Init, StreamFits, OnOpenSocket, Reads
<1> QED  BY <1>1, <1>3, <1>4 DEF IInv

\* The first outcome: what End, under its guard, means for the promise.
LEMMA FirstOutcome ==
  ASSUME DeliveredOnce, Ended
  PROVE  PromiseStep /\ DeliveredOnce'
<1>1. delivered = <<>> /\ state' \in Final
  BY StatesDisjoint DEF DeliveredOnce, Ended
<1>2. CASE held' /\ delivered' = delivered
  BY <1>1, <1>2 DEF PromiseStep, DeliveredOnce
<1>3. CASE ~held' /\ \E o \in Outcome : delivered' = Append(delivered, o)
  <2>1. PICK o \in Outcome : delivered' = <<o>>
    BY <1>1, <1>3
  <2> QED  BY <1>1, <1>3, <2>1 DEF PromiseStep, Promise!Next, Promise!Deliver, DeliveredOnce
<1> QED  BY <1>2, <1>3 DEF Ended

LEMMA HandlerKeeps == IInv /\ HandlerEffect => StepKeeps
<1> SUFFICES ASSUME IInv, HandlerEffect PROVE StepKeeps
  OBVIOUS
<1>1. TypeOK' /\ RedirectBound'
  BY TypeParts DEF HandlerEffect, Moves, IInv, TypeOK, EndTyped, ChainTyped, SendTyped
<1>2. CASE Kept
  <2>1. DeliveredOnce' /\ NeverExpired'
    BY <1>2, StatesDisjoint DEF IInv, Kept, DeliveredOnce, NeverExpired, Final
  <2>2. StreamFits' /\ InFlight' /\ TimerCovers'
    BY <1>2 DEF IInv, Kept, StreamFits, InFlight, TimerCovers, HandlerEffect
  <2>3. KeepsOutcome /\ PromiseStep
    BY <1>2 DEF IInv, Kept, DeliveredOnce, KeepsOutcome, PromiseStep
  <2> QED  BY <1>1, <2>1, <2>2, <2>3 DEF IInv, StepKeeps
<1>3. CASE Ended
  <2>1. DeliveredOnce' /\ PromiseStep /\ delivered = <<>>
    BY <1>3, FirstOutcome DEF IInv, DeliveredOnce, Ended
  <2>2. state' \in Final /\ NeverExpired'
    BY <1>3, StatesDisjoint DEF Ended, NeverExpired
  <2>3. StreamFits' /\ InFlight' /\ TimerCovers'
    BY <2>2 DEF StreamFits, InFlight, TimerCovers
  <2> QED  BY <1>1, <2>1, <2>2, <2>3 DEF IInv, StepKeeps, KeepsOutcome
<1> QED  BY <1>2, <1>3 DEF HandlerEffect, Moves

\* start() of the user thread starts the chain like a handler does, and owes
\* the timer.
LEMMA StartKeeps ==
  ASSUME IInv, Moves, Kept, ~started, started' = TRUE, arming' \in {1, 2},
         reused' \in BOOLEAN, UNCHANGED timerVars
  PROVE  StepKeeps
<1>1. TypeOK' /\ RedirectBound'
  BY TypeParts DEF Moves, IInv, TypeOK, EndTyped, ChainTyped, SendTyped, timerVars
<1>2. DeliveredOnce' /\ NeverExpired'
  BY StatesDisjoint DEF IInv, Kept, DeliveredOnce, NeverExpired, Final
<1>3. StreamFits' /\ InFlight' /\ TimerCovers'
  <2>1. state \notin Final => StreamFits' /\ InFlight'
    BY DEF Kept, InFlight
  <2>2. state \in Final => StreamFits' /\ InFlight'
    BY DEF Kept, StreamFits, InFlight
  <2>3. TimerCovers'
    BY DEF TimerCovers
  <2> QED  BY <2>1, <2>2, <2>3
<1>4. KeepsOutcome /\ PromiseStep
  BY DEF IInv, Kept, DeliveredOnce, KeepsOutcome, PromiseStep
<1> QED  BY <1>1, <1>2, <1>3, <1>4 DEF IInv, StepKeeps

LEMMA UserKeeps == IInv /\ User => StepKeeps
<1> SUFFICES ASSUME IInv, User PROVE StepKeeps
  OBVIOUS
<1>0. Context /\ TypeOK
  BY InvContext DEF IInv
<1>1. CASE StartFresh
  <2>1. /\ ~started /\ started' = TRUE /\ arming' \in {1, 2}
        /\ reused' \in BOOLEAN /\ UNCHANGED timerVars
    BY <1>0, <1>1 DEF StartFresh, Starting, TypeOK
  <2>2. EndTyped' /\ ChainTyped' /\ SendTyped'
    BY <1>0, <1>1
    DEF StartFresh, Starting, ResolveAnew, Issue, After, Context, EndTyped, ChainTyped,
        SendTyped, StreamState, Running, Body, Operation, OnOpenSocket, Reads, timerVars
  <2>3. RedirectBound'
    BY <1>0, <1>1 DEF StartFresh, RedirectBound, Context
  <2>4. Kept
    BY <1>0, <1>1, StatesDisjoint
    DEF StartFresh, Starting, ResolveAnew, Issue, After, Context, Kept, StreamFits,
        OnOpenSocket, Reads, Running, timerVars
  <2> QED  BY <2>1, <2>2, <2>3, <2>4, StartKeeps DEF Moves
<1>2. CASE StartReused
  <2>1. /\ ~started /\ started' = TRUE /\ arming' \in {1, 2}
        /\ reused' \in BOOLEAN /\ UNCHANGED timerVars
    BY <1>0, <1>2 DEF StartReused, Starting, TypeOK
  <2>2. Moves
    BY <1>0, <1>2, WriteMoves DEF StartReused, Starting, timerVars, TypeOK
  <2>3. ~Ended
    BY <1>2 DEF StartReused, Ended, Write, After, Codes, Failure
  <2> QED  BY <2>1, <2>2, <2>3, StartKeeps DEF Moves
<1>3. CASE StartClosed
  <2>1. /\ ~started /\ started' = TRUE /\ arming' \in {1, 2}
        /\ reused' \in BOOLEAN /\ UNCHANGED timerVars
    BY <1>3 DEF StartClosed, Starting, Reconnect
  <2>2. EndTyped' /\ ChainTyped' /\ SendTyped'
    BY <1>0, <1>3
    DEF StartClosed, Starting, Reconnect, ResolveAnew, Issue, After, Context, EndTyped,
        ChainTyped, SendTyped, StreamState, Running, Body, Operation, OnOpenSocket, Reads,
        timerVars
  <2>3. RedirectBound'
    BY <1>0, <1>3 DEF StartClosed, Reconnect, RedirectBound, Context
  <2>4. Kept
    BY <1>0, <1>3, StatesDisjoint
    DEF StartClosed, Starting, Reconnect, ResolveAnew, Issue, After, Context, Kept,
        StreamFits, OnOpenSocket, Reads, Running, timerVars
  <2> QED  BY <2>1, <2>2, <2>3, <2>4, StartKeeps DEF Moves
<1>4. CASE Arm
  <2>1. TypeOK'
    BY <1>0, <1>4 DEF Arm, TypeOK
  <2> QED
    BY <1>4, <2>1
    DEF IInv, Arm, StepKeeps, KeepsOutcome, PromiseStep, DeliveredOnce, NeverExpired,
        RedirectBound, StreamFits, InFlight, TimerCovers
<1>5. CASE TakeStream
  <2>1. TypeOK'
    BY <1>0, <1>5 DEF TakeStream, TypeOK, StreamState
  <2>2. state \in Final
    BY <1>5 DEF TakeStream, IInv, DeliveredOnce
  <2> QED
    BY <1>5, <2>1, <2>2
    DEF IInv, TakeStream, StepKeeps, KeepsOutcome, PromiseStep, DeliveredOnce, NeverExpired,
        RedirectBound, StreamFits, InFlight, TimerCovers
<1> QED  BY <1>1, <1>2, <1>3, <1>4, <1>5 DEF User

\* The server closes: end(), which has been waiting, gives the promise its outcome.
LEMMA PeerKeeps == IInv /\ PeerCloses => StepKeeps
<1> SUFFICES ASSUME IInv, PeerCloses PROVE StepKeeps
  OBVIOUS
<1>0. Context /\ TypeOK /\ DeliveredOnce /\ NeverExpired /\ RestTyped
  BY InvContext, TypeParts DEF IInv
<1>1. state \in Final /\ delivered = <<>> /\ state \in Codes
  BY <1>0 DEF PeerCloses, DeliveredOnce, NeverExpired, Final, Codes
<1>2. /\ stream' \in StreamState /\ response' \in ResponseType /\ raw' \in Body
      /\ feed' \in {"silent", "piece", "end"} /\ delivered' \in Seq(Outcome)
      /\ \E o \in Outcome : delivered' = Append(delivered, o)
      /\ response'.redirect_count = response.redirect_count
  <2>1. response \in ResponseType /\ raw \in Body /\ HandOver(state, response, raw)
    BY <1>0 DEF PeerCloses, TypeOK
  <2> QED  BY <1>0, <1>1, <2>1, HandOverType DEF Context
<1>3. /\ UNCHANGED <<request, reused, state, op, ec, started, arming, timer, expired,
                     dispose, reqbuf, sent, shown>>
      /\ held' = FALSE
  BY DEF PeerCloses
<1>4. TypeOK'
  <2>1. EndTyped'
    BY <1>0, <1>2, <1>3 DEF EndTyped, Context
  <2>2. ChainTyped' /\ SendTyped' /\ RestTyped'
    BY <1>0, <1>3 DEF Context, ChainTyped, SendTyped, RestTyped
  <2> QED  BY <2>1, <2>2, TypeParts, PTL
<1>5. PICK o \in Outcome : delivered' = <<o>>
  BY <1>1, <1>2
<1>6. PromiseStep
  BY <1>1, <1>5 DEF PromiseStep, Promise!Next, Promise!Deliver
<1>7. DeliveredOnce' /\ NeverExpired' /\ RedirectBound'
  BY <1>0, <1>1, <1>2, <1>3, <1>5 DEF DeliveredOnce, NeverExpired, RedirectBound, Context
<1>8. StreamFits' /\ InFlight' /\ TimerCovers' /\ KeepsOutcome
  BY <1>1, <1>3 DEF StreamFits, InFlight, TimerCovers, KeepsOutcome
<1> QED  BY <1>4, <1>6, <1>7, <1>8 DEF IInv, StepKeeps

LEMMA WorldKeeps == IInv /\ World => StepKeeps
<1> SUFFICES ASSUME IInv, World PROVE StepKeeps
  OBVIOUS
<1>1. CASE Complete
  <2>1. ec' \in Result /\ ec' # "aborted"
    BY <1>1 DEF Complete, Results, Result
  <2>2. TypeOK'
    BY <1>1, <2>1 DEF IInv, Complete, TypeOK
  <2> QED
    BY <1>1, <2>1, <2>2
    DEF IInv, Complete, StepKeeps, KeepsOutcome, PromiseStep, DeliveredOnce, NeverExpired,
        RedirectBound, StreamFits, InFlight, TimerCovers
<1>2. CASE Elapse
  <2>1. expired' \in Nat /\ expired' > 0 /\ timer' = FALSE
    BY <1>2 DEF IInv, Elapse, TypeOK
  <2>2. TypeOK'
    <3>1. UNCHANGED <<request, reused, state, stream, op, ec, started, arming, dispose,
                      response, raw, reqbuf, sent, feed, held, shown, delivered>>
      BY <1>2 DEF Elapse
    <3>2. TypeOK /\ timer' \in BOOLEAN /\ expired' \in Nat
      BY <2>1 DEF IInv
    <3>3. EndTyped /\ ChainTyped /\ SendTyped /\ RestTyped
      BY <3>2, TypeParts
    <3>4. EndTyped'
      BY <3>1, <3>2, <3>3, Zenon DEF EndTyped
    <3>5. ChainTyped' /\ SendTyped'
      BY <3>1, <3>3, Zenon DEF ChainTyped, SendTyped
    <3>6. RestTyped'
      BY <3>1, <3>2, <3>3, Zenon DEF RestTyped
    <3> QED  BY <3>4, <3>5, <3>6, TypeParts, PTL
  <2> QED
    BY <1>2, <2>1, <2>2
    DEF IInv, Elapse, StepKeeps, KeepsOutcome, PromiseStep, DeliveredOnce, NeverExpired,
        RedirectBound, StreamFits, InFlight, TimerCovers
<1>3. CASE ElapseDispose
  <2>1. TypeOK'
    BY <1>3 DEF IInv, ElapseDispose, TypeOK
  <2> QED
    BY <1>3, <2>1
    DEF IInv, ElapseDispose, StepKeeps, KeepsOutcome, PromiseStep, DeliveredOnce,
        NeverExpired, RedirectBound, StreamFits, InFlight, TimerCovers
<1>4. CASE PeerCloses
  BY <1>4, PeerKeeps
<1> QED  BY <1>1, <1>2, <1>3, <1>4 DEF World

\* on_timeout(): set_timeout() delivers TIMEOUT, or closes the stream of a
\* connection that has delivered; either way nothing is delivered twice.
LEMMA TimeoutKeeps == IInv /\ OnTimeout => StepKeeps
<1> SUFFICES ASSUME IInv, OnTimeout PROVE StepKeeps
  OBVIOUS
<1>0. Context /\ TypeOK /\ DeliveredOnce /\ RestTyped /\ NeverExpired
  BY InvContext, TypeParts DEF IInv
<1>1. /\ expired' \in Nat /\ op' = op
      /\ UNCHANGED <<reused, started, arming, request, reqbuf, sent>>
  <2>1. expired' \in Nat
    BY <1>0 DEF OnTimeout, TypeOK
  <2>2. op' = op
    BY DEF OnTimeout, chainVars
  <2>3. UNCHANGED <<reused, started, arming, request, reqbuf, sent>>
    BY DEF OnTimeout, callerVars, sendVars
  <2> QED  BY <2>1, <2>2, <2>3
<1>2. ec' \in Result \cup {"waiting"}
  BY <1>0 DEF OnTimeout, ResultAfterEnd, TypeOK, Result, chainVars
<1>3. RestTyped' /\ ChainTyped' /\ SendTyped'
  BY <1>0, <1>1, <1>2 DEF RestTyped, ChainTyped, SendTyped, Context
<1>4. CASE state \notin Final /\ End("TIMEOUT", response, FALSE)
  <2>1. /\ EndTyped'
        /\ response'.redirect_count = response.redirect_count
        /\ \/ held' /\ delivered' = delivered
           \/ ~held' /\ \E o \in Outcome : delivered' = Append(delivered, o)
    BY <1>0, <1>4, EndType DEF Context, Codes, Failure, EndTyped
  <2>2. RedirectBound'
    BY <1>0, <1>1, <2>1 DEF RedirectBound, Context
  <2>3. Ended
    BY <1>4, <2>1 DEF End, Ended, Codes, Failure
  <2>4. DeliveredOnce' /\ PromiseStep /\ delivered = <<>>
    BY <1>0, <2>3, FirstOutcome DEF DeliveredOnce, Ended
  <2>5. state' \in Final /\ NeverExpired'
    BY <2>3, StatesDisjoint DEF Ended, NeverExpired
  <2>6. StreamFits' /\ InFlight' /\ TimerCovers'
    BY <2>5 DEF StreamFits, InFlight, TimerCovers
  <2>7. TypeOK'
    BY <1>3, <2>1, TypeParts, PTL
  <2> QED
    BY <2>2, <2>4, <2>5, <2>6, <2>7 DEF IInv, StepKeeps, KeepsOutcome
<1>5. CASE state \in Final
  <2>1. /\ stream' \in {stream, "closed"}
        /\ UNCHANGED <<state, timer, dispose, response, raw, feed, held, shown, delivered>>
    BY <1>5 DEF OnTimeout, endVars
  <2>2. EndTyped'
    BY <1>0, <2>1 DEF Context, EndTyped, StreamState
  <2>3. TypeOK'
    BY <1>3, <2>2, TypeParts, PTL
  <2>4. RedirectBound' /\ DeliveredOnce' /\ NeverExpired'
    BY <1>0, <1>1, <2>1 DEF RedirectBound, Context, DeliveredOnce, NeverExpired
  <2>5. StreamFits' /\ InFlight' /\ TimerCovers'
    BY <1>5, <2>1 DEF StreamFits, InFlight, TimerCovers
  <2> QED
    BY <2>1, <2>3, <2>4, <2>5 DEF IInv, StepKeeps, KeepsOutcome, PromiseStep
<1> QED  BY <1>4, <1>5 DEF OnTimeout

\* on_dispose_timer() finds a final state, and set_state() leaves it.
LEMMA DisposeKeeps == IInv /\ OnDispose => StepKeeps
<1> SUFFICES ASSUME IInv, OnDispose PROVE StepKeeps
  OBVIOUS
<1>1. state \in Final /\ state # "EXPIRED"
  BY DEF IInv, OnDispose, NeverExpired
<1>2. state' = state /\ dispose' = "done"
  BY <1>1 DEF OnDispose, After
<1>3. TypeOK'
  BY <1>2 DEF IInv, TypeOK, OnDispose
<1> QED
  BY <1>1, <1>2, <1>3
  DEF IInv, OnDispose, StepKeeps, KeepsOutcome, PromiseStep, DeliveredOnce, NeverExpired,
      RedirectBound, StreamFits, InFlight, TimerCovers

\* A step of the world outside changes nothing here.
LEMMA StutterKeeps == IInv /\ UNCHANGED vars => StepKeeps
BY DEF IInv, TypeOK, vars, StepKeeps, KeepsOutcome, PromiseStep, DeliveredOnce, NeverExpired,
       RedirectBound, StreamFits, InFlight, TimerCovers

\* Every step keeps the invariant, any outcome already delivered, and the
\* promise.
LEMMA NextKeeps == IInv /\ [Next]_vars => StepKeeps
<1> SUFFICES ASSUME IInv, [Next]_vars PROVE StepKeeps
  OBVIOUS
<1>1. CASE User
  BY <1>1, UserKeeps
<1>2. CASE World
  BY <1>2, WorldKeeps
<1>3. CASE Handler
  BY <1>3, HandlerKeeps, TimeoutKeeps, DisposeKeeps, ResolveMoves, ConnectMoves,
     HandshakeMoves, WriteDoneMoves, StatusMoves, HeadersMove, ContentLengthMoves,
     ChunkHeaderMoves, ChunkDataMoves, UntilEofMoves
  DEF Handler
<1>4. CASE UNCHANGED vars
  BY <1>4, StutterKeeps
<1> QED  BY <1>1, <1>2, <1>3, <1>4 DEF Next

-----------------------------------------------------------------------------
(* The theorems.                                                           *)

\* Whatever options the requests have, the invariant holds in every state a
\* connection can reach.
THEOREM Invariance == Spec => []IInv
<1>1. Init => IInv
  BY InitIInv
<1>2. IInv /\ [Next]_vars => IInv'
  BY NextKeeps DEF StepKeeps
<1> QED  BY <1>1, <1>2, PTL DEF Spec

\* The state of a connection is always well typed.
THEOREM TypeCorrect == Spec => []TypeOK
<1>1. IInv => TypeOK
  BY DEF IInv
<1> QED  BY <1>1, Invariance, PTL

\* end() runs at most once, and exactly when the state is final.
THEOREM DeliversOnce == Spec => []DeliveredOnce
<1>1. IInv => DeliveredOnce
  BY DEF IInv
<1> QED  BY <1>1, Invariance, PTL

\* Once start() has returned, a connection without an outcome has its timeout
\* pending or queued.
THEOREM TimeoutPending == Spec => []TimerCovers
<1>1. IInv => TimerCovers
  BY DEF IInv
<1> QED  BY <1>1, Invariance, PTL

\* A connection without an outcome waits for an operation of its chain, or was told
\* not to follow a redirect.
THEOREM ChainGoesOn == Spec => []InFlight
<1>1. IInv => InFlight
  BY DEF IInv
<1> QED  BY <1>1, Invariance, PTL

\* What connects, shakes hands, writes or reads has the socket it needs.
THEOREM SocketFits == Spec => []StreamFits
<1>1. IInv => StreamFits
  BY DEF IInv
<1> QED  BY <1>1, Invariance, PTL

\* perform_redirect() keeps within the redirect_count of the request.
THEOREM RedirectsBounded == Spec => []RedirectBound
<1>1. IInv => RedirectBound
  BY DEF IInv
<1> QED  BY <1>1, Invariance, PTL

\* set_dispose() expires no connection.
THEOREM Unexpired == Spec => []NeverExpired
<1>1. IInv => NeverExpired
  BY DEF IInv
<1> QED  BY <1>1, Invariance, PTL

\* What was delivered is never changed, by no handler, timer or redirect.
THEOREM OutcomeStays == Spec => OutcomeKept
<1>1. IInv /\ [Next]_vars => [KeepsOutcome]_vars
  BY NextKeeps DEF StepKeeps
<1>2. KeepsOutcome => (delivered # <<>> => state' = state /\ delivered' = delivered)
  BY DEF KeepsOutcome
<1> QED  BY <1>1, <1>2, Invariance, PTL DEF Spec, OutcomeKept

\* A connection implements what Delivery promises of safety: the promise is
\* given one outcome, in one step, and never another.
THEOREM ImplementsDelivery == Spec => Promise!Spec
<1>1. Init => Promise!Init
  BY DEF Init, Promise!Init
<1>2. IInv /\ [Next]_vars => [Promise!Next]_delivered
  BY NextKeeps DEF StepKeeps, PromiseStep
<1> QED  BY <1>1, <1>2, Invariance, PTL DEF Spec, Promise!Spec
=============================================================================
