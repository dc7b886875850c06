---------------------------- MODULE AnswerProofs ----------------------------
(***************************************************************************)
(* Theorems about what a connection makes of the answer: whose body it is, *)
(* what the callbacks are told of it, and what becomes of the stream.      *)
(* They rest on the invariant of ConnectionProofs.                         *)
(***************************************************************************)
EXTENDS ConnectionProofs

BodyOps == {"read_content_length", "read_chunk_header", "read_chunk_data", "read_until_eof"}

(* Not inductive alone: end() moves raw into the response, so a request with a *)
(* body_callback must leave raw empty, and late handlers change the response,  *)
(* so after a success there must be none.  An end() that has to wait has shown *)
(* what it will deliver.                                                       *)
AInv ==
  /\ CallbacksTold /\ BodyOfThisAnswer /\ ServerCloses
  /\ held => shown.state = state
  /\ request.body_callback => raw = "empty"
  /\ ~started => /\ raw = "empty" /\ op = "none" /\ state \notin Final
                 /\ arming = 0 /\ ~timer /\ expired = 0
  /\ state = "SUCCESS" => op = "none"

\* A handler of the chain leaves the outcome alone,
Quiet ==
  /\ shown' = shown /\ delivered' = delivered /\ held' = held
  /\ feed # "silent" => feed' # "silent"
  /\ state \in Final => state' = state
  /\ state \notin Final =>
       /\ state' \notin Final
       /\ raw' = "data" => \/ op' \in BodyOps
                           \/ op' = "none" /\ response'.code = "moved"

\* or decides it, and tells the callbacks.
Given(code) ==
  \E o \in Outcome :
    /\ delivered' = <<o>> /\ o.state = code
    /\ request.body_callback => o.body = "empty" /\ feed' # "silent"

Tells ==
  /\ state \notin Final /\ delivered = <<>> /\ state' \in Codes
  /\ shown'.state = state'
  /\ \/ held' /\ delivered' = <<>>
     \/ ~held' /\ Given(state')
  /\ state' = "SUCCESS" => op' = "none"
  /\ ServerCloses'

Answers ==
  /\ request'.body_callback = request.body_callback
  /\ request.body_callback => raw' = "empty"
  /\ Quiet \/ Tells

\* What a handler of the chain finds.
Handling == IInv /\ AInv /\ op # "none" /\ ~held

LEMMA HandlingContext ==
  ASSUME Handling
  PROVE  /\ Context /\ SameCount(response) /\ state # "SUCCESS"
         /\ state \notin Final => delivered = <<>> /\ ec # "aborted"
         /\ op \in OnOpenSocket /\ state \notin Final => IsOpen(stream)
BY InvContext, ResponseSame DEF Handling, AInv, IInv, DeliveredOnce, StreamFits, Context

\* Pieces of the body go to the body_callback, or to raw.
LEMMA BodyGoes ==
  ASSUME Handling, NEW got \in BOOLEAN
  PROVE  /\ request.body_callback => RawWith(got) = "empty"
         /\ feed # "silent" => FeedWith(got) # "silent"
         /\ RawWith(got) \in Body
BY DEF Handling, AInv, RawWith, FeedWith, IInv, TypeOK, Body

\* The second half of end(), before anything was delivered.
LEMMA HandOverTells ==
  ASSUME delivered = <<>>, NEW code \in Codes, NEW rsp \in ResponseType,
         NEW bytes \in Body, request.body_callback => bytes = "empty",
         HandOver(code, rsp, bytes), request' = request
  PROVE  Given(code) /\ ServerCloses' /\ raw' = "empty"
<1>1. Given(code)
  <2>0. request.body_callback => feed' # "silent"
    BY DEF HandOver
  <2>1. CASE code # "SUCCESS" /\ request.throw_on_error
    <3> DEFINE o == [how |-> "exception", state |-> code, body |-> "empty"]
    <3>1. o \in Outcome
      BY DEF Outcome, Codes, Body
    <3>2. delivered' = <<o>>
      BY <2>1 DEF HandOver
    <3> QED BY <2>0, <3>1, <3>2 DEF Given
  <2>2. CASE ~(code # "SUCCESS" /\ request.throw_on_error)
    <3> DEFINE o == [how |-> "value", state |-> code, body |-> bytes]
    <3>1. o \in Outcome
      BY DEF Outcome, Codes, Body
    <3>2. delivered' = <<o>>
      BY <2>2 DEF HandOver
    <3> QED BY <2>0, <3>1, <3>2 DEF Given
  <2> QED BY <2>1, <2>2
<1>2. ServerCloses'
  <2> SUFFICES ASSUME request.keep_alive, response'.headers.close
               PROVE  ~IsOpen(stream')
    BY DEF ServerCloses, IsOpen
  <2>1. response'.headers.close = rsp.headers.close
    BY DEF HandOver, ResponseType
  <2>2. Closing(rsp) /\ ~Cancelling
    BY <2>1 DEF Closing, Cancelling
  <2> QED BY <2>2 DEF HandOver, StreamAfterEnd, IsOpen
<1>3. raw' = "empty"
  BY DEF HandOver
<1> QED BY <1>1, <1>2, <1>3

\* end(), before anything was delivered.
LEMMA EndTells ==
  ASSUME IInv, AInv, state \notin Final, NEW code \in Codes, NEW rsp \in ResponseType,
         NEW got \in BOOLEAN, request.body_callback => RawWith(got) = "empty",
         RawWith(got) \in Body,
         End(code, rsp, got), request' = request, code = "SUCCESS" => op' = "none"
  PROVE  Tells /\ (request.body_callback => raw' = "empty")
<1>1. delivered = <<>> /\ state' = code /\ shown'.state = code
  BY DEF IInv, DeliveredOnce, End
<1>2. CASE held' = TRUE /\ raw' = RawWith(got) /\ UNCHANGED <<stream, delivered>>
  BY <1>1, <1>2 DEF Tells, ServerCloses
<1>3. CASE held' = FALSE /\ HandOver(code, rsp, RawWith(got))
  BY <1>1, <1>3, HandOverTells DEF Tells
<1> QED BY <1>2, <1>3 DEF End

-----------------------------------------------------------------------------
(* The operators of the chain.                                             *)

LEMMA ConcludeAnswers ==
  ASSUME Handling, NEW code \in Codes, NEW rsp \in ResponseType, NEW got \in BOOLEAN,
         Conclude(code, rsp, got), UNCHANGED sendVars
  PROVE  Answers
<1>1. op' = "none" /\ request' = request
  BY DEF Conclude, Stop, sendVars
<1>2. CASE state \in Final /\ Absorb(rsp, got)
  BY <1>1, <1>2, BodyGoes DEF Absorb, Answers, Quiet
<1>3. CASE state \notin Final /\ End(code, rsp, got)
  <2>1. Tells /\ (request.body_callback => raw' = "empty")
    BY <1>1, <1>3, BodyGoes, EndTells DEF Handling
  <2> QED BY <1>1, <2>1 DEF Answers
<1> QED BY <1>2, <1>3 DEF Conclude

LEMMA FailAnswers ==
  ASSUME Handling, NEW code \in Codes, Fail(code), UNCHANGED sendVars
  PROVE  Answers
<1>1. CASE ec = "aborted" /\ Stop /\ UNCHANGED endVars
  BY <1>1, HandlingContext DEF Answers, Quiet, endVars, sendVars, Handling, AInv
<1>2. CASE ec # "aborted" /\ Conclude(code, response, FALSE)
  BY <1>2, ConcludeAnswers, HandlingContext DEF SameCount
<1> QED BY <1>1, <1>2 DEF Fail

\* The chain reads on.
LEMMA ProceedAnswers ==
  ASSUME Handling, NEW s \in Running, NEW o \in Reads, Proceed(s, o), request' = request,
         op \in OnOpenSocket, request.body_callback => raw' = "empty",
         feed # "silent" => feed' # "silent",
         state \notin Final /\ raw' = "data" => o \in BodyOps
  PROVE  Answers
<1>1. shown' = shown /\ delivered' = delivered /\ held' = held
  BY DEF Proceed
<1>2. /\ state \in Final => state' = state
      /\ state \notin Final => state' \notin Final
  BY HandlingContext, StatesDisjoint DEF Proceed, After, Context
<1>3. state \notin Final => op' = o
  BY HandlingContext DEF Proceed, Issue, Reads
<1> QED BY <1>1, <1>2, <1>3 DEF Answers, Quiet

\* A new stream, for a redirect or a second attempt.
LEMMA AnewAnswers ==
  ASSUME Handling, ResolveAnew, request'.body_callback = request.body_callback,
         UNCHANGED <<held, shown, delivered>>, feed # "silent" => feed' # "silent"
  PROVE  Answers
<1>1. raw' = "empty"
  BY DEF ResolveAnew
<1>2. /\ state \in Final => state' = state
      /\ state \notin Final => state' \notin Final
  BY HandlingContext, StatesDisjoint DEF ResolveAnew, After, Context, Running
<1> QED BY <1>1, <1>2 DEF Answers, Quiet

LEMMA SuccessAnswers ==
  ASSUME Handling, NEW rsp \in ResponseType, NEW got \in BOOLEAN, SetSuccess(rsp, got)
  PROVE  Answers
<1>1. CASE Conclude("SUCCESS", rsp, got) /\ UNCHANGED sendVars
  BY <1>1, ConcludeAnswers DEF Codes
<1>2. CASE /\ rsp.code = "moved" /\ Stop /\ Absorb(rsp, got) /\ UNCHANGED sendVars
  BY <1>2, BodyGoes DEF Answers, Quiet, Stop, Absorb, sendVars
<1>3. CASE PerformRedirect(rsp, got)
  <2>1. CASE Conclude("REDIRECT_EXHAUSTED", rsp, got) /\ UNCHANGED sendVars
    BY <2>1, ConcludeAnswers DEF Codes, Failure
  <2>2. CASE Conclude("REDIRECT_ERROR", rsp, got) /\ UNCHANGED sendVars
    BY <2>2, ConcludeAnswers DEF Codes, Failure
  <2>3. CASE feed' = FeedWith(got) /\ FollowRedirect(rsp)
    <3>1. request'.body_callback = request.body_callback
      BY <2>3 DEF FollowRedirect, Handling, IInv, TypeOK
    <3> QED BY <2>3, <3>1, AnewAnswers, BodyGoes DEF FollowRedirect
  <2> QED BY <1>3, <2>1, <2>2, <2>3 DEF PerformRedirect
<1> QED BY <1>1, <1>2, <1>3 DEF SetSuccess

LEMMA ChunksAnswer ==
  ASSUME Handling, op \in OnOpenSocket, NEW rsp \in ResponseType, NEW got \in BOOLEAN,
         ReadChunks(rsp, got)
  PROVE  Answers
<1>1. CASE /\ \/ Proceed("READ_CHUNK_HEADER", "read_chunk_header")
              \/ Proceed("READ_CHUNK_DATA", "read_chunk_data")
           /\ response' = rsp /\ raw' = RawWith(got) /\ feed' = FeedWith(got)
           /\ UNCHANGED sendVars
  <2>1. /\ request' = request /\ (request.body_callback => raw' = "empty")
        /\ feed # "silent" => feed' # "silent"
    BY <1>1, BodyGoes DEF sendVars
  <2> QED BY <1>1, <2>1, ProceedAnswers DEF Running, Reads, BodyOps
<1>2. CASE Conclude("READ_CHUNK_HEADER_ERROR", rsp, got) /\ UNCHANGED sendVars
  BY <1>2, ConcludeAnswers DEF Codes, Failure
<1>3. CASE Conclude("READ_CHUNK_DATA_ERROR", rsp, got) /\ UNCHANGED sendVars
  BY <1>3, ConcludeAnswers DEF Codes, Failure
<1>4. CASE SetSuccess(rsp, got)
  BY <1>4, SuccessAnswers
<1> QED BY <1>1, <1>2, <1>3, <1>4 DEF ReadChunks

-----------------------------------------------------------------------------
(* The handlers.                                                           *)

\* Before the body is read a handler that goes on leaves raw alone.
LEMMA PassAnswers ==
  ASSUME Handling, op \notin BodyOps, NEW s \in Running, state' = After(s),
         UNCHANGED <<request, raw, feed, held, shown, delivered>>
  PROVE  Answers
<1>1. state \notin Final => raw = "empty"
  BY DEF Handling, AInv, IInv, TypeOK, BodyOfThisAnswer, BodyOps, Body
<1>2. /\ state \in Final => state' = state
      /\ state \notin Final => state' \notin Final
  BY HandlingContext, StatesDisjoint DEF After, Context
<1> QED BY <1>1, <1>2 DEF Answers, Quiet, Handling, AInv

LEMMA RestartAnswers == Handling /\ Restart => Answers
BY AnewAnswers DEF Restart, Reconnect

LEMMA ContentAnswers ==
  ASSUME Handling, op = "read_headers", NEW rsp \in ResponseType, ReadContent(rsp)
  PROVE  Answers
<1>1. CASE /\ Proceed("READ_CONTENT_LENGTH", "read_content_length")
           /\ response' = rsp /\ UNCHANGED <<raw, feed, sendVars>>
  BY <1>1, PassAnswers DEF Proceed, Running, BodyOps, sendVars
<1>2. CASE \E got \in BOOLEAN : ReadChunks(rsp, got)
  BY <1>2, ChunksAnswer DEF OnOpenSocket, Reads
<1>3. CASE /\ Proceed("READ_UNTIL_EOF", "read_until_eof")
           /\ response' = rsp /\ UNCHANGED <<raw, feed, sendVars>>
  BY <1>3, PassAnswers DEF Proceed, Running, BodyOps, sendVars
<1> QED BY <1>1, <1>2, <1>3 DEF ReadContent

Chain ==
  \/ OnResolve \/ OnConnect \/ OnHandshake \/ OnWrite \/ OnReadStatus \/ OnReadHeaders
  \/ OnReadContentLength \/ OnReadChunkHeader \/ OnReadChunkData \/ OnReadUntilEof

LEMMA OpeningAnswers ==
  ASSUME Handling, OnResolve \/ OnConnect \/ OnHandshake
  PROVE  Answers
<1>1. CASE OnResolve
  <2>1. op \notin BodyOps
    BY <1>1 DEF OnResolve, Ready, BodyOps
  <2>2. CASE ec = "ok"
    <3>1. state' = After("CONNECT") /\ UNCHANGED <<request, raw, feed, held, shown, delivered>>
      BY <1>1, <2>2 DEF OnResolve, sendVars
    <3> QED BY <2>1, <3>1, PassAnswers DEF Running
  <2>3. CASE ec # "ok"
    BY <1>1, <2>3, FailAnswers DEF OnResolve, Codes, Failure
  <2> QED BY <2>2, <2>3
<1>2. CASE OnConnect
  <2>1. op \notin BodyOps
    BY <1>2 DEF OnConnect, Ready, BodyOps
  <2>2. CASE ec = "ok"
    <3>1. /\ state' = After("HANDSHAKE") \/ state' = After("WRITE")
          /\ UNCHANGED <<request, raw, feed, held, shown, delivered>>
      BY <1>2, <2>2 DEF OnConnect, Write
    <3> QED BY <2>1, <3>1, PassAnswers DEF Running
  <2>3. CASE ec # "ok"
    BY <1>2, <2>3, FailAnswers DEF OnConnect, Codes, Failure, sendVars
  <2> QED BY <2>2, <2>3
<1>3. CASE OnHandshake
  <2>1. op \notin BodyOps
    BY <1>3 DEF OnHandshake, Ready, BodyOps
  <2>2. CASE ec = "ok"
    <3>1. state' = After("WRITE") /\ UNCHANGED <<request, raw, feed, held, shown, delivered>>
      BY <1>3, <2>2 DEF OnHandshake, Write
    <3> QED BY <2>1, <3>1, PassAnswers DEF Running
  <2>3. CASE ec # "ok"
    BY <1>3, <2>3, FailAnswers DEF OnHandshake, Codes, Failure, sendVars
  <2> QED BY <2>2, <2>3
<1> QED BY <1>1, <1>2, <1>3

LEMMA AskingAnswers ==
  ASSUME Handling, OnWrite \/ OnReadStatus \/ OnReadHeaders
  PROVE  Answers
<1>0. response \in ResponseType
  BY HandlingContext DEF SameCount
<1>1. CASE OnWrite
  <2>1. op \notin BodyOps
    BY <1>1 DEF OnWrite, Ready, BodyOps
  <2>2. CASE ec = "ok" /\ Proceed("READ_STATUS", "read_status")
             /\ UNCHANGED <<request, reused, response, raw, feed>>
    BY <2>1, <2>2, PassAnswers DEF Proceed, Running
  <2>3. CASE Restart
    BY <2>3, RestartAnswers
  <2>4. CASE Fail("WRITE_ERROR") /\ UNCHANGED <<reused, sendVars>>
    BY <2>4, FailAnswers DEF Codes, Failure
  <2> QED BY <1>1, <2>2, <2>3, <2>4 DEF OnWrite
<1>2. CASE OnReadStatus
  <2>1. op \notin BodyOps
    BY <1>2 DEF OnReadStatus, Ready, BodyOps
  <2>2. CASE ec = "ok" /\ Proceed("READ_HEADERS", "read_headers")
             /\ UNCHANGED <<reused, sendVars, raw, feed>>
    BY <2>1, <2>2, PassAnswers DEF Proceed, Running, sendVars
  <2>3. CASE Conclude("READ_STATUS_DATA_ERROR", response, FALSE)
             /\ UNCHANGED <<reused, sendVars>>
    BY <1>0, <2>3, ConcludeAnswers DEF Codes, Failure
  <2>4. CASE Restart
    BY <2>4, RestartAnswers
  <2>5. CASE Fail("READ_STATUS_ERROR") /\ UNCHANGED <<reused, sendVars>>
    BY <2>5, FailAnswers DEF Codes, Failure
  <2> QED BY <1>2, <2>2, <2>3, <2>4, <2>5 DEF OnReadStatus
<1>3. CASE OnReadHeaders
  <2>1. op = "read_headers"
    BY <1>3 DEF OnReadHeaders, Ready
  <2>2. ASSUME NEW rsp \in ParsedHeaders, ReadContent(rsp)
        PROVE  Answers
    <3>1. rsp \in ResponseType
      BY <1>0, <2>2 DEF ParsedHeaders, ResponseType
    <3> QED BY <2>1, <2>2, <3>1, ContentAnswers
  <2>3. CASE Conclude("READ_HEADERS_ERROR", response, FALSE) /\ UNCHANGED sendVars
    BY <1>0, <2>3, ConcludeAnswers DEF Codes, Failure
  <2>4. CASE Fail("READ_HEADERS_ERROR") /\ UNCHANGED sendVars
    BY <2>4, FailAnswers DEF Codes, Failure
  <2> QED BY <1>3, <2>2, <2>3, <2>4 DEF OnReadHeaders
<1> QED BY <1>1, <1>2, <1>3

LEMMA ReadingAnswers ==
  ASSUME Handling,
         OnReadContentLength \/ OnReadChunkHeader \/ OnReadChunkData \/ OnReadUntilEof
  PROVE  Answers
<1>0. response \in ResponseType
  BY HandlingContext DEF SameCount
<1>1. CASE OnReadContentLength
  <2>1. CASE \E got \in BOOLEAN : SetSuccess(response, got)
    BY <1>0, <2>1, SuccessAnswers
  <2>2. CASE Conclude("READ_CONTENT_LENGTH_ERROR", response, FALSE) /\ UNCHANGED sendVars
    BY <1>0, <2>2, ConcludeAnswers DEF Codes, Failure
  <2>3. CASE Fail("READ_CONTENT_LENGTH_ERROR") /\ UNCHANGED sendVars
    BY <2>3, FailAnswers DEF Codes, Failure
  <2> QED BY <1>1, <2>1, <2>2, <2>3 DEF OnReadContentLength
<1>2. CASE OnReadChunkHeader
  <2>1. op \in OnOpenSocket
    BY <1>2 DEF OnReadChunkHeader, Ready, OnOpenSocket, Reads
  <2>2. CASE \E got \in BOOLEAN : ReadChunks(response, got)
    BY <1>0, <2>1, <2>2, ChunksAnswer
  <2>3. CASE SetSuccess(response, FALSE)
    BY <1>0, <2>3, SuccessAnswers
  <2>4. CASE Fail("READ_CHUNK_HEADER_ERROR") /\ UNCHANGED sendVars
    BY <2>4, FailAnswers DEF Codes, Failure
  <2> QED BY <1>2, <2>2, <2>3, <2>4 DEF OnReadChunkHeader
<1>3. CASE OnReadChunkData
  <2>1. op \in OnOpenSocket
    BY <1>3 DEF OnReadChunkData, Ready, OnOpenSocket, Reads
  <2>2. CASE \E got \in BOOLEAN : ReadChunks(response, got)
    BY <1>0, <2>1, <2>2, ChunksAnswer
  <2>3. CASE Fail("READ_CHUNK_DATA_ERROR") /\ UNCHANGED sendVars
    BY <2>3, FailAnswers DEF Codes, Failure
  <2> QED BY <1>3, <2>2, <2>3 DEF OnReadChunkData
<1>4. CASE OnReadUntilEof
  <2>1. op = "read_until_eof"
    BY <1>4 DEF OnReadUntilEof, Ready
  <2>2. CASE Proceed("READ_UNTIL_EOF", "read_until_eof")
             /\ UNCHANGED <<response, raw, feed, sendVars>>
    <3>1. /\ request' = request /\ feed' = feed
          /\ request.body_callback => raw' = "empty"
      BY <2>2 DEF sendVars, Handling, AInv
    <3> QED
      BY <2>1, <2>2, <3>1, ProceedAnswers DEF Running, Reads, OnOpenSocket, BodyOps
  <2>3. CASE \E got \in BOOLEAN : SetSuccess(response, got)
    BY <1>0, <2>3, SuccessAnswers
  <2>4. CASE Conclude("READ_UNTIL_EOF_ERROR", response, FALSE) /\ UNCHANGED sendVars
    BY <1>0, <2>4, ConcludeAnswers DEF Codes, Failure
  <2>5. CASE Fail("READ_UNTIL_EOF_ERROR") /\ UNCHANGED sendVars
    BY <2>5, FailAnswers DEF Codes, Failure
  <2> QED BY <1>4, <2>2, <2>3, <2>4, <2>5 DEF OnReadUntilEof
<1> QED BY <1>1, <1>2, <1>3, <1>4

\* A handler keeps the invariant.
LEMMA TellsTold ==
  ASSUME Tells, request'.body_callback = request.body_callback
  PROVE  CallbacksTold' /\ shown'.state = state'
<1>1. state' \in Final
  BY StatesDisjoint DEF Tells
<1>2. CASE delivered' = <<>>
  BY <1>1, <1>2 DEF CallbacksTold, Tells
<1>3. CASE Given(state')
  <2>1. PICK o \in Outcome :
          /\ delivered' = <<o>> /\ o.state = state'
          /\ request.body_callback => o.body = "empty" /\ feed' # "silent"
    BY <1>3 DEF Given
  <2>2. Head(delivered') = o /\ delivered' # <<>>
    BY <2>1
  <2> QED BY <1>1, <2>1, <2>2 DEF CallbacksTold, Tells
<1> QED BY <1>2, <1>3 DEF Tells

LEMMA ChainKeepsAnswer == IInv /\ AInv /\ Chain => AInv'
<1> SUFFICES ASSUME IInv, AInv, Chain PROVE AInv'
  OBVIOUS
<1>1. op # "none" /\ ~held /\ started' = started
  BY DEF Chain, OnResolve, OnConnect, OnHandshake, OnWrite, OnReadStatus, OnReadHeaders,
         OnReadContentLength, OnReadChunkHeader, OnReadChunkData, OnReadUntilEof, Ready,
         Outside
<1>2. Handling
  BY <1>1 DEF Handling
<1>3. Answers
  BY <1>2, OpeningAnswers, AskingAnswers, ReadingAnswers DEF Chain
<1>4. started' /\ state # "SUCCESS"
  BY <1>1, <1>2, HandlingContext DEF AInv
<1>5. CASE Quiet
  <2>1. state' # "SUCCESS"
    BY <1>4, <1>5 DEF Quiet, Final
  <2>2. CallbacksTold' /\ ~held'
    BY <1>1, <1>3, <1>5, StatesDisjoint DEF Quiet, Answers, AInv, CallbacksTold
  <2>3. BodyOfThisAnswer'
    BY <1>5 DEF Quiet, BodyOfThisAnswer, BodyOps
  <2> QED BY <1>3, <1>4, <2>1, <2>2, <2>3 DEF AInv, Answers, ServerCloses
<1>6. CASE Tells
  <2>3. CallbacksTold' /\ (held' => shown'.state = state')
    BY <1>3, <1>6, TellsTold DEF Answers
  <2>4. BodyOfThisAnswer'
    BY <1>6, StatesDisjoint DEF Tells, BodyOfThisAnswer
  <2> QED BY <1>3, <1>4, <1>6, <2>3, <2>4 DEF AInv, Answers, Tells
<1> QED BY <1>3, <1>5, <1>6 DEF Answers

-----------------------------------------------------------------------------
(* The user thread, the network and the timers.                            *)

LEMMA InitAnswer == Init => AInv
BY DEF Init, AInv, CallbacksTold, BodyOfThisAnswer, ServerCloses, Final, Failure

LEMMA StartKeepsAnswer == IInv /\ AInv /\ (StartFresh \/ StartReused \/ StartClosed) => AInv'
<1> SUFFICES ASSUME IInv, AInv, StartFresh \/ StartReused \/ StartClosed PROVE AInv'
  OBVIOUS
<1>1. ~started /\ started' /\ UNCHANGED <<request, feed, held, shown, delivered>>
  BY DEF StartFresh, StartReused, StartClosed, Starting, Reconnect
<1>2. raw' = "empty"
  BY <1>1 DEF StartFresh, StartReused, StartClosed, Reconnect, ResolveAnew, AInv
<1>3. state' \notin Final
  BY <1>1, StatesDisjoint
  DEF StartFresh, StartReused, StartClosed, Reconnect, ResolveAnew, Write, After, AInv, Running
<1>4. state' # "SUCCESS" /\ delivered = <<>> /\ ~held /\ shown = Nothing
  BY <1>1, <1>3 DEF Final, AInv, IInv, DeliveredOnce, CallbacksTold
<1> QED BY <1>1, <1>2, <1>3, <1>4 DEF AInv, CallbacksTold, BodyOfThisAnswer, ServerCloses

Waiting == Arm \/ TakeStream \/ Complete \/ Elapse \/ ElapseDispose \/ UNCHANGED vars

LEMMA WaitingKeepsAnswer == IInv /\ AInv /\ Waiting => AInv'
<1> SUFFICES ASSUME IInv, AInv, Waiting PROVE AInv'
  OBVIOUS
<1>1. /\ UNCHANGED <<request, state, op, started, response, raw, feed, held, shown, delivered>>
      /\ stream' \in {stream, "closed"}
  BY DEF Waiting, Arm, TakeStream, Complete, Elapse, ElapseDispose, vars
<1>2. ~started => arming' = 0 /\ ~timer' /\ expired' = 0
  <2>1. ~started => arming = 0 /\ ~timer /\ expired = 0 /\ delivered = <<>> /\ op = "none"
    BY DEF AInv, IInv, DeliveredOnce
  <2>2. CASE Arm \/ TakeStream
    BY <2>1, <2>2 DEF Arm, TakeStream
  <2>3. CASE Complete \/ Elapse \/ ElapseDispose
    BY <2>1, <2>3 DEF Complete, Elapse, ElapseDispose
  <2>4. CASE UNCHANGED vars
    BY <2>1, <2>4 DEF vars
  <2> QED BY <2>2, <2>3, <2>4 DEF Waiting
<1> QED BY <1>1, <1>2 DEF AInv, CallbacksTold, BodyOfThisAnswer, ServerCloses, IsOpen

\* An end() that waited delivers what final_callback was shown.
LEMMA PeerKeepsAnswer == IInv /\ AInv /\ PeerCloses => AInv'
<1> SUFFICES ASSUME IInv, AInv, PeerCloses PROVE AInv'
  OBVIOUS
<1>1. /\ held /\ held' = FALSE /\ HandOver(state, response, raw)
      /\ UNCHANGED <<request, state, op, started, arming, timer, expired, shown>>
  BY DEF PeerCloses
<1>2. /\ state \in Final /\ state \in Codes /\ delivered = <<>>
      /\ response \in ResponseType /\ raw \in Body
  BY <1>1 DEF IInv, DeliveredOnce, NeverExpired, TypeOK, Final, Codes
<1>3. started /\ shown.state = state /\ (request.body_callback => raw = "empty")
  BY <1>1, <1>2 DEF AInv
<1>4. Given(state) /\ ServerCloses' /\ raw' = "empty"
  BY <1>1, <1>2, <1>3, HandOverTells
<1>5. CallbacksTold'
  <2>1. PICK o \in Outcome :
          /\ delivered' = <<o>> /\ o.state = state
          /\ request.body_callback => o.body = "empty" /\ feed' # "silent"
    BY <1>4 DEF Given
  <2>2. Head(delivered') = o /\ delivered' # <<>>
    BY <2>1
  <2> QED BY <1>1, <1>2, <1>3, <2>1, <2>2 DEF CallbacksTold
<1>6. BodyOfThisAnswer'
  BY <1>1, <1>2 DEF BodyOfThisAnswer
<1> QED BY <1>1, <1>2, <1>3, <1>4, <1>5, <1>6 DEF AInv

LEMMA TimeoutKeepsAnswer == IInv /\ AInv /\ OnTimeout => AInv'
<1> SUFFICES ASSUME IInv, AInv, OnTimeout PROVE AInv'
  OBVIOUS
<1>1. UNCHANGED <<request, started, op>>
  BY DEF OnTimeout, callerVars, sendVars, chainVars
<1>2. CASE state \notin Final /\ End("TIMEOUT", response, FALSE)
  <2>1. response \in ResponseType /\ raw \in Body /\ RawWith(FALSE) = raw
    BY DEF IInv, TypeOK, RawWith
  <2>2. Tells /\ (request.body_callback => raw' = "empty")
    BY <1>1, <1>2, <2>1, EndTells DEF Codes, Failure, AInv
  <2>3. state' = "TIMEOUT" /\ started
    BY <1>2 DEF End, OnTimeout, AInv
  <2>4. CallbacksTold' /\ shown'.state = state'
    BY <1>1, <2>2, TellsTold
  <2>5. BodyOfThisAnswer'
    BY <2>2, StatesDisjoint DEF Tells, BodyOfThisAnswer
  <2>6. ServerCloses'
    BY <2>2 DEF Tells
  <2> QED BY <1>1, <2>2, <2>3, <2>4, <2>5, <2>6 DEF AInv
<1>3. CASE state \in Final
  <2>1. /\ UNCHANGED <<state, response, raw, feed, held, shown, delivered>>
        /\ stream' \in {stream, "closed"}
    BY <1>3 DEF OnTimeout, endVars
  <2>2. started
    BY <1>3 DEF AInv
  <2> QED
    BY <1>1, <2>1, <2>2 DEF AInv, CallbacksTold, BodyOfThisAnswer, ServerCloses, IsOpen
<1> QED BY <1>2, <1>3 DEF OnTimeout

LEMMA DisposeKeepsAnswer == IInv /\ AInv /\ OnDispose => AInv'
<1> SUFFICES ASSUME IInv, AInv, OnDispose PROVE AInv'
  OBVIOUS
<1>1. state \in Final /\ state # "EXPIRED"
  BY DEF IInv, OnDispose, NeverExpired
<1>2. /\ state' = state
      /\ UNCHANGED <<request, op, stream, started, response, raw, feed, held, shown, delivered>>
  BY <1>1 DEF OnDispose, After
<1> QED BY <1>1, <1>2 DEF AInv, CallbacksTold, BodyOfThisAnswer, ServerCloses

-----------------------------------------------------------------------------
(* A request is sent again only while nothing of an answer was parsed: up  *)
(* to read_status the response is the one the exchange began with.         *)

Unread == {"resolve", "connect", "handshake", "write", "read_status"}

Unanswered ==
  /\ ~started => response.code = "none"
  /\ state \notin Final /\ op \in Unread => response.code = "none"

LEMMA SuccessLeaves ==
  ASSUME NEW rsp, NEW got, SetSuccess(rsp, got)
  PROVE  op' \notin Unread \/ response'.code = "none"
BY DEF SetSuccess, PerformRedirect, Conclude, FollowRedirect, Stop, FreshResponse, Unread

LEMMA ChunksLeave ==
  ASSUME NEW rsp, NEW got, ReadChunks(rsp, got)
  PROVE  op' \notin Unread \/ response'.code = "none"
BY SuccessLeaves DEF ReadChunks, Proceed, Issue, Conclude, Stop, Unread

LEMMA FailLeaves ==
  ASSUME NEW code, Fail(code)
  PROVE  op' \notin Unread
BY DEF Fail, Conclude, Stop, Unread

\* restart() keeps the response, which is still the first.
LEMMA RestartLeaves ==
  ASSUME Unanswered, Restart, op \in Unread
  PROVE  response'.code = "none"
BY DEF Unanswered, Restart, MayRestart, Reconnect

LEMMA ChainUnanswered == IInv /\ AInv /\ Unanswered /\ Chain => Unanswered'
<1> SUFFICES ASSUME IInv, AInv, Unanswered, Chain PROVE Unanswered'
  OBVIOUS
<1>1. op # "none" /\ ~held /\ started' = started /\ started
  BY DEF Chain, OnResolve, OnConnect, OnHandshake, OnWrite, OnReadStatus, OnReadHeaders,
         OnReadContentLength, OnReadChunkHeader, OnReadChunkData, OnReadUntilEof, Ready,
         Outside, AInv
<1>2. state \in Final /\ state' \notin Final => FALSE
  <2>1. Handling
    BY <1>1 DEF Handling
  <2>2. Answers
    BY <2>1, OpeningAnswers, AskingAnswers, ReadingAnswers DEF Chain
  <2> QED BY <2>2, StatesDisjoint DEF Answers, Quiet, Tells
<1>3. SUFFICES ASSUME state' \notin Final, op' \in Unread PROVE response'.code = "none"
  BY <1>1 DEF Unanswered
<1>4. op \in Unread => response.code = "none"
  BY <1>2, <1>3 DEF Unanswered
<1>5. CASE OnResolve \/ OnConnect \/ OnHandshake
  <2>1. op \in Unread
    BY <1>5 DEF OnResolve, OnConnect, OnHandshake, Ready, Unread
  <2>2. ec = "ok"
    BY <1>3, <1>5, FailLeaves DEF OnResolve, OnConnect, OnHandshake
  <2>3. response' = response
    BY <1>5, <2>2 DEF OnResolve, OnConnect, OnHandshake
  <2> QED BY <1>4, <2>1, <2>3
<1>6. CASE OnWrite
  <2>1. op \in Unread
    BY <1>6 DEF OnWrite, Ready, Unread
  <2>2. response' = response \/ Restart
    BY <1>3, <1>6, FailLeaves DEF OnWrite
  <2> QED BY <1>4, <2>1, <2>2, RestartLeaves
<1>7. CASE OnReadStatus
  <2>1. op \in Unread
    BY <1>7 DEF OnReadStatus, Ready, Unread
  <2>2. Restart
    BY <1>3, <1>7, FailLeaves DEF OnReadStatus, Proceed, Issue, Conclude, Stop, Unread
  <2> QED BY <2>1, <2>2, RestartLeaves
<1>8. CASE OnReadHeaders
  <2>1. PICK rsp \in ParsedHeaders : ReadContent(rsp)
    BY <1>3, <1>8, FailLeaves DEF OnReadHeaders, Conclude, Stop, Unread
  <2> QED BY <1>3, <2>1, ChunksLeave DEF ReadContent, Proceed, Issue, Unread
<1>9. CASE OnReadContentLength \/ OnReadChunkHeader \/ OnReadChunkData \/ OnReadUntilEof
  BY <1>3, <1>9, FailLeaves, SuccessLeaves, ChunksLeave
  DEF OnReadContentLength, OnReadChunkHeader, OnReadChunkData, OnReadUntilEof,
      Proceed, Issue, Conclude, Stop, Unread
<1> QED BY <1>5, <1>6, <1>7, <1>8, <1>9 DEF Chain

LEMMA OthersUnanswered ==
  IInv /\ AInv /\ Unanswered /\ (User \/ World \/ OnTimeout \/ OnDispose \/ UNCHANGED vars)
    => Unanswered'
<1> SUFFICES ASSUME IInv, AInv, Unanswered,
                    User \/ World \/ OnTimeout \/ OnDispose \/ UNCHANGED vars
             PROVE  Unanswered'
  OBVIOUS
<1>1. CASE StartFresh \/ StartReused \/ StartClosed
  <2>1. ~started /\ started' /\ response' = response
    BY <1>1 DEF StartFresh, StartReused, StartClosed, Starting, Reconnect
  <2> QED BY <2>1 DEF Unanswered
<1>2. CASE Waiting
  BY <1>2 DEF Unanswered, Waiting, Arm, TakeStream, Complete, Elapse, ElapseDispose, vars
<1>3. CASE OnTimeout
  <2>1. started /\ started' = started
    BY <1>3 DEF OnTimeout, AInv, callerVars
  <2>2. state' \in Final
    BY <1>3 DEF OnTimeout, End, endVars, Final, Failure
  <2> QED BY <2>1, <2>2 DEF Unanswered
<1>4. CASE OnDispose
  <2>1. state' = state /\ UNCHANGED <<started, response, op>>
    BY <1>4 DEF IInv, OnDispose, NeverExpired, DeliveredOnce, After
  <2> QED BY <2>1 DEF Unanswered
<1>5. CASE PeerCloses
  <2>1. held /\ state' = state /\ started' = started
    BY <1>5 DEF PeerCloses
  <2>2. state \in Final /\ started
    BY <2>1 DEF IInv, DeliveredOnce, AInv
  <2> QED BY <2>1, <2>2 DEF Unanswered
<1> QED BY <1>1, <1>2, <1>3, <1>4, <1>5 DEF User, World, Waiting

\* Only restart(), called by start() or by the handler of a write or of the first
\* read, gives the stream that was taken over up.
LEMMA ResendsUnanswered ==
  IInv /\ AInv /\ Unanswered /\ Next /\ reused /\ ~reused'
    => response.code = "none" /\ delivered = <<>>
<1> SUFFICES ASSUME IInv, AInv, Unanswered, Next, reused, ~reused'
             PROVE  response.code = "none" /\ delivered = <<>>
  OBVIOUS
<1>1. CASE StartClosed
  <2>1. ~started
    BY <1>1 DEF StartClosed, Starting
  <2> QED BY <2>1 DEF Unanswered, AInv, IInv, DeliveredOnce
<1>2. CASE Restart /\ op \in Unread
  BY <1>2 DEF Restart, MayRestart, Unanswered, IInv, DeliveredOnce
<1>3. User => StartClosed
  BY DEF User, StartFresh, StartReused, Arm, TakeStream
<1>4. ~World
  BY DEF World, Complete, Elapse, ElapseDispose, PeerCloses
<1>5. ~(OnResolve \/ OnConnect \/ OnHandshake \/ OnReadHeaders \/ OnReadContentLength)
  BY DEF OnResolve, OnConnect, OnHandshake, OnReadHeaders, OnReadContentLength
<1>6. ~(OnReadChunkHeader \/ OnReadChunkData \/ OnReadUntilEof \/ OnTimeout \/ OnDispose)
  BY DEF OnReadChunkHeader, OnReadChunkData, OnReadUntilEof, OnTimeout, OnDispose
<1>7. OnWrite \/ OnReadStatus => Restart /\ op \in Unread
  BY DEF OnWrite, OnReadStatus, Ready, Unread
<1>8. StartClosed \/ (Restart /\ op \in Unread)
  BY <1>3, <1>4, <1>5, <1>6, <1>7 DEF Next, Handler
<1> QED BY <1>1, <1>2, <1>8

-----------------------------------------------------------------------------
(* The theorems.                                                           *)

\* Whatever options the requests have, what a connection makes of the answer is
\* consistent in every state it can reach.
THEOREM AnswerInvariance == Spec => []AInv
<1>1. Init => AInv
  BY InitAnswer
<1>2. IInv /\ AInv /\ [Next]_vars => AInv'
  BY ChainKeepsAnswer, StartKeepsAnswer, WaitingKeepsAnswer, TimeoutKeepsAnswer,
     DisposeKeepsAnswer, PeerKeepsAnswer
  DEF Next, User, World, Waiting, Handler, Chain
<1> QED BY <1>1, <1>2, Invariance, PTL DEF Spec

\* The body a connection has collected is of the answer it reads, and none is left
\* of an answer that redirected or of a stream that was given up.
THEOREM BodyIsOfThisAnswer == Spec => []BodyOfThisAnswer
<1>1. AInv => BodyOfThisAnswer
  BY DEF AInv
<1> QED BY <1>1, AnswerInvariance, PTL

\* The callbacks are told the outcome the promise is given.
THEOREM CallbacksAreTold == Spec => []CallbacksTold
<1>1. AInv => CallbacksTold
  BY DEF AInv
<1> QED BY <1>1, AnswerInvariance, PTL

\* After a success a stream whose server announced Connection: close is not left
\* open, although set_timeout() and handlers may still run.
THEOREM ServerCloseHonoured == Spec => []ServerCloses
<1>1. AInv => ServerCloses
  BY DEF AInv
<1> QED BY <1>1, AnswerInvariance, PTL

\* restart() repeats a request only if no answer to it was parsed and nothing was
\* delivered, however its handlers and the timeout interleave.
THEOREM ResendsOnlyUnanswered == Spec => ResentOnlyUnanswered
<1>1. Init => Unanswered
  BY DEF Init, Unanswered, FreshResponse
<1>2. IInv /\ AInv /\ Unanswered /\ [Next]_vars => Unanswered'
  BY ChainUnanswered, OthersUnanswered DEF Next, Handler, Chain
<1>3. IInv /\ AInv /\ Unanswered /\ [Next]_vars =>
        [reused /\ ~reused' => response.code = "none" /\ delivered = <<>>]_vars
  BY ResendsUnanswered
<1> QED BY <1>1, <1>2, <1>3, Invariance, AnswerInvariance, PTL DEF Spec, ResentOnlyUnanswered
=============================================================================
