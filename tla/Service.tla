------------------------------- MODULE Service -------------------------------
(***************************************************************************)
(* A service of crequests (crequests/service.cpp): one io_service, a       *)
(* thread that runs its handlers, a list of sessions, and the sessions'    *)
(* connections.  Two threads work on it: the caller's, which makes         *)
(* sessions, sends, waits for responses and takes the service down, and    *)
(* "io", which start() starts.  A caller that calls service_t::run() runs  *)
(* handlers too, and so does a final_callback what callers do.             *)
(*                                                                         *)
(* Of a connection there is what its threads share: the operation in       *)
(* flight, the timers, the state, and end() cut at the places where        *)
(* another thread can come between; how the chain goes is Connection.      *)
(* Requests do not throw here (throw_on_error is off).                     *)
(***************************************************************************)
EXTENDS Naturals, FiniteSets, Sequences, SequencesExt

CONSTANTS
  Callbacks,       \* what a final_callback may do, if it does anything
  MaxSessions,     \* bound: sessions made
  MaxConnections   \* bound: connections made

ASSUME ServiceAssumption ==
  /\ Callbacks \subseteq {"send", "make"}
  /\ MaxSessions \in Nat /\ MaxConnections \in Nat

Threads     == {"caller", "io"}
Sessions    == 1..MaxSessions
Connections == 1..MaxConnections

VARIABLES
  service,   \* service_data_t: "up", "stopped" by its destructor, or "gone"
  list,      \* its sessions
  made,      \* how many were made; a session is its number
  users,     \* the threads new_session() gave a reference to the session
  kept,      \* the sessions of which the caller holds a copy when the service goes
  last,      \* session_impl_t::connection, 0 for none
  of,        \* the session that made the connection
  state,     \* conn_impl_t::state: "none", "running", "final" or "expired"
  op,        \* the operation in flight, by what its handler is
  timeout,   \* timeout_timer is armed
  store,     \* dispose_timer of the connection is armed
  walk,      \* dispose_timer of the service is armed
  queue,     \* the handlers that are due, oldest first
  job,       \* what the thread is doing
  promise    \* what the connection's promise was given

sessionVars    == <<list, made, users, kept>>
connectionVars == <<last, of, state, op, timeout, store, promise>>
vars == <<service, sessionVars, connectionVars, walk, queue, job>>

Outcome == {"response", "broken"}

\* The handlers; the one of the resolver is not wrapped in the strand.
Handler == [conn : Connections, kind : {"resolve", "chain", "timeout", "store"}]
             \cup {[conn |-> 0, kind |-> "walk"]}

(* "idle": in the caller's own code; "back", "make": in new_session(), which *)
(* has put the session in the list, called by itself or by api.h; "send",   *)
(* "get": in Send(), in get(); "join": in ~service_data_t(); "run": in      *)
(* io_service::run(), between handlers.  The rest are the parts of a        *)
(* handler, "shutdown" the one in which end() waits for the server's        *)
(* close_notify; conn is the connection it is about.                        *)
Job == [do : {"idle", "back", "make", "send", "get", "join",
              "run", "handle", "end", "callback", "fulfil", "shutdown"},
        conn : 0..MaxConnections,
        kind : {"none", "resolve", "chain", "timeout", "store", "walk"},
        session : 0..MaxSessions,
        at : Nat]                  \* where the walk through the list is

Doing(what) == [do |-> what, conn |-> 0, kind |-> "none", session |-> 0, at |-> 0]

TypeOK ==
  /\ service \in {"up", "stopped", "gone"}
  /\ list \in Seq(Sessions) /\ made \in 0..MaxSessions
  /\ users \in [Sessions -> SUBSET Threads] /\ kept \subseteq Sessions
  /\ last \in [Sessions -> 0..MaxConnections] /\ of \in [Connections -> 0..MaxSessions]
  /\ state \in [Connections -> {"none", "running", "final", "expired"}]
  /\ op \in [Connections -> {"none", "resolve", "chain"}]
  /\ timeout \in [Connections -> BOOLEAN] /\ store \in [Connections -> BOOLEAN]
  /\ walk \in BOOLEAN /\ queue \in Seq(Handler)
  /\ job \in [Threads -> Job] /\ job["io"].do \notin {"idle", "get", "join"}
  /\ promise \in [Connections -> Seq(Outcome)]

-----------------------------------------------------------------------------
(* Where a thread is.                                                       *)

At(t, what)  == job[t].do = what
GoesTo(t, what) == job' = [job EXCEPT ![t].do = what]

Answered(c)  == promise[c] # <<>>
Undelivered(s) == last[s] # 0 /\ ~Answered(last[s])
Made(c)      == state[c] # "none"
InFinalState(c) == state[c] \in {"final", "expired"}

\* A thread inside a final_callback; the connection has not delivered yet.
InCallback(t) == job[t].conn # 0 /\ job[t].do \in {"make", "send"}

\* Mutant: Send() goes back to the caller's code.
ReturnsToCaller(t) == Doing("idle")

\* Send() goes back to the caller's code, or to end().
Returns(t) == IF InCallback(t) THEN [job[t] EXCEPT !.do = "fulfil"] ELSE Doing("idle")

Enqueue(c, kind) == queue' = Append(queue, [conn |-> c, kind |-> kind])

-----------------------------------------------------------------------------
(* Sessions: new_session() and Send(), in the caller's thread and in        *)
(* callbacks.                                                               *)

FreeConnections == {c \in Connections : ~Made(c)}

\* The bound: a Send() is not begun that could not end.
RoomForConnection ==
  Cardinality({t \in Threads : job[t].do \in {"make", "send"}}) < Cardinality(FreeConnections)

\* add_session(), its first line: sessions.push_back().
PushBack(t, next) ==
  /\ made < MaxSessions
  /\ made' = made + 1 /\ list' = Append(list, made + 1)
  /\ GoesTo(t, next)

NewSession ==
  /\ At("caller", "idle") /\ service = "up" /\ PushBack("caller", "back")
  /\ UNCHANGED <<service, users, kept, connectionVars, walk, queue>>

\* Get(), AsyncGet() and the others of api.h: a new session, and a request on it.
CallApi ==
  /\ At("caller", "idle") /\ service = "up"
  /\ RoomForConnection /\ PushBack("caller", "make")
  /\ UNCHANGED <<service, users, kept, connectionVars, walk, queue>>

\* add_session(), its second line: sessions.back().
Back(t) ==
  /\ job[t].do \in {"back", "make"}
  /\ LET s == Last(list) IN
       /\ users' = [users EXCEPT ![s] = @ \cup {t}]
       /\ job' = [job EXCEPT ![t] = IF At(t, "make") THEN [@ EXCEPT !.do = "send", !.session = s]
                                                     ELSE Doing("idle")]
  /\ UNCHANGED <<service, list, made, kept, connectionVars, walk, queue>>

\* Get(), AsyncGet() and the others of a session set the method and call Send().
CallSend ==
  /\ At("caller", "idle") /\ service = "up" /\ RoomForConnection
  /\ \E s \in Sessions :
       /\ "caller" \in users[s]
       /\ job' = [job EXCEPT !["caller"] = [Doing("send") EXCEPT !.session = s]]
  /\ UNCHANGED <<service, sessionVars, connectionVars, walk, queue>>

\* Mutant: Send() does not wait for the last response.
StartUnanswered(t) ==
  /\ At(t, "send")
  /\ LET s == job[t].session IN
       \E c \in FreeConnections :
         /\ \A d \in FreeConnections : c <= d
         /\ last' = [last EXCEPT ![s] = c] /\ of' = [of EXCEPT ![c] = s]
         /\ state' = [state EXCEPT ![c] = "running"]
         /\ op' = [op EXCEPT ![c] = "resolve"] /\ timeout' = [timeout EXCEPT ![c] = TRUE]
  /\ job' = [job EXCEPT ![t] = Returns(t)]
  /\ UNCHANGED <<service, sessionVars, store, promise, walk, queue>>

\* Mutant: a connection that writes at once has no timeout.
StartUntimed(t) ==
  /\ At(t, "send")
  /\ LET s == job[t].session IN
       /\ ~Undelivered(s)
       /\ \E c \in FreeConnections, first \in {"resolve", "chain"} :
            /\ \A d \in FreeConnections : c <= d
            /\ last[s] = 0 => first = "resolve"
            /\ last' = [last EXCEPT ![s] = c] /\ of' = [of EXCEPT ![c] = s]
            /\ state' = [state EXCEPT ![c] = "running"]
            /\ op' = [op EXCEPT ![c] = first] /\ timeout' = [timeout EXCEPT ![c] = first = "resolve"]
  /\ job' = [job EXCEPT ![t] = Returns(t)]
  /\ UNCHANGED <<service, sessionVars, store, promise, walk, queue>>

\* Send(): it waits for the last response of the session, and starts a connection,
\* which resolves, or writes on the stream of the last one.
Start(t) ==
  /\ At(t, "send")
  /\ LET s == job[t].session IN
       /\ ~Undelivered(s)
       /\ \E c \in FreeConnections, first \in {"resolve", "chain"} :
            /\ \A d \in FreeConnections : c <= d
            /\ last[s] = 0 => first = "resolve"
            /\ last' = [last EXCEPT ![s] = c] /\ of' = [of EXCEPT ![c] = s]
            /\ state' = [state EXCEPT ![c] = "running"]
            /\ op' = [op EXCEPT ![c] = first] /\ timeout' = [timeout EXCEPT ![c] = TRUE]
  /\ job' = [job EXCEPT ![t] = Returns(t)]
  /\ UNCHANGED <<service, sessionVars, store, promise, walk, queue>>

CallGet ==
  /\ At("caller", "idle")
  /\ \E c \in Connections : Made(c) /\ "caller" \in users[of[c]]
       /\ job' = [job EXCEPT !["caller"] = [Doing("get") EXCEPT !.conn = c]]
  /\ UNCHANGED <<service, sessionVars, connectionVars, walk, queue>>

GetReturns ==
  /\ At("caller", "get") /\ Answered(job["caller"].conn)
  /\ job' = [job EXCEPT !["caller"] = Doing("idle")]
  /\ UNCHANGED <<service, sessionVars, connectionVars, walk, queue>>

\* service_t::run(): there is always work, it does not return.
Run ==
  /\ At("caller", "idle") /\ service = "up"
  /\ GoesTo("caller", "run")
  /\ UNCHANGED <<service, sessionVars, connectionVars, walk, queue>>

-----------------------------------------------------------------------------
(* The end of the service.                                                  *)

\* ~service_data_t(): work.reset(), ioservice.stop().  No handler is taken from here
\* on, so what is due and what would fall due is forgotten here.  The caller may have
\* copied sessions out of the list.
Stop ==
  /\ At("caller", "idle") /\ service = "up"
  /\ service' = "stopped" /\ GoesTo("caller", "join")
  /\ kept' \in SUBSET {s \in Sessions : "caller" \in users[s]}
  /\ queue' = <<>> /\ walk' = FALSE
  /\ op' = [c \in Connections |-> "none"]
  /\ timeout' = [c \in Connections |-> FALSE] /\ store' = timeout'
  /\ UNCHANGED <<list, made, users, last, of, state, promise>>

\* Who else holds the connection: a session the caller has a copy of, or nobody but
\* the connection_t that a later Send() of its session left behind.
Held(c) == of[c] \in kept \/ last[of[c]] # c

\* thread->join(), and the members go: the sessions, the connections and the handlers
\* that hold them.  A promise without an outcome is broken.
Join ==
  /\ At("caller", "join") /\ At("io", "run")
  /\ service' = "gone" /\ list' = <<>>
  /\ promise' = [c \in Connections |->
                   IF Made(c) /\ ~Answered(c) /\ ~Held(c) THEN <<"broken">> ELSE promise[c]]
  /\ GoesTo("caller", "idle")
  /\ UNCHANGED <<made, users, kept, last, of, state, op, timeout, store, walk, queue>>

-----------------------------------------------------------------------------
(* What falls due.                                                          *)

Complete ==
  /\ service = "up"
  /\ \E c \in Connections :
       /\ op[c] # "none" /\ op' = [op EXCEPT ![c] = "none"] /\ Enqueue(c, op[c])
  /\ UNCHANGED <<service, sessionVars, last, of, state, timeout, store, promise, walk, job>>

Elapse(c) ==
  /\ service = "up"
  /\ timeout[c] /\ timeout' = [timeout EXCEPT ![c] = FALSE] /\ Enqueue(c, "timeout")
  /\ UNCHANGED <<service, sessionVars, last, of, state, op, store, promise, walk, job>>

ElapseStore(c) ==
  /\ service = "up"
  /\ store[c] /\ store' = [store EXCEPT ![c] = FALSE] /\ Enqueue(c, "store")
  /\ UNCHANGED <<service, sessionVars, last, of, state, op, timeout, promise, walk, job>>

ElapseWalk ==
  /\ service = "up"
  /\ walk /\ walk' = FALSE /\ Enqueue(0, "walk")
  /\ UNCHANGED <<service, sessionVars, connectionVars, job>>

-----------------------------------------------------------------------------
(* The handlers.                                                            *)

\* Does the handler have to wait for another of its strand?
Blocked(h) ==
  /\ h.kind # "resolve"
  /\ \E t \in Threads :
       /\ job[t].conn = h.conn /\ job[t].kind \notin {"none", "resolve"}

\* A thread in run() takes the first handler whose strand is free.
Take(t) ==
  /\ At(t, "run") /\ service = "up"
  /\ \E i \in DOMAIN queue :
       /\ ~Blocked(queue[i]) /\ \A j \in 1..(i - 1) : Blocked(queue[j])
       /\ queue' = RemoveAt(queue, i)
       /\ job' = [job EXCEPT ![t] = [Doing("handle") EXCEPT !.conn = queue[i].conn,
                                                            !.kind = queue[i].kind]]
  /\ UNCHANGED <<service, sessionVars, connectionVars, walk>>

Handling(t, kinds) == At(t, "handle") /\ job[t].kind \in kinds
Leave(t)    == job' = [job EXCEPT ![t] = Doing("run")]

\* The chain goes on: redirects and restarts resolve again, and after the end a
\* handler of an operation that was not cancelled does not know better.
GoOn(t) ==
  /\ Handling(t, {"resolve", "chain"})
  /\ \E next \in {"resolve", "chain"} :
       /\ next = "resolve" => job[t].kind = "chain"
       /\ op' = [op EXCEPT ![job[t].conn] = next]
  /\ Leave(t)
  /\ UNCHANGED <<service, sessionVars, last, of, state, timeout, store, promise, walk, queue>>

\* An aborted operation, or a redirect that is not followed.
GiveUp(t) ==
  /\ Handling(t, {"resolve", "chain"}) /\ Leave(t)
  /\ UNCHANGED <<service, sessionVars, connectionVars, walk, queue>>

\* Mutant: set_timeout() does not ask.
ConcludeAnyway(t) ==
  /\ Handling(t, {"resolve", "chain", "timeout"})
  /\ GoesTo(t, "end")
  /\ UNCHANGED <<service, sessionVars, connectionVars, walk, queue>>

\* set_error(), set_success() and set_timeout() ask in_final_state() first.
Conclude(t) ==
  /\ Handling(t, {"resolve", "chain", "timeout"})
  /\ IF InFinalState(job[t].conn) THEN Leave(t) ELSE GoesTo(t, "end")
  /\ UNCHANGED <<service, sessionVars, connectionVars, walk, queue>>

\* set_state(), and end() up to the final_callback: the timeout is cancelled.
EndBegins(t) ==
  /\ At(t, "end")
  /\ state' = [state EXCEPT ![job[t].conn] = "final"]
  /\ timeout' = [timeout EXCEPT ![job[t].conn] = FALSE]
  /\ GoesTo(t, "callback")
  /\ UNCHANGED <<service, sessionVars, last, of, op, store, promise, walk, queue>>

\* The final_callback does nothing of note, sends on its connection's own session, or
\* calls api.h.
Callback(t) ==
  /\ At(t, "callback")
  /\ \/ GoesTo(t, "fulfil") /\ UNCHANGED <<list, made>>
     \/ /\ "send" \in Callbacks
        /\ job' = [job EXCEPT ![t].do = "send", ![t].session = of[job[t].conn]]
        /\ UNCHANGED <<list, made>>
     \/ "make" \in Callbacks /\ RoomForConnection /\ PushBack(t, "make")
  /\ UNCHANGED <<service, users, kept, connectionVars, walk, queue>>

Deliver(t) == promise' = [promise EXCEPT ![job[t].conn] = Append(@, "response")] /\ Leave(t)

\* The rest of end(): dispose_timer is armed, the promise is given the response.
Fulfil(t) ==
  /\ At(t, "fulfil")
  /\ store' = [store EXCEPT ![job[t].conn] = TRUE]
  /\ Deliver(t)
  /\ UNCHANGED <<service, sessionVars, last, of, state, op, timeout, walk, queue>>

\* Between the two, stream.cancel() shuts TLS down, and the thread waits; a connection
\* that still resolves has nothing to shut down.
Shutdown(t) ==
  /\ At(t, "fulfil") /\ job[t].kind # "resolve"
  /\ store' = [store EXCEPT ![job[t].conn] = TRUE]
  /\ GoesTo(t, "shutdown")
  /\ UNCHANGED <<service, sessionVars, last, of, state, op, timeout, promise, walk, queue>>

\* The server's close_notify arrives, or the end of its stream.
PeerCloses(t) ==
  /\ At(t, "shutdown") /\ Deliver(t)
  /\ UNCHANGED <<service, sessionVars, last, of, state, op, timeout, store, walk, queue>>

\* set_dispose(): set_state() keeps a final state.
SetDispose(t) ==
  /\ Handling(t, {"store"}) /\ Leave(t)
  /\ state' = [state EXCEPT ![job[t].conn] = IF @ = "final" THEN @ ELSE "expired"]
  /\ UNCHANGED <<service, sessionVars, last, of, op, timeout, store, promise, walk, queue>>

IsExpired(s) == last[s] # 0 /\ state[last[s]] = "expired"

\* service_data_t::on_dispose_timer(): one session of the list at a time.
Walk(t) ==
  /\ Handling(t, {"walk"}) /\ job[t].at < Len(list)
  /\ IF IsExpired(list[job[t].at + 1])
     THEN list' = RemoveAt(list, job[t].at + 1) /\ job' = job
     ELSE list' = list /\ job' = [job EXCEPT ![t].at = @ + 1]
  /\ UNCHANGED <<service, made, users, kept, connectionVars, walk, queue>>

\* At the end of the list set_dispose_timer() arms the timer again.
WalkEnds(t) ==
  /\ Handling(t, {"walk"}) /\ job[t].at = Len(list)
  /\ walk' = TRUE /\ Leave(t)
  /\ UNCHANGED <<service, sessionVars, connectionVars, queue>>

-----------------------------------------------------------------------------
\* The service was just made.
Init ==
  /\ service = "up" /\ list = <<>> /\ made = 0
  /\ users = [s \in Sessions |-> {}] /\ kept = {}
  /\ last = [s \in Sessions |-> 0] /\ of = [c \in Connections |-> 0]
  /\ state = [c \in Connections |-> "none"] /\ op = [c \in Connections |-> "none"]
  /\ timeout = [c \in Connections |-> FALSE] /\ store = [c \in Connections |-> FALSE]
  /\ walk = TRUE /\ queue = <<>>
  /\ job = [t \in Threads |-> Doing(IF t = "io" THEN "run" ELSE "idle")]
  /\ promise = [c \in Connections |-> <<>>]

\* What a thread starts only if it wants to.
Asks == NewSession \/ CallApi \/ CallSend \/ CallGet \/ Run \/ Stop

World ==
  \/ Complete \/ ElapseWalk
  \/ \E c \in Connections : Elapse(c) \/ ElapseStore(c)
  \/ \E t \in Threads : PeerCloses(t)

\* What a thread has started goes on.
Goes(t) ==
  \/ Back(t) \/ Start(t)
  \/ Take(t) \/ GoOn(t) \/ GiveUp(t) \/ Conclude(t)
  \/ EndBegins(t) \/ Callback(t) \/ Fulfil(t) \/ Shutdown(t)
  \/ SetDispose(t) \/ Walk(t) \/ WalkEnds(t)

Next == Asks \/ World \/ GetReturns \/ Join \/ \E t \in Threads : Goes(t)

\* Threads go on, and time passes.  Of the network nothing is assumed: no operation has
\* to complete, and no server to close.
Fairness ==
  /\ \A t \in Threads : WF_vars(Goes(t))
  /\ WF_vars(GetReturns) /\ WF_vars(Join)
  /\ WF_vars(ElapseWalk)
  /\ \A c \in Connections : WF_vars(Elapse(c)) /\ WF_vars(ElapseStore(c))

Spec == Init /\ [][Next]_vars

FairSpec == Spec /\ Fairness

-----------------------------------------------------------------------------
(* Properties.                                                              *)

Ending == {"end", "callback", "fulfil", "shutdown"}

\* The caller is in service_t::run(): it runs handlers, and will not do anything else.
Runs == InCallback("caller") \/ job["caller"].do \in {"run", "handle"} \cup Ending

\* The promise of each connection, as Delivery has it: it is given one outcome, by the
\* chain, by the timeout or by the end of the service, whatever races; unless the
\* caller runs handlers too.
Promise(c) == INSTANCE Delivery WITH delivered <- promise[c], Outcome <- Outcome

PromisesKept ==
  [][Runs \/ \A c \in Connections : [Promise(c)!Next]_(promise[c])]_vars

\* That holds for any number of threads, as the strands are there for.
DeliveredOnce == \A c \in Connections : Len(promise[c]) <= 1

\* Every session is used by the thread that made it.
OwnSession ==
  \A s \in Sessions : \A t, u \in users[s] : t = u

\* A thread that waits inside a final_callback waits for the very promise that it is
\* about to fulfil.
WaitsForItself ==
  OwnSession => \A t \in Threads :
    InCallback(t) /\ At(t, "send") /\ Undelivered(job[t].session)
      => last[job[t].session] = job[t].conn

\* The end of the service leaves no response open, but those of sessions of which the
\* caller has a copy: the connections that Send() left behind were done.
Released ==
  service = "gone" =>
    \A c \in Connections : Made(c) => Answered(c) \/ (of[c] \in kept /\ last[of[c]] = c)

\* The io thread is lost: a final_callback waits for its own promise.
Stuck ==
  \E t \in Threads :
    InCallback(t) /\ At(t, "send") /\ Undelivered(job[t].session)

\* Every TLS shutdown ends: the servers answer it or go away.
ShutdownsEnd == \A t \in Threads : []<>~At(t, "shutdown")

\* No call holds its caller for ever, not get(), not Send(), not the destructor of the
\* service, even if no operation of the chain ever completes; unless a final_callback
\* waits for itself, a server never ends a TLS shutdown, or the service went and a copy
\* of the session did not.
CallerReturns ==
  ShutdownsEnd =>
    ((job["caller"].do \in {"get", "send", "join"} /\ ~Runs)
       ~> \/ At("caller", "idle")
          \/ Stuck
          \/ At("caller", "get") /\ service = "gone" /\ of[job["caller"].conn] \in kept)

\* "All received responses will be saved for a dispose_timeout interval. After timeout
\* they will be removed": a session whose last response came in leaves the list, if no
\* thread is held for ever.
Removed ==
  ShutdownsEnd =>
    \A s \in Sessions : last[s] # 0 /\ Answered(last[s]) ~> s \notin ToSet(list)
=============================================================================
