---------------------------- MODULE ServiceProofs ----------------------------
(***************************************************************************)
(* Proofs about Service, for any number of sessions and connections.       *)
(*                                                                         *)
(* What the properties rest on, beyond the types: where each thread can be *)
(* (ThreadInv), what each thread and each handler is about (JobInv,        *)
(* QueueInv), that no connection is ever expired and that Send() leaves    *)
(* only answered connections behind (ConnInv), and that, while the caller  *)
(* does not run handlers, the io thread is inside the end() of a           *)
(* connection only when its promise is empty (PromiseInv).  What a         *)
(* final_callback waits for takes a second invariant, UseInv.              *)
(***************************************************************************)
EXTENDS Service, TLAPS

\* Where the threads can be.
ThreadInv ==
  /\ service = "up" => job["caller"].do # "join"
  /\ service = "stopped" => job["caller"].do = "join"
  /\ service = "gone" => job["caller"].do \in {"idle", "get"} /\ job["io"].do = "run"

\* What a thread is doing, with the states st and the list l.
JobOK(t, j, st, l) ==
  /\ j.conn # 0 => st[j.conn] # "none"
  /\ j.do \in Ending \cup {"get"} => j.conn # 0
  /\ j.do = "handle" => (j.conn = 0 <=> j.kind = "walk")
  /\ j.do = "handle" /\ j.kind = "store" => st[j.conn] = "final"
  /\ j.do \in {"callback", "fulfil", "shutdown"} => st[j.conn] = "final"
  /\ j.do \in {"send", "make"} /\ j.conn # 0 => st[j.conn] = "final"
  /\ j.do = "send" => j.session \in Sessions
  /\ j.do \in {"back", "make"} => l # <<>>
  /\ j.do \in {"idle", "run", "join", "back"} => j.conn = 0
  /\ t = "io" => j.do # "back" /\ (j.do \in {"send", "make"} => j.conn # 0)

JobInv == \A t \in Threads : JobOK(t, job[t], state, list)

\* A handler that is due.
HandlerOK(h, st) ==
  h.conn # 0 => st[h.conn] # "none" /\ (h.kind = "store" => st[h.conn] = "final")

QueueInv == \A i \in DOMAIN queue : HandlerOK(queue[i], state)

ConnInv ==
  /\ \A c \in Connections :
       /\ state[c] # "expired"
       /\ op[c] # "none" \/ timeout[c] \/ store[c] => Made(c)
       /\ store[c] => state[c] = "final"
       /\ Made(c) => of[c] \in Sessions
       /\ Made(c) /\ last[of[c]] # c => Answered(c)
  /\ \A s \in Sessions : last[s] # 0 => Made(last[s]) /\ of[last[s]] = s

\* The promises, while handlers are run by the io thread alone.
PromiseInv ==
  ~Runs =>
    /\ \A c \in Connections :
         /\ Len(promise[c]) <= 1
         /\ service # "gone" /\ state[c] # "final" => promise[c] = <<>>
    /\ job["io"].do = "end" => state[job["io"].conn] # "final"
    /\ job["io"].do \in {"callback", "fulfil", "shutdown", "send", "make"} =>
         promise[job["io"].conn] = <<>>

IInv == TypeOK /\ ThreadInv /\ JobInv /\ QueueInv /\ ConnInv /\ PromiseInv

-----------------------------------------------------------------------------
(* Jobs and handlers.                                                      *)

LEMMA DoingIsJob ==
  ASSUME NEW what \in {"idle", "back", "make", "send", "get", "join",
                       "run", "handle", "end", "callback", "fulfil", "shutdown"}
  PROVE  /\ Doing(what) \in Job /\ Doing(what).do = what /\ Doing(what).conn = 0
BY ServiceAssumption DEF Doing, Job

\* A step in which thread t comes to do j, and the other thread does nothing.
LEMMA JobSteps ==
  ASSUME TypeOK, NEW t \in Threads, NEW j \in Job,
         job' = [job EXCEPT ![t] = j], t = "io" => j.do \notin {"idle", "get", "join"}
  PROVE  /\ job' \in [Threads -> Job] /\ job'["io"].do \notin {"idle", "get", "join"}
         /\ job'[t] = j /\ \A u \in Threads : u # t => job'[u] = job[u]
BY DEF TypeOK, Threads

\* Jobs stay right when connections are only made, a final one stays final, and the
\* list does not become empty.
LEMMA JobStays ==
  ASSUME NEW t \in Threads, NEW j \in Job, NEW st, NEW st2, NEW l, NEW l2,
         JobOK(t, j, st, l),
         \A c \in Connections : st[c] # "none" => st2[c] # "none",
         \A c \in Connections : st[c] = "final" => st2[c] = "final",
         l # <<>> => l2 # <<>>
  PROVE  JobOK(t, j, st2, l2)
<1>1. j.conn = 0 \/ j.conn \in Connections
  BY ServiceAssumption DEF Job, Connections
<1> QED BY <1>1 DEF JobOK, Ending

LEMMA HandlerStays ==
  ASSUME NEW h \in Handler, NEW st, NEW st2, HandlerOK(h, st),
         \A c \in Connections : st[c] # "none" => st2[c] # "none",
         \A c \in Connections : st[c] = "final" => st2[c] = "final"
  PROVE  HandlerOK(h, st2)
BY DEF HandlerOK, Handler

\* JobInv and QueueInv after a step of thread t to j.
LEMMA JobInvStep ==
  ASSUME TypeOK, JobInv, NEW t \in Threads, NEW j \in Job,
         job' = [job EXCEPT ![t] = j],
         JobOK(t, j, state', list'),
         \A c \in Connections : state[c] # "none" => state'[c] # "none",
         \A c \in Connections : state[c] = "final" => state'[c] = "final",
         list # <<>> => list' # <<>>
  PROVE  JobInv'
<1>1. job'[t] = j /\ \A u \in Threads : u # t => job'[u] = job[u] /\ job[u] \in Job
  BY DEF TypeOK
<1>2. \A u \in Threads : JobOK(u, job'[u], state', list')
  <2> TAKE u \in Threads
  <2>1. CASE u = t
    BY <1>1, <2>1
  <2>2. CASE u # t
    <3>1. JobOK(u, job[u], state, list)
      BY DEF JobInv
    <3>2. JobOK(u, job[u], state', list')
      BY <1>1, <2>2, <3>1, JobStays
    <3> QED BY <1>1, <2>2, <3>2
  <2> QED BY <2>1, <2>2
<1> QED BY <1>2 DEF JobInv

LEMMA QueueStays ==
  ASSUME TypeOK, QueueInv, queue' = queue,
         \A c \in Connections : state[c] # "none" => state'[c] # "none",
         \A c \in Connections : state[c] = "final" => state'[c] = "final"
  PROVE  QueueInv'
<1>1. \A i \in DOMAIN queue : queue[i] \in Handler
  BY DEF TypeOK
<1>2. \A i \in DOMAIN queue : HandlerOK(queue[i], state')
  BY <1>1, HandlerStays DEF QueueInv
<1> QED BY <1>2 DEF QueueInv

\* A handler falls due.
LEMMA Enqueued ==
  ASSUME TypeOK, QueueInv, state' = state, NEW c, NEW kind, Enqueue(c, kind),
         [conn |-> c, kind |-> kind] \in Handler,
         HandlerOK([conn |-> c, kind |-> kind], state)
  PROVE  queue' \in Seq(Handler) /\ QueueInv'
<1> DEFINE h == [conn |-> c, kind |-> kind]
<1>1. queue' = Append(queue, h) /\ queue \in Seq(Handler) /\ h \in Handler
  BY DEF Enqueue, TypeOK
<1>2. HandlerOK(h, state)
  OBVIOUS
<1> HIDE DEF h
<1>3. /\ queue' \in Seq(Handler) /\ DOMAIN queue' = 1..Len(queue) + 1
      /\ DOMAIN queue = 1..Len(queue) /\ queue'[Len(queue) + 1] = h
      /\ \A i \in DOMAIN queue : queue'[i] = queue[i]
  BY <1>1
<1>4. \A i \in DOMAIN queue' : HandlerOK(queue'[i], state')
  BY <1>1, <1>2, <1>3 DEF QueueInv
<1> QED BY <1>3, <1>4 DEF QueueInv

\* A handler is taken.
LEMMA Dequeued ==
  ASSUME TypeOK, QueueInv, state' = state, NEW i \in DOMAIN queue,
         queue' = RemoveAt(queue, i)
  PROVE  queue' \in Seq(Handler) /\ QueueInv'
<1>1. queue \in Seq(Handler) /\ i \in 1..Len(queue)
  BY DEF TypeOK
<1>2. queue' = SubSeq(queue, 1, i - 1) \o SubSeq(queue, i + 1, Len(queue))
  BY DEF RemoveAt
<1> DEFINE a == SubSeq(queue, 1, i - 1)
           b == SubSeq(queue, i + 1, Len(queue))
<1>3. /\ a \in Seq(Handler) /\ Len(a) = i - 1
      /\ \A k \in 1..(i - 1) : a[k] = queue[k]
  BY <1>1
<1>4. /\ b \in Seq(Handler) /\ Len(b) = Len(queue) - i
      /\ \A k \in 1..(Len(queue) - i) : b[k] = queue[i + k]
  BY <1>1
<1>5. queue' = a \o b
  BY <1>2
<1> HIDE DEF a, b
<1>6. /\ queue' \in Seq(Handler) /\ Len(queue') = Len(queue) - 1
      /\ \A k \in 1..(Len(queue) - 1) :
           queue'[k] = IF k < i THEN a[k] ELSE b[k - (i - 1)]
  <2>1. Len(queue) \in Nat /\ i \in Nat /\ Len(a) + Len(b) = Len(queue) - 1
    BY <1>1, <1>3, <1>4
  <2> a \in Seq(Handler) /\ b \in Seq(Handler)
    BY <1>3, <1>4
  <2>2. queue' \in Seq(Handler) /\ Len(queue') = Len(a) + Len(b)
    BY <1>5
  <2>3. \A k \in 1..(Len(a) + Len(b)) :
          queue'[k] = IF k <= Len(a) THEN a[k] ELSE b[k - Len(a)]
    BY <1>5
  <2>4. \A k \in 1..(Len(queue) - 1) : k <= i - 1 <=> k < i
    BY <2>1
  <2> QED BY <1>3, <2>1, <2>2, <2>3, <2>4
<1>7. \A k \in 1..(Len(queue) - 1) :
        /\ (IF k < i THEN k ELSE k + 1) \in DOMAIN queue
        /\ queue'[k] = queue[IF k < i THEN k ELSE k + 1]
  <2> TAKE k \in 1..(Len(queue) - 1)
  <2>1. CASE k < i
    BY <1>1, <1>3, <1>6, <2>1
  <2>2. CASE ~(k < i)
    <3> DEFINE m == k - (i - 1)
    <3>1. m \in 1..(Len(queue) - i) /\ i + m = k + 1 /\ k + 1 \in 1..Len(queue)
      BY <1>1, <2>2
    <3>2. queue'[k] = b[m]
      BY <1>6, <2>2
    <3> HIDE DEF m
    <3>3. b[m] = queue[i + m]
      BY <1>4, <3>1
    <3> QED BY <1>1, <2>2, <3>1, <3>2, <3>3
  <2> QED BY <2>1, <2>2
<1>8. DOMAIN queue' = 1..(Len(queue) - 1)
  BY <1>1, <1>6
<1> QED BY <1>6, <1>7, <1>8 DEF QueueInv

-----------------------------------------------------------------------------
(* The actions.                                                            *)

LEMMA InitHolds ==
  ASSUME Init
  PROVE  IInv
<1> USE ServiceAssumption
<1>1. Doing("run") \in Job /\ Doing("idle") \in Job
  BY DEF Doing, Job
<1>2. \A t \in Threads : job[t] = Doing(IF t = "io" THEN "run" ELSE "idle")
  BY DEF Init
<1>3. TypeOK
  <2>1. job \in [Threads -> Job] /\ job["io"].do = "run"
    BY <1>1, <1>2 DEF Init, Threads, Doing
  <2> QED BY <2>1 DEF Init, TypeOK
<1>4. ThreadInv
  BY <1>2 DEF Init, ThreadInv, Threads, Doing
<1>5. JobInv
  BY <1>2 DEF JobInv, JobOK, Ending, Doing, Threads
<1>6. QueueInv /\ ConnInv
  BY DEF Init, QueueInv, ConnInv, Made
<1>7. PromiseInv
  BY <1>2 DEF Init, PromiseInv, Doing, Threads
<1> QED BY <1>3, <1>4, <1>5, <1>6, <1>7 DEF IInv

\* The caller asks for something: the connections are not touched.
LEMMA CallerSteps ==
  ASSUME IInv, NEW j \in Job, job' = [job EXCEPT !["caller"] = j],
         JobOK("caller", j, state, list'),
         UNCHANGED <<connectionVars, queue, walk, kept, service>>,
         job["caller"].do \in {"idle", "get"},
         j.do # "join", service = "up" \/ j.do \in {"idle", "get"},
         list' \in Seq(Sessions), made' \in 0..MaxSessions, users' = users,
         list # <<>> => list' # <<>>
  PROVE  IInv'
<1> USE DEF IInv, connectionVars
<1>1. "caller" \in Threads /\ "io" \in Threads
  BY DEF Threads
<1>2. /\ job' \in [Threads -> Job] /\ job'["io"] = job["io"] /\ job'["caller"] = j
      /\ job'["io"].do \notin {"idle", "get", "join"}
  BY <1>1, JobSteps
<1>3. TypeOK'
  BY <1>2 DEF TypeOK
<1>4. ThreadInv'
  BY <1>2 DEF ThreadInv
<1>5. JobInv'
  <2>1. JobOK("caller", j, state', list')
    OBVIOUS
  <2> QED BY <1>1, <2>1, JobInvStep
<1>6. QueueInv' /\ ConnInv'
  BY DEF QueueInv, ConnInv, Made, Answered
<1>7. ~Runs
  <2>1. job["caller"].do \in {"idle", "get"}
    OBVIOUS
  <2> QED BY <2>1 DEF Runs, Ending, InCallback
<1>8. PromiseInv'
  BY <1>2, <1>7 DEF PromiseInv
<1> QED BY <1>3, <1>4, <1>5, <1>6, <1>8

LEMMA PushBackAdds ==
  ASSUME TypeOK, NEW t, NEW next, PushBack(t, next)
  PROVE  /\ list' \in Seq(Sessions) /\ list' # <<>> /\ made' \in 0..MaxSessions
         /\ IsPrefix(list, list')
<1>1. made + 1 \in Sessions /\ made' = made + 1 /\ list' = Append(list, made + 1)
  BY ServiceAssumption DEF PushBack, TypeOK, Sessions
<1>2. list \in Seq(Sessions)
  BY DEF TypeOK
<1>3. list' \in Seq(Sessions) /\ Len(list') = Len(list) + 1
  BY <1>1, <1>2
<1>4. IsPrefix(list, list')
  <2>1. SubSeq(list, 1, Len(list)) = list
    BY <1>2
  <2>2. SubSeq(list', 1, Len(list)) = list
    BY <1>1, <1>2
  <2> QED BY <1>2, <1>3, <2>1, <2>2 DEF IsPrefix
<1> QED BY <1>1, <1>3, <1>4, ServiceAssumption DEF Sessions

LEMMA NewSessionKeeps ==
  ASSUME IInv, NewSession \/ CallApi
  PROVE  IInv'
<1> USE DEF IInv
<1>1. PICK next \in {"back", "make"} :
        /\ PushBack("caller", next) /\ job["caller"].do = "idle" /\ service = "up"
        /\ UNCHANGED <<service, users, kept, connectionVars, walk, queue>>
  BY DEF NewSession, CallApi, At
<1> DEFINE j == [job["caller"] EXCEPT !.do = next]
<1>2. job["caller"] \in Job /\ JobOK("caller", job["caller"], state, list)
  BY DEF TypeOK, JobInv, Threads
<1>3. job["caller"].conn = 0
  BY <1>1, <1>2 DEF JobOK
<1>4. j \in Job /\ j.do = next /\ j.conn = 0
  BY <1>2, <1>3 DEF Job
<1>5. job' = [job EXCEPT !["caller"] = j]
  BY <1>1 DEF PushBack, GoesTo, TypeOK, Threads
<1>6. list' \in Seq(Sessions) /\ list' # <<>> /\ made' \in 0..MaxSessions
  BY <1>1, PushBackAdds
<1> HIDE DEF j
<1>7. JobOK("caller", j, state, list')
  BY <1>4, <1>6 DEF JobOK, Ending
<1> QED BY <1>1, <1>4, <1>5, <1>6, <1>7, CallerSteps

LEMMA CallSendKeeps ==
  ASSUME IInv, CallSend
  PROVE  IInv'
<1> USE DEF IInv
<1>1. PICK s \in Sessions : job' = [job EXCEPT !["caller"] = [Doing("send") EXCEPT !.session = s]]
  BY DEF CallSend
<1> DEFINE j == [Doing("send") EXCEPT !.session = s]
<1>2. j \in Job /\ j.do = "send" /\ j.conn = 0 /\ j.session = s
  BY ServiceAssumption DEF Doing, Job, Sessions
<1>3. /\ job["caller"].do = "idle" /\ service = "up"
      /\ UNCHANGED <<service, sessionVars, connectionVars, walk, queue>>
  BY DEF CallSend, At
<1> HIDE DEF j
<1>4. JobOK("caller", j, state, list')
  BY <1>2 DEF JobOK, Ending
<1>5. job' = [job EXCEPT !["caller"] = j]
  BY <1>1 DEF j
<1> QED BY <1>2, <1>3, <1>4, <1>5, CallerSteps DEF TypeOK, sessionVars

LEMMA GetKeeps ==
  ASSUME IInv, CallGet \/ GetReturns \/ Run
  PROVE  IInv'
<1> USE DEF IInv
<1>1. /\ UNCHANGED <<service, sessionVars, connectionVars, walk, queue>>
      /\ job["caller"].do \in {"idle", "get"}
  BY DEF CallGet, GetReturns, Run, At
<1>2. job["caller"] \in Job /\ JobOK("caller", job["caller"], state, list)
  BY DEF TypeOK, JobInv, Threads
<1>3. CASE CallGet
  <2>1. PICK c \in Connections :
          Made(c) /\ job' = [job EXCEPT !["caller"] = [Doing("get") EXCEPT !.conn = c]]
    BY <1>3 DEF CallGet
  <2> DEFINE j == [Doing("get") EXCEPT !.conn = c]
  <2>2. j \in Job /\ j.do = "get" /\ j.conn = c
    BY ServiceAssumption DEF Doing, Job, Connections
  <2>3. job' = [job EXCEPT !["caller"] = j]
    BY <2>1
  <2>4. state[j.conn] # "none" /\ j.conn # 0
    BY <2>1, <2>2 DEF Made, Connections
  <2> HIDE DEF j
  <2>5. JobOK("caller", j, state, list')
    BY <2>2, <2>4 DEF JobOK, Ending
  <2> QED BY <1>1, <2>2, <2>3, <2>5, CallerSteps DEF TypeOK, sessionVars
<1>4. CASE GetReturns
  <2> DEFINE j == Doing("idle")
  <2>1. j \in Job /\ j.do = "idle" /\ j.conn = 0 /\ job' = [job EXCEPT !["caller"] = j]
    BY <1>4, DoingIsJob DEF GetReturns
  <2> HIDE DEF j
  <2>2. JobOK("caller", j, state, list')
    BY <2>1 DEF JobOK, Ending
  <2> QED BY <1>1, <2>1, <2>2, CallerSteps DEF TypeOK, sessionVars
<1>5. CASE Run
  <2> DEFINE j == [job["caller"] EXCEPT !.do = "run"]
  <2>1. job["caller"].do = "idle" /\ service = "up"
    BY <1>5 DEF Run, At
  <2>2. j \in Job /\ j.do = "run" /\ j.conn = 0
    BY <1>2, <2>1 DEF JobOK, Job
  <2>3. job' = [job EXCEPT !["caller"] = j]
    BY <1>5 DEF Run, GoesTo, TypeOK, Threads
  <2> HIDE DEF j
  <2>4. JobOK("caller", j, state, list')
    BY <2>2 DEF JobOK, Ending
  <2> QED BY <1>1, <2>1, <2>2, <2>3, <2>4, CallerSteps DEF TypeOK, sessionVars
<1> QED BY <1>3, <1>4, <1>5

\* ~service_data_t() stops the service.
LEMMA StopKeeps ==
  ASSUME IInv, Stop
  PROVE  IInv'
<1> USE DEF IInv
<1> DEFINE j == [job["caller"] EXCEPT !.do = "join"]
<1>1. /\ job["caller"].do = "idle" /\ service = "up" /\ service' = "stopped"
      /\ job' = [job EXCEPT !["caller"] = j]
      /\ kept' \subseteq Sessions /\ queue' = <<>> /\ walk' = FALSE
      /\ op' = [c \in Connections |-> "none"]
      /\ timeout' = [c \in Connections |-> FALSE] /\ store' = timeout'
      /\ UNCHANGED <<list, made, users, last, of, state, promise>>
  BY DEF Stop, At, GoesTo, TypeOK, Threads
<1>2. "caller" \in Threads /\ "io" \in Threads
  BY DEF Threads
<1>3. job["caller"] \in Job /\ JobOK("caller", job["caller"], state, list)
  BY <1>2 DEF TypeOK, JobInv
<1>4. j \in Job /\ j.do = "join" /\ j.conn = 0
  BY <1>1, <1>3 DEF JobOK, Job
<1> HIDE DEF j
<1>5. /\ job' \in [Threads -> Job] /\ job'["io"] = job["io"] /\ job'["caller"] = j
      /\ job'["io"].do \notin {"idle", "get", "join"}
  BY <1>1, <1>2, <1>4, JobSteps
<1>6. TypeOK'
  <2>1. /\ op' \in [Connections -> {"none", "resolve", "chain"}]
        /\ timeout' \in [Connections -> BOOLEAN] /\ store' \in [Connections -> BOOLEAN]
    BY <1>1
  <2>2. queue' \in Seq(Handler)
    BY <1>1
  <2> QED BY <1>1, <1>5, <2>1, <2>2 DEF TypeOK
<1>7. ThreadInv'
  BY <1>1, <1>4, <1>5 DEF ThreadInv
<1>8. JobInv'
  <2>1. JobOK("caller", j, state', list')
    BY <1>4 DEF JobOK, Ending
  <2> QED BY <1>1, <1>2, <1>4, <2>1, JobInvStep
<1>9. QueueInv' /\ ConnInv'
  BY <1>1 DEF QueueInv, ConnInv, Made, Answered
<1>10. ~Runs
  BY <1>1 DEF Runs, Ending, InCallback
<1>11. PromiseInv'
  BY <1>1, <1>5, <1>10 DEF PromiseInv
<1> QED BY <1>6, <1>7, <1>8, <1>9, <1>11

\* The io thread has ended, and the members of the service go.
LEMMA JoinKeeps ==
  ASSUME IInv, Join
  PROVE  IInv'
<1> USE DEF IInv
<1> DEFINE j == [job["caller"] EXCEPT !.do = "idle"]
           Breaks(c) == Made(c) /\ ~Answered(c) /\ ~Held(c)
<1>1. /\ job["caller"].do = "join" /\ job["io"].do = "run" /\ service' = "gone"
      /\ job' = [job EXCEPT !["caller"] = j] /\ list' = <<>>
      /\ promise' = [c \in Connections |-> IF Breaks(c) THEN <<"broken">> ELSE promise[c]]
      /\ UNCHANGED <<made, users, kept, last, of, state, op, timeout, store, walk, queue>>
  BY DEF Join, At, GoesTo, TypeOK, Threads
<1>2. "caller" \in Threads /\ "io" \in Threads
  BY DEF Threads
<1>3. \A t \in Threads : job[t] \in Job /\ JobOK(t, job[t], state, list)
  BY DEF TypeOK, JobInv
<1>4. j \in Job /\ j.do = "idle" /\ j.conn = 0
  BY <1>1, <1>2, <1>3 DEF JobOK, Job
<1> HIDE DEF j
<1>5. /\ job' \in [Threads -> Job] /\ job'["io"] = job["io"] /\ job'["caller"] = j
  BY <1>1, <1>2, <1>4, JobSteps
<1>6. promise' \in [Connections -> Seq(Outcome)]
  <2>1. <<"broken">> \in Seq(Outcome)
    BY DEF Outcome
  <2> HIDE DEF Breaks
  <2> QED BY <1>1, <2>1 DEF TypeOK
<1>7. TypeOK'
  BY <1>1, <1>5, <1>6 DEF TypeOK
<1>8. ThreadInv'
  BY <1>1, <1>4, <1>5 DEF ThreadInv
<1>9. JobInv'
  <2>1. JobOK("caller", j, state', list')
    BY <1>4 DEF JobOK, Ending
  <2>2. job["io"].conn = 0
    BY <1>1, <1>2, <1>3 DEF JobOK
  <2>3. JobOK("io", job["io"], state', list')
    BY <1>1, <2>2 DEF JobOK, Ending
  <2> QED BY <1>5, <2>1, <2>3 DEF JobInv, Threads
<1>10. QueueInv'
  BY <1>1 DEF QueueInv
<1>11. \A c \in Connections : Answered(c) => promise'[c] # <<>>
  BY <1>1 DEF Answered
<1>12. ConnInv'
  BY <1>1, <1>11 DEF ConnInv, Made, Answered
<1>13. ~Runs
  BY <1>1 DEF Runs, Ending, InCallback
<1>14. PromiseInv'
  <2>1. \A c \in Connections : Len(promise'[c]) <= 1
    <3>1. Len(<<"broken">>) <= 1
      OBVIOUS
    <3> HIDE DEF Breaks
    <3> QED BY <1>1, <1>13, <3>1 DEF PromiseInv
  <2> QED BY <1>1, <1>5, <2>1 DEF PromiseInv
<1> QED BY <1>7, <1>8, <1>9, <1>10, <1>12, <1>14

\* An operation completes, or a timer elapses.
LEMMA WorldKeeps ==
  ASSUME IInv, World, \A t \in Threads : ~PeerCloses(t)
  PROVE  IInv'
<1> USE DEF IInv
<1> DEFINE Quiet ==
      /\ UNCHANGED <<service, sessionVars, last, of, state, promise, job>>
      /\ op' \in [Connections -> {"none", "resolve", "chain"}]
      /\ timeout' \in [Connections -> BOOLEAN] /\ store' \in [Connections -> BOOLEAN]
      /\ walk' \in BOOLEAN
      /\ \A c \in Connections :
           /\ op'[c] # "none" => op[c] # "none"
           /\ timeout'[c] => timeout[c]
           /\ store'[c] => store[c]
           Due(c, kind) ==
      /\ Enqueue(c, kind) /\ (c = 0 <=> kind = "walk")
      /\ c # 0 => Made(c)
      /\ kind = "store" => state[c] = "final"
<1>1. Quiet
  <2>1. CASE Complete
    BY <2>1 DEF Complete, TypeOK
  <2>2. CASE ElapseWalk
    BY <2>2 DEF ElapseWalk, TypeOK, connectionVars
  <2>3. ASSUME NEW c \in Connections, Elapse(c) \/ ElapseStore(c)
        PROVE  Quiet
    BY <2>3 DEF Elapse, ElapseStore, TypeOK
  <2> QED BY <2>1, <2>2, <2>3 DEF World
<1>2. PICK c \in Connections \cup {0}, kind \in {"resolve", "chain", "timeout", "store", "walk"} :
        Due(c, kind)
  <2>1. CASE Complete
    <3>1. PICK c \in Connections : op[c] # "none" /\ Enqueue(c, op[c])
      BY <2>1 DEF Complete
    <3> QED BY <3>1 DEF TypeOK, ConnInv, Connections
  <2>2. CASE ElapseWalk
    BY <2>2 DEF ElapseWalk
  <2>3. ASSUME NEW d \in Connections, Elapse(d) \/ ElapseStore(d)
        PROVE  Due(d, "timeout") \/ Due(d, "store")
    BY <2>3 DEF Elapse, ElapseStore, ConnInv, Connections
  <2> QED BY <2>1, <2>2, <2>3 DEF World
<1>3. queue' \in Seq(Handler) /\ QueueInv'
  <2> DEFINE h == [conn |-> c, kind |-> kind]
  <2>1. h \in Handler /\ HandlerOK(h, state)
    BY <1>2 DEF Handler, HandlerOK, Made
  <2> QED BY <1>1, <1>2, <2>1, Enqueued
<1>4. TypeOK'
  BY <1>1, <1>3 DEF TypeOK, sessionVars
<1>5. ThreadInv' /\ JobInv'
  BY <1>1 DEF ThreadInv, JobInv, sessionVars
<1>6. ConnInv'
  BY <1>1 DEF ConnInv, Made, Answered
<1>7. PromiseInv'
  BY <1>1 DEF PromiseInv, Runs, Ending, InCallback
<1> QED BY <1>3, <1>4, <1>5, <1>6, <1>7

\* Thread t goes from one part of what it is doing to the next.
LEMMA ThreadSteps ==
  ASSUME IInv, NEW t \in Threads, NEW j \in Job, job' = [job EXCEPT ![t] = j],
         job[t].do \notin {"idle", "get", "join"}, service = "up" \/ job[t].do # "run",
         j.do \notin {"get", "join"}, t = "io" => j.do # "idle", service' = service
  PROVE  /\ job' \in [Threads -> Job] /\ job'["io"].do \notin {"idle", "get", "join"}
         /\ job'[t] = j /\ (\A u \in Threads : u # t => job'[u] = job[u])
         /\ ThreadInv' /\ service # "gone"
<1>1. /\ job' \in [Threads -> Job] /\ job'["io"].do \notin {"idle", "get", "join"}
      /\ job'[t] = j /\ \A u \in Threads : u # t => job'[u] = job[u]
  BY JobSteps DEF IInv
<1>2. service # "gone" /\ (t = "caller" => service = "up")
  <2>1. service \in {"up", "stopped", "gone"}
    BY DEF IInv, TypeOK
  <2> QED BY <2>1 DEF IInv, ThreadInv, Threads
<1>3. ThreadInv'
  BY <1>1, <1>2 DEF IInv, ThreadInv, Threads
<1> QED BY <1>1, <1>2, <1>3

\* A handler that does not end its connection.
LEMMA HandlerSteps ==
  ASSUME IInv, NEW t \in Threads, NEW j \in Job, job' = [job EXCEPT ![t] = j],
         job[t].do = "handle", j.do \in {"run", "handle", "end"},
         JobOK(t, j, state, list), j.do = "end" => state[j.conn] # "final",
         UNCHANGED <<service, list, made, users, kept, last, of, state, timeout, store,
                     promise, queue>>,
         op' \in [Connections -> {"none", "resolve", "chain"}],
         \A c \in Connections : op'[c] # "none" => Made(c), walk' \in BOOLEAN
  PROVE  IInv'
<1>1. /\ job' \in [Threads -> Job] /\ job'["io"].do \notin {"idle", "get", "join"}
      /\ job'[t] = j /\ (\A u \in Threads : u # t => job'[u] = job[u])
      /\ ThreadInv'
  BY ThreadSteps
<1>2. TypeOK'
  BY <1>1 DEF IInv, TypeOK
<1>3. JobInv'
  <2>1. JobOK(t, j, state', list')
    OBVIOUS
  <2> QED BY <2>1, JobInvStep DEF IInv
<1>4. QueueInv'
  BY DEF IInv, QueueInv
<1>5. ConnInv'
  BY DEF IInv, ConnInv, Made, Answered
<1>6. PromiseInv'
  <2>1. CASE t = "caller"
    BY <1>1, <2>1 DEF PromiseInv, Runs, Ending
  <2>2. CASE t = "io"
    BY <1>1, <2>2 DEF IInv, PromiseInv, Runs, Ending, InCallback, Threads
  <2> QED BY <2>1, <2>2 DEF Threads
<1> QED BY <1>1, <1>2, <1>3, <1>4, <1>5, <1>6 DEF IInv

\* A handler leaves.
LEMMA LeaveSteps ==
  ASSUME IInv, NEW t \in Threads, Leave(t), job[t].do = "handle",
         UNCHANGED <<service, list, made, users, kept, last, of, state, timeout, store,
                     promise, queue>>,
         op' \in [Connections -> {"none", "resolve", "chain"}],
         \A c \in Connections : op'[c] # "none" => Made(c), walk' \in BOOLEAN
  PROVE  IInv'
<1> DEFINE j == Doing("run")
<1>1. j \in Job /\ j.do = "run" /\ j.conn = 0 /\ job' = [job EXCEPT ![t] = j]
  BY DoingIsJob DEF Leave
<1> HIDE DEF j
<1>2. JobOK(t, j, state, list)
  BY <1>1 DEF JobOK, Ending
<1> QED BY <1>1, <1>2, HandlerSteps

LEMMA HandledConn ==
  ASSUME IInv, NEW t \in Threads, job[t].do = "handle", job[t].kind # "walk"
  PROVE  /\ job[t] \in Job /\ job[t].conn \in Connections /\ Made(job[t].conn)
         /\ job[t].kind = "store" => state[job[t].conn] = "final"
<1>1. job[t] \in Job /\ JobOK(t, job[t], state, list)
  BY DEF IInv, TypeOK, JobInv
<1>2. job[t].conn \in 0..MaxConnections /\ job[t].conn # 0
  BY <1>1 DEF Job, JobOK
<1>3. job[t].conn \in Connections
  BY <1>2, ServiceAssumption DEF Connections
<1> QED BY <1>1, <1>2, <1>3 DEF JobOK, Made

LEMMA ChainKeeps ==
  ASSUME IInv, NEW t \in Threads, GoOn(t) \/ GiveUp(t) \/ Conclude(t)
  PROVE  IInv'
<1>1. /\ job[t].do = "handle" /\ job[t].kind # "walk"
      /\ UNCHANGED <<service, sessionVars, last, of, state, timeout, store, promise,
                     walk, queue>>
  BY DEF GoOn, GiveUp, Conclude, Handling, At, connectionVars
<1>2. job[t] \in Job /\ job[t].conn \in Connections /\ Made(job[t].conn)
  BY <1>1, HandledConn
<1>3. /\ walk' \in BOOLEAN /\ op \in [Connections -> {"none", "resolve", "chain"}]
      /\ \A c \in Connections : op[c] # "none" => Made(c)
  BY <1>1 DEF IInv, TypeOK, ConnInv
<1>4. CASE GoOn(t)
  <2>1. PICK next \in {"resolve", "chain"} : op' = [op EXCEPT ![job[t].conn] = next]
    BY <1>4 DEF GoOn
  <2>2. /\ op' \in [Connections -> {"none", "resolve", "chain"}]
        /\ \A c \in Connections : op'[c] # "none" => Made(c)
    BY <1>2, <1>3, <2>1
  <2> QED BY <1>1, <1>3, <1>4, <2>2, LeaveSteps DEF GoOn, sessionVars
<1>5. CASE GiveUp(t)
  BY <1>1, <1>3, <1>5, LeaveSteps DEF GiveUp, sessionVars, connectionVars
<1>6. CASE Conclude(t) /\ InFinalState(job[t].conn)
  BY <1>1, <1>3, <1>6, LeaveSteps DEF Conclude, sessionVars, connectionVars
<1>7. CASE Conclude(t) /\ ~InFinalState(job[t].conn)
  <2> DEFINE j == [job[t] EXCEPT !.do = "end"]
  <2>1. job' = [job EXCEPT ![t] = j]
    BY <1>7 DEF Conclude, GoesTo, IInv, TypeOK
  <2>2. j \in Job /\ j.do = "end" /\ j.conn = job[t].conn
    BY <1>2 DEF Job
  <2> HIDE DEF j
  <2>3. state[j.conn] # "none" /\ state[j.conn] # "final" /\ j.conn # 0
    BY <1>2, <1>7, <2>2 DEF Made, InFinalState, Connections
  <2>4. JobOK(t, j, state, list)
    BY <2>2, <2>3 DEF JobOK, Ending
  <2> QED BY <1>1, <1>3, <1>7, <2>1, <2>2, <2>3, <2>4, HandlerSteps
          DEF Conclude, sessionVars, connectionVars
<1> QED BY <1>4, <1>5, <1>6, <1>7

\* set_dispose() finds its connection in a final state, and leaves it so.
LEMMA SetDisposeKeeps ==
  ASSUME IInv, NEW t \in Threads, SetDispose(t)
  PROVE  IInv'
<1>1. /\ job[t].do = "handle" /\ job[t].kind = "store" /\ Leave(t)
      /\ state' = [state EXCEPT ![job[t].conn] = IF @ = "final" THEN @ ELSE "expired"]
      /\ UNCHANGED <<service, sessionVars, last, of, op, timeout, store, promise, walk, queue>>
  BY DEF SetDispose, Handling, At
<1>2. job[t].conn \in Connections /\ state[job[t].conn] = "final"
  BY <1>1, HandledConn
<1>3. state' = state
  BY <1>1, <1>2 DEF IInv, TypeOK
<1>4. op' \in [Connections -> {"none", "resolve", "chain"}] /\ walk' \in BOOLEAN
      /\ \A c \in Connections : op'[c] # "none" => Made(c)
  BY <1>1 DEF IInv, TypeOK, ConnInv
<1> QED BY <1>1, <1>3, <1>4, LeaveSteps DEF sessionVars

\* No connection is ever expired.
LEMMA NoneExpires ==
  ASSUME IInv, NEW s \in Sessions
  PROVE  ~IsExpired(s)
BY DEF IInv, TypeOK, ConnInv, IsExpired, Connections

LEMMA WalkKeeps ==
  ASSUME IInv, NEW t \in Threads, Walk(t) \/ WalkEnds(t)
  PROVE  IInv' /\ list' = list
<1>1. /\ job[t].do = "handle" /\ job[t].kind = "walk"
      /\ UNCHANGED <<service, made, users, kept, connectionVars, queue>>
      /\ job[t] \in Job /\ JobOK(t, job[t], state, list)
  BY DEF Walk, WalkEnds, Handling, At, sessionVars, IInv, TypeOK, JobInv
<1>2. op' \in [Connections -> {"none", "resolve", "chain"}]
      /\ \A c \in Connections : op'[c] # "none" => Made(c)
  BY <1>1 DEF IInv, TypeOK, ConnInv, connectionVars
<1>3. CASE Walk(t)
  <2> DEFINE j == [job[t] EXCEPT !.at = @ + 1]
  <2>1. job[t].at + 1 \in 1..Len(list) /\ list \in Seq(Sessions)
    BY <1>1, <1>3 DEF Walk, IInv, TypeOK, Job
  <2>2. list[job[t].at + 1] \in Sessions
    BY <2>1
  <2>3. ~IsExpired(list[job[t].at + 1])
    BY <2>2, NoneExpires
  <2>4. list' = list /\ job' = [job EXCEPT ![t].at = @ + 1] /\ walk' = walk
    BY <1>3, <2>3 DEF Walk
  <2>5. job' = [job EXCEPT ![t] = j]
    BY <2>4 DEF IInv, TypeOK
  <2>6. /\ j \in Job /\ j.do = "handle" /\ j.conn = job[t].conn /\ j.kind = job[t].kind
    BY <1>1 DEF Job
  <2> HIDE DEF j
  <2>7. JobOK(t, j, state, list)
    BY <1>1, <2>6 DEF JobOK, Ending
  <2>8. walk' \in BOOLEAN
    BY <2>4 DEF IInv, TypeOK
  <2> QED BY <1>1, <1>2, <2>4, <2>5, <2>6, <2>7, <2>8, HandlerSteps DEF connectionVars
<1>4. CASE WalkEnds(t)
  BY <1>1, <1>2, <1>4, LeaveSteps DEF WalkEnds, sessionVars, connectionVars
<1> QED BY <1>3, <1>4

LEMMA TakeKeeps ==
  ASSUME IInv, NEW t \in Threads, Take(t)
  PROVE  IInv'
<1>1. PICK i \in DOMAIN queue :
        /\ queue' = RemoveAt(queue, i)
        /\ job' = [job EXCEPT ![t] = [Doing("handle") EXCEPT !.conn = queue[i].conn,
                                                             !.kind = queue[i].kind]]
  BY DEF Take
<1> DEFINE h == queue[i]
           j == [Doing("handle") EXCEPT !.conn = h.conn, !.kind = h.kind]
<1>2. /\ job[t].do = "run" /\ service = "up"
      /\ UNCHANGED <<service, sessionVars, connectionVars, walk>>
  BY DEF Take, At
<1>3. h \in Handler /\ HandlerOK(h, state)
  BY DEF IInv, TypeOK, QueueInv
<1> HIDE DEF h
<1>4. j \in Job /\ j.do = "handle" /\ j.conn = h.conn /\ j.kind = h.kind
  <2>1. /\ h.conn \in 0..MaxConnections
        /\ h.kind \in {"resolve", "chain", "timeout", "store", "walk"}
    BY <1>3, ServiceAssumption DEF Handler, Connections
  <2>2. Doing("handle") \in Job /\ Doing("handle").do = "handle"
    BY DoingIsJob
  <2> QED BY <2>1, <2>2 DEF Job
<1>5. job' = [job EXCEPT ![t] = j]
  BY <1>1 DEF h
<1> HIDE DEF j
<1>6. JobOK(t, j, state, list)
  <2>1. h.conn = 0 <=> h.kind = "walk"
    BY <1>3 DEF Handler, Connections
  <2>2. h.kind = "store" => h.conn # 0
    BY <2>1
  <2> QED BY <1>3, <1>4, <2>1, <2>2 DEF JobOK, Ending, HandlerOK
<1>7. /\ job' \in [Threads -> Job] /\ job'["io"].do \notin {"idle", "get", "join"}
      /\ job'[t] = j /\ (\A u \in Threads : u # t => job'[u] = job[u])
      /\ ThreadInv'
  BY <1>2, <1>4, <1>5, ThreadSteps
<1>8. queue' \in Seq(Handler) /\ QueueInv'
  BY <1>1, <1>2, Dequeued DEF IInv, connectionVars
<1>9. TypeOK'
  BY <1>2, <1>7, <1>8 DEF IInv, TypeOK, sessionVars, connectionVars
<1>10. JobInv'
  <2>1. state' = state /\ list' = list
    BY <1>2 DEF sessionVars, connectionVars
  <2> QED BY <1>4, <1>5, <1>6, <2>1, JobInvStep DEF IInv
<1>11. ConnInv'
  BY <1>2 DEF IInv, ConnInv, Made, Answered, connectionVars
<1>12. PromiseInv'
  <2>1. CASE t = "caller"
    BY <1>4, <1>7, <2>1 DEF PromiseInv, Runs, Ending
  <2>2. CASE t = "io"
    BY <1>2, <1>4, <1>7, <2>2
    DEF IInv, PromiseInv, Runs, Ending, InCallback, Threads, connectionVars
  <2> QED BY <2>1, <2>2 DEF Threads
<1> QED BY <1>7, <1>8, <1>9, <1>10, <1>11, <1>12 DEF IInv

\* new_session() has put the session in the list; it is there.
LEMMA BackKeeps ==
  ASSUME IInv, NEW t \in Threads, Back(t)
  PROVE  IInv'
<1> DEFINE s == Last(list)
           j == IF At(t, "make") THEN [job[t] EXCEPT !.do = "send", !.session = s]
                                 ELSE Doing("idle")
<1>1. /\ job[t].do \in {"back", "make"}
      /\ users' = [users EXCEPT ![s] = @ \cup {t}]
      /\ job' = [job EXCEPT ![t] = j]
      /\ UNCHANGED <<service, list, made, kept, connectionVars, walk, queue>>
  BY DEF Back, IInv, TypeOK, At
<1>2. job[t] \in Job /\ JobOK(t, job[t], state, list) /\ list \in Seq(Sessions)
  BY DEF IInv, TypeOK, JobInv
<1>3. s \in Sessions
  <2>1. list # <<>>
    BY <1>1, <1>2 DEF JobOK
  <2> QED BY <1>2, <2>1 DEF Last
<1>4. /\ j \in Job
      /\ At(t, "make") => j.do = "send" /\ j.conn = job[t].conn /\ j.session = s
      /\ ~At(t, "make") => j.do = "idle" /\ j.conn = 0
  <2>1. s \in 0..MaxSessions
    BY <1>3, ServiceAssumption DEF Sessions
  <2> HIDE DEF s
  <2>2. CASE At(t, "make")
    BY <1>2, <2>1, <2>2 DEF Job
  <2>3. CASE ~At(t, "make")
    BY <2>3, DoingIsJob
  <2> QED BY <2>2, <2>3
<1> HIDE DEF j, s
<1>5. JobOK(t, j, state, list) /\ (t = "io" => j.do # "idle")
  <2>1. CASE At(t, "make")
    BY <1>2, <1>3, <1>4, <2>1 DEF JobOK, Ending, At
  <2>2. CASE ~At(t, "make")
    BY <1>1, <1>2, <1>4, <2>2 DEF JobOK, Ending, At
  <2> QED BY <2>1, <2>2
<1>6. /\ job' \in [Threads -> Job] /\ job'["io"].do \notin {"idle", "get", "join"}
      /\ job'[t] = j /\ (\A u \in Threads : u # t => job'[u] = job[u])
      /\ ThreadInv'
  BY <1>1, <1>4, <1>5, ThreadSteps
<1>7. TypeOK'
  <2>1. users' \in [Sessions -> SUBSET Threads]
    BY <1>1, <1>3 DEF IInv, TypeOK
  <2> QED BY <1>1, <1>6, <2>1 DEF IInv, TypeOK, connectionVars
<1>8. JobInv'
  <2>1. state' = state
    BY <1>1 DEF connectionVars
  <2> QED BY <1>1, <1>4, <1>5, <2>1, JobInvStep DEF IInv
<1>9. QueueInv' /\ ConnInv'
  BY <1>1 DEF IInv, QueueInv, ConnInv, Made, Answered, connectionVars
<1>10. PromiseInv'
  <2>1. CASE t = "caller"
    <3>1. Runs <=> Runs'
      BY <1>1, <1>4, <1>6, <2>1 DEF Runs, Ending, InCallback, At
    <3>2. job'["io"] = job["io"]
      BY <1>6, <2>1 DEF Threads
    <3> QED BY <1>1, <3>1, <3>2 DEF IInv, PromiseInv, connectionVars
  <2>2. CASE t = "io"
    <3>1. job[t].do = "make" /\ j.do = "send" /\ j.conn = job[t].conn
      BY <1>1, <1>4, <1>5, <2>2 DEF At
    <3> QED BY <1>1, <1>6, <2>2, <3>1
        DEF IInv, PromiseInv, Runs, Ending, InCallback, Threads, connectionVars
  <2> QED BY <2>1, <2>2 DEF Threads
<1> QED BY <1>6, <1>7, <1>8, <1>9, <1>10 DEF IInv

\* Send() goes back.
LEMMA ReturnsSteps ==
  ASSUME IInv, NEW t \in Threads, job[t].do = "send"
  PROVE  /\ Returns(t) \in Job
         /\ InCallback(t) => Returns(t).do = "fulfil" /\ Returns(t).conn = job[t].conn
         /\ ~InCallback(t) => Returns(t) = Doing("idle") /\ job[t].conn = 0 /\ t = "caller"
         /\ InCallback(t) => job[t].conn \in Connections /\ state[job[t].conn] = "final"
<1>1. job[t] \in Job /\ JobOK(t, job[t], state, list)
  BY DEF IInv, TypeOK, JobInv
<1>2. CASE InCallback(t)
  <2>1. Returns(t) = [job[t] EXCEPT !.do = "fulfil"]
    BY <1>2 DEF Returns
  <2>2. job[t].conn \in Connections
    BY <1>1, <1>2, ServiceAssumption DEF Job, InCallback, Connections
  <2>3. state[job[t].conn] = "final"
    BY <1>1, <1>2 DEF JobOK, InCallback
  <2> QED BY <1>1, <1>2, <2>1, <2>2, <2>3 DEF Job
<1>3. CASE ~InCallback(t)
  <2>1. Returns(t) = Doing("idle")
    BY <1>3 DEF Returns
  <2>2. job[t].conn = 0 /\ t = "caller"
    BY <1>1, <1>3 DEF InCallback, JobOK, Threads
  <2> QED BY <1>3, <2>1, <2>2, DoingIsJob
<1> QED BY <1>2, <1>3

LEMMA StartKeeps ==
  ASSUME IInv, NEW t \in Threads, Start(t)
  PROVE  IInv'
<1> DEFINE s == job[t].session
<1>1. /\ job[t].do = "send" /\ ~Undelivered(s) /\ job' = [job EXCEPT ![t] = Returns(t)]
      /\ UNCHANGED <<service, list, made, users, kept, store, promise, walk, queue>>
  BY DEF Start, At, sessionVars
<1>2. PICK c \in Connections, first \in {"resolve", "chain"} :
        /\ state[c] = "none"
        /\ last' = [last EXCEPT ![s] = c] /\ of' = [of EXCEPT ![c] = s]
        /\ state' = [state EXCEPT ![c] = "running"]
        /\ op' = [op EXCEPT ![c] = first] /\ timeout' = [timeout EXCEPT ![c] = TRUE]
  BY DEF Start, FreeConnections, Made
<1>3. s \in Sessions
  BY <1>1 DEF IInv, JobInv, JobOK
<1> HIDE DEF s
<1> DEFINE j == Returns(t)
<1>4. /\ j \in Job
      /\ InCallback(t) => j.do = "fulfil" /\ j.conn = job[t].conn
      /\ ~InCallback(t) => j.do = "idle" /\ j.conn = 0 /\ job[t].conn = 0 /\ t = "caller"
      /\ InCallback(t) => job[t].conn \in Connections /\ state[job[t].conn] = "final"
  BY <1>1, ReturnsSteps, DoingIsJob
<1>5. job' = [job EXCEPT ![t] = j]
  BY <1>1
<1> HIDE DEF j
<1>6. /\ \A d \in Connections : state[d] # "none" => state'[d] # "none"
      /\ \A d \in Connections : state'[d] = "final" <=> state[d] = "final"
      /\ \A d \in Connections : state'[d] # "expired"
      /\ \A d \in Connections : state'[d] # "none" <=> d = c \/ state[d] # "none"
  BY <1>2 DEF IInv, TypeOK, ConnInv
<1>7. JobOK(t, j, state', list')
  <2>1. CASE InCallback(t)
    BY <1>4, <1>6, <2>1 DEF JobOK, Ending, Connections
  <2>2. CASE ~InCallback(t)
    BY <1>4, <2>2 DEF JobOK, Ending
  <2> QED BY <2>1, <2>2
<1>8. /\ job' \in [Threads -> Job] /\ job'["io"].do \notin {"idle", "get", "join"}
      /\ job'[t] = j /\ (\A u \in Threads : u # t => job'[u] = job[u])
      /\ ThreadInv'
  <2>1. j.do \in {"fulfil", "idle"} /\ (t = "io" => j.do # "idle")
    BY <1>4
  <2> QED BY <1>1, <1>4, <1>5, <2>1, ThreadSteps
<1>9. TypeOK'
  <2>1. last' \in [Sessions -> 0..MaxConnections] /\ of' \in [Connections -> 0..MaxSessions]
    BY <1>2, <1>3, ServiceAssumption DEF IInv, TypeOK, Sessions, Connections
  <2>2. /\ state' \in [Connections -> {"none", "running", "final", "expired"}]
        /\ op' \in [Connections -> {"none", "resolve", "chain"}]
        /\ timeout' \in [Connections -> BOOLEAN]
    BY <1>2 DEF IInv, TypeOK
  <2> QED BY <1>1, <1>8, <2>1, <2>2 DEF IInv, TypeOK
<1>10. JobInv'
  BY <1>1, <1>4, <1>5, <1>6, <1>7, JobInvStep DEF IInv
<1>11. QueueInv'
  BY <1>1, <1>6, QueueStays DEF IInv
<1>12. ConnInv'
  <2>1. \A d \in Connections :
          /\ op'[d] # "none" \/ timeout'[d] \/ store'[d] => state'[d] # "none"
          /\ store'[d] => state'[d] = "final"
    BY <1>1, <1>2, <1>6 DEF IInv, TypeOK, ConnInv, Made
  <2>2. \A d \in Connections : state'[d] # "none" => of'[d] \in Sessions
    BY <1>2, <1>3, <1>6 DEF IInv, TypeOK, ConnInv, Made
  <2>3. \A d \in Connections :
          state'[d] # "none" /\ last'[of'[d]] # d => promise[d] # <<>>
    <3> TAKE d \in Connections
    <3> HAVE state'[d] # "none" /\ last'[of'[d]] # d
    <3>1. d # c
      BY <1>2, <1>3 DEF IInv, TypeOK
    <3>2. of'[d] = of[d] /\ Made(d) /\ of[d] \in Sessions
      BY <1>2, <1>6, <3>1 DEF IInv, TypeOK, ConnInv, Made
    <3>3. CASE last[of[d]] # d
      BY <3>2, <3>3 DEF IInv, ConnInv, Answered
    <3>4. CASE last[of[d]] = d
      <4>1. of[d] = s
        BY <1>2, <1>3, <3>2, <3>4 DEF IInv, TypeOK
      <4> QED BY <1>1, <3>4, <4>1 DEF Undelivered, Answered, Connections
    <3> QED BY <3>3, <3>4
  <2>4. \A r \in Sessions :
          last'[r] # 0 => state'[last'[r]] # "none" /\ of'[last'[r]] = r
    <3> TAKE r \in Sessions
    <3>1. CASE r = s
      BY <1>2, <1>3, <1>6, <3>1 DEF IInv, TypeOK
    <3>2. CASE r # s
      <4>1. last'[r] = last[r] /\ last[r] \in 0..MaxConnections
        BY <1>2, <3>2 DEF IInv, TypeOK
      <4>2. last[r] # 0 => /\ last[r] \in Connections /\ of[last[r]] = r
                           /\ state[last[r]] # "none"
        BY <4>1, ServiceAssumption DEF IInv, ConnInv, Connections, Made
      <4> QED BY <1>2, <1>6, <4>1, <4>2 DEF IInv, TypeOK
    <3> QED BY <3>1, <3>2
  <2> QED BY <1>1, <1>6, <2>1, <2>2, <2>3, <2>4 DEF ConnInv, Made, Answered
<1>13. PromiseInv'
  <2>1. CASE t = "caller"
    <3>1. ~Runs' => ~Runs
      BY <1>1, <1>4, <1>8, <2>1 DEF Runs, Ending, InCallback
    <3>2. job'["io"] = job["io"]
      BY <1>8, <2>1 DEF Threads
    <3>3. /\ ~Runs => (job["io"].do = "end" => state[job["io"].conn] # "final")
          /\ job["io"].do = "end" => job["io"].conn \in Connections
      BY ServiceAssumption
      DEF IInv, PromiseInv, JobInv, JobOK, TypeOK, Ending, Connections, Job, Threads
    <3> QED BY <1>1, <1>6, <3>1, <3>2, <3>3 DEF IInv, PromiseInv
  <2>2. CASE t = "io"
    <3>1. InCallback(t)
      BY <1>4, <2>2
    <3>2. Runs' <=> Runs
      BY <1>8, <2>2 DEF Runs, Ending, InCallback, Threads
    <3> QED BY <1>1, <1>4, <1>6, <1>8, <2>2, <3>1, <3>2 DEF IInv, PromiseInv
  <2> QED BY <2>1, <2>2 DEF Threads
<1> QED BY <1>8, <1>9, <1>10, <1>11, <1>12, <1>13 DEF IInv

-----------------------------------------------------------------------------
(* end(), in its parts.                                                    *)

\* What the thread is about while it is in end().
LEMMA EndingConn ==
  ASSUME IInv, NEW t \in Threads, job[t].do \in Ending
  PROVE  /\ job[t] \in Job /\ job[t].conn \in Connections /\ Made(job[t].conn)
         /\ of[job[t].conn] \in Sessions
         /\ job[t].do # "end" => state[job[t].conn] = "final"
<1>1. job[t] \in Job /\ JobOK(t, job[t], state, list)
  BY DEF IInv, TypeOK, JobInv
<1>2. job[t].conn \in 0..MaxConnections /\ job[t].conn # 0
  BY <1>1 DEF Job, JobOK
<1>3. job[t].conn \in Connections
  BY <1>2, ServiceAssumption DEF Connections
<1> QED BY <1>1, <1>2, <1>3 DEF JobOK, Made, Ending, IInv, ConnInv

LEMMA EndBeginsKeeps ==
  ASSUME IInv, NEW t \in Threads, EndBegins(t)
  PROVE  IInv'
<1> DEFINE c == job[t].conn
           j == [job[t] EXCEPT !.do = "callback"]
<1>1. /\ job[t].do = "end" /\ job' = [job EXCEPT ![t] = j]
      /\ state' = [state EXCEPT ![c] = "final"] /\ timeout' = [timeout EXCEPT ![c] = FALSE]
      /\ UNCHANGED <<service, list, made, users, kept, last, of, op, store, promise, walk, queue>>
  BY DEF EndBegins, At, GoesTo, IInv, TypeOK, sessionVars
<1>2. job[t] \in Job /\ c \in Connections /\ Made(c)
  BY <1>1, EndingConn DEF Ending
<1>3. j \in Job /\ j.do = "callback" /\ j.conn = c
  BY <1>2 DEF Job
<1> HIDE DEF j
<1>4. /\ \A d \in Connections : state[d] # "none" => state'[d] # "none"
      /\ \A d \in Connections : state[d] = "final" => state'[d] = "final"
      /\ \A d \in Connections : state'[d] # "none" => state[d] # "none"
      /\ \A d \in Connections : state'[d] # "expired"
      /\ state'[c] = "final"
      /\ \A d \in Connections : timeout'[d] => timeout[d]
  BY <1>1, <1>2 DEF IInv, TypeOK, ConnInv, Made
<1>5. /\ job' \in [Threads -> Job] /\ job'["io"].do \notin {"idle", "get", "join"}
      /\ job'[t] = j /\ (\A u \in Threads : u # t => job'[u] = job[u])
      /\ ThreadInv' /\ service # "gone"
  BY <1>1, <1>3, ThreadSteps
<1>6. TypeOK'
  <2>1. /\ state' \in [Connections -> {"none", "running", "final", "expired"}]
        /\ timeout' \in [Connections -> BOOLEAN]
    BY <1>1 DEF IInv, TypeOK
  <2> QED BY <1>1, <1>5, <2>1 DEF IInv, TypeOK
<1>7. JobInv'
  <2>1. c # 0
    BY <1>2 DEF Connections
  <2>2. JobOK(t, j, state', list')
    BY <1>3, <1>4, <2>1 DEF JobOK, Ending
  <2> QED BY <1>1, <1>3, <1>4, <2>2, JobInvStep DEF IInv
<1>8. QueueInv'
  BY <1>1, <1>4, QueueStays DEF IInv
<1>9. ConnInv'
  BY <1>1, <1>4 DEF IInv, ConnInv, Made, Answered, TypeOK, Connections
<1>10. PromiseInv'
  <2>1. CASE t = "caller"
    BY <1>3, <1>5, <2>1 DEF PromiseInv, Runs, Ending
  <2>2. CASE t = "io"
    <3>1. Runs' <=> Runs
      BY <1>5, <2>2 DEF Runs, Ending, InCallback, Threads
    <3>2. ~Runs => promise[c] = <<>>
      BY <1>1, <1>2, <1>5, <2>2 DEF IInv, PromiseInv
    <3> QED BY <1>1, <1>3, <1>4, <1>5, <2>2, <3>1, <3>2 DEF IInv, PromiseInv
  <2> QED BY <2>1, <2>2 DEF Threads
<1> QED BY <1>5, <1>6, <1>7, <1>8, <1>9, <1>10 DEF IInv

LEMMA CallbackKeeps ==
  ASSUME IInv, NEW t \in Threads, Callback(t)
  PROVE  IInv'
<1> DEFINE c == job[t].conn
<1>1. /\ job[t].do = "callback"
      /\ UNCHANGED <<service, users, kept, connectionVars, walk, queue>>
  BY DEF Callback, At
<1>2. job[t] \in Job /\ c \in Connections /\ of[c] \in Sessions /\ state[c] = "final"
  BY <1>1, EndingConn DEF Ending
<1>3. PICK j \in Job :
        /\ job' = [job EXCEPT ![t] = j] /\ j.do \in {"fulfil", "send", "make"} /\ j.conn = c
        /\ j.do = "send" => j.session \in Sessions
        /\ j.do = "make" => list' # <<>>
        /\ list' \in Seq(Sessions) /\ made' \in 0..MaxSessions
        /\ list # <<>> => list' # <<>>
  <2>1. CASE GoesTo(t, "fulfil") /\ UNCHANGED <<list, made>>
    <3> DEFINE j == [job[t] EXCEPT !.do = "fulfil"]
    <3>1. job' = [job EXCEPT ![t] = j]
      BY <2>1 DEF GoesTo, IInv, TypeOK
    <3>2. j \in Job /\ j.do = "fulfil" /\ j.conn = c
      BY <1>2 DEF Job
    <3> HIDE DEF j
    <3> QED BY <2>1, <3>1, <3>2 DEF IInv, TypeOK
  <2>2. CASE /\ job' = [job EXCEPT ![t].do = "send", ![t].session = of[job[t].conn]]
             /\ UNCHANGED <<list, made>>
    <3> DEFINE j == [job[t] EXCEPT !.do = "send", !.session = of[c]]
    <3>1. job' = [job EXCEPT ![t] = j]
      BY <2>2 DEF IInv, TypeOK
    <3>2. of[c] \in 0..MaxSessions
      BY <1>2, ServiceAssumption DEF Sessions
    <3>3. j \in Job /\ j.do = "send" /\ j.conn = c /\ j.session = of[c]
      <4> DEFINE s == of[c]
      <4>1. s \in 0..MaxSessions
        BY <3>2
      <4> HIDE DEF s
      <4>2. [job[t] EXCEPT !.do = "send", !.session = s] \in Job
        BY <1>2, <4>1 DEF Job
      <4> QED BY <1>2, <4>2 DEF Job, s
    <3> HIDE DEF j
    <3> QED BY <1>2, <2>2, <3>1, <3>3 DEF IInv, TypeOK
  <2>3. CASE PushBack(t, "make")
    <3> DEFINE j == [job[t] EXCEPT !.do = "make"]
    <3>1. job' = [job EXCEPT ![t] = j]
      BY <2>3 DEF PushBack, GoesTo, IInv, TypeOK
    <3>2. j \in Job /\ j.do = "make" /\ j.conn = c
      BY <1>2 DEF Job
    <3>3. list' \in Seq(Sessions) /\ list' # <<>> /\ made' \in 0..MaxSessions
      BY <2>3, PushBackAdds DEF IInv
    <3> HIDE DEF j
    <3> QED BY <3>1, <3>2, <3>3
  <2> QED BY <2>1, <2>2, <2>3 DEF Callback
<1>4. /\ job' \in [Threads -> Job] /\ job'["io"].do \notin {"idle", "get", "join"}
      /\ job'[t] = j /\ (\A u \in Threads : u # t => job'[u] = job[u])
      /\ ThreadInv'
  BY <1>1, <1>3, ThreadSteps
<1>5. TypeOK'
  BY <1>1, <1>3, <1>4 DEF IInv, TypeOK, connectionVars
<1>6. c # 0 /\ state' = state
  BY <1>1, <1>2 DEF Connections, connectionVars
<1>7. JobInv'
  <2>1. JobOK(t, j, state', list')
    BY <1>2, <1>3, <1>6 DEF JobOK, Ending
  <2> QED BY <1>3, <1>6, <2>1, JobInvStep DEF IInv
<1>8. QueueInv' /\ ConnInv'
  BY <1>1 DEF IInv, QueueInv, ConnInv, Made, Answered, connectionVars
<1>9. PromiseInv'
  <2>1. CASE t = "caller"
    BY <1>3, <1>4, <1>6, <2>1 DEF PromiseInv, Runs, Ending, InCallback
  <2>2. CASE t = "io"
    BY <1>1, <1>3, <1>4, <2>2 DEF IInv, PromiseInv, Runs, Ending, InCallback, Threads, connectionVars
  <2> QED BY <2>1, <2>2 DEF Threads
<1> QED BY <1>4, <1>5, <1>7, <1>8, <1>9 DEF IInv

\* A thread waits for a server's close_notify.
LEMMA ShutdownKeeps ==
  ASSUME IInv, NEW t \in Threads, Shutdown(t)
  PROVE  IInv'
<1> DEFINE c == job[t].conn
           j == [job[t] EXCEPT !.do = "shutdown"]
<1>1. /\ job[t].do = "fulfil" /\ job' = [job EXCEPT ![t] = j]
      /\ store' = [store EXCEPT ![c] = TRUE]
      /\ UNCHANGED <<service, list, made, users, kept, last, of, state, op, timeout, promise,
                     walk, queue>>
  BY DEF Shutdown, At, GoesTo, IInv, TypeOK, sessionVars
<1>2. job[t] \in Job /\ c \in Connections /\ Made(c) /\ state[c] = "final"
  BY <1>1, EndingConn DEF Ending
<1>3. j \in Job /\ j.do = "shutdown" /\ j.conn = c
  BY <1>2 DEF Job
<1> HIDE DEF j
<1>4. /\ job' \in [Threads -> Job] /\ job'["io"].do \notin {"idle", "get", "join"}
      /\ job'[t] = j /\ (\A u \in Threads : u # t => job'[u] = job[u])
      /\ ThreadInv'
  BY <1>1, <1>3, ThreadSteps
<1>5. /\ store' \in [Connections -> BOOLEAN]
      /\ \A d \in Connections : store'[d] => d = c \/ store[d]
  BY <1>1, <1>2 DEF IInv, TypeOK
<1>6. TypeOK'
  BY <1>1, <1>4, <1>5 DEF IInv, TypeOK
<1>7. JobInv'
  <2>1. state'[j.conn] = "final" /\ j.conn # 0
    BY <1>1, <1>2, <1>3 DEF Connections
  <2>2. JobOK(t, j, state', list')
    BY <1>3, <2>1 DEF JobOK
  <2> QED BY <1>1, <1>3, <2>2, JobInvStep DEF IInv
<1>8. QueueInv' /\ ConnInv'
  BY <1>1, <1>2, <1>5 DEF IInv, QueueInv, ConnInv, Made, Answered
<1>9. PromiseInv'
  <2>1. CASE t = "caller"
    BY <1>1, <1>3, <1>4, <2>1 DEF PromiseInv, Runs, Ending
  <2>2. CASE t = "io"
    <3>1. Runs' <=> Runs
      BY <1>4, <2>2 DEF Runs, Ending, InCallback, Threads
    <3> QED BY <1>1, <1>3, <1>4, <2>2, <3>1 DEF IInv, PromiseInv
  <2> QED BY <2>1, <2>2 DEF Threads
<1> QED BY <1>4, <1>6, <1>7, <1>8, <1>9 DEF IInv

\* The end of end(), straight on or when the server has closed.
LEMMA FulfilKeeps ==
  ASSUME IInv, NEW t \in Threads, Fulfil(t) \/ PeerCloses(t)
  PROVE  /\ IInv'
         /\ ~Runs => /\ promise[job[t].conn] = <<>>
                     /\ promise' = [promise EXCEPT ![job[t].conn] = <<"response">>]
<1> DEFINE c == job[t].conn
           j == Doing("run")
<1>1. /\ job[t].do \in {"fulfil", "shutdown"} /\ job' = [job EXCEPT ![t] = j]
      /\ store' = [store EXCEPT ![c] = TRUE] \/ store' = store
      /\ promise' = [promise EXCEPT ![c] = Append(@, "response")]
      /\ UNCHANGED <<service, list, made, users, kept, last, of, state, op, timeout, walk, queue>>
  BY DEF Fulfil, PeerCloses, Deliver, At, Leave, sessionVars
<1>2. c \in Connections /\ Made(c) /\ state[c] = "final"
  BY <1>1, EndingConn DEF Ending
<1>3. j \in Job /\ j.do = "run" /\ j.conn = 0
  BY DoingIsJob
<1> HIDE DEF j
<1>4. /\ job' \in [Threads -> Job] /\ job'["io"].do \notin {"idle", "get", "join"}
      /\ job'[t] = j /\ (\A u \in Threads : u # t => job'[u] = job[u])
      /\ ThreadInv'
  BY <1>1, <1>3, ThreadSteps
<1>5. /\ promise' \in [Connections -> Seq(Outcome)] /\ promise'[c] # <<>>
      /\ \A d \in Connections : d # c => promise'[d] = promise[d]
      /\ store' \in [Connections -> BOOLEAN]
      /\ \A d \in Connections : store'[d] => d = c \/ store[d]
  <2>1. promise[c] \in Seq(Outcome) /\ "response" \in Outcome
    BY <1>2 DEF IInv, TypeOK, Outcome
  <2>2. Append(promise[c], "response") \in Seq(Outcome) /\ Append(promise[c], "response") # <<>>
    BY <2>1
  <2> QED BY <1>1, <1>2, <2>2 DEF IInv, TypeOK
<1>6. TypeOK'
  BY <1>1, <1>4, <1>5 DEF IInv, TypeOK
<1>7. JobInv'
  <2>1. JobOK(t, j, state', list')
    BY <1>3 DEF JobOK, Ending
  <2> QED BY <1>1, <1>3, <2>1, JobInvStep DEF IInv
<1>8. QueueInv'
  BY <1>1 DEF IInv, QueueInv
<1>9. ConnInv'
  BY <1>1, <1>2, <1>5 DEF IInv, ConnInv, Made, Answered
<1>10. ~Runs => promise[c] = <<>> /\ promise' = [promise EXCEPT ![c] = <<"response">>]
  <2> SUFFICES ASSUME ~Runs
               PROVE  promise[c] = <<>> /\ promise' = [promise EXCEPT ![c] = <<"response">>]
    OBVIOUS
  <2>1. t = "io"
    BY <1>1 DEF Runs, Threads, Ending
  <2>2. promise[c] = <<>>
    BY <1>1, <2>1 DEF IInv, PromiseInv
  <2>3. Append(promise[c], "response") = <<"response">>
    BY <2>2
  <2> QED BY <1>1, <1>2, <2>2, <2>3 DEF IInv, TypeOK
<1>11. PromiseInv'
  <2>1. CASE t = "caller"
    BY <1>3, <1>4, <2>1 DEF PromiseInv, Runs, Ending
  <2>2. CASE t = "io"
    <3>1. Runs' <=> Runs
      BY <1>4, <2>2 DEF Runs, Ending, InCallback, Threads
    <3>2. ~Runs => Len(promise'[c]) = 1
      <4>1. ~Runs => promise'[c] = <<"response">>
        BY <1>2, <1>10 DEF IInv, TypeOK
      <4>2. Len(<<"response">>) = 1
        OBVIOUS
      <4> QED BY <4>1, <4>2
    <3> QED BY <1>1, <1>2, <1>3, <1>4, <1>5, <2>2, <3>1, <3>2 DEF IInv, PromiseInv
  <2> QED BY <2>1, <2>2 DEF Threads
<1> QED BY <1>4, <1>6, <1>7, <1>8, <1>9, <1>10, <1>11 DEF IInv

LEMMA NextKeeps ==
  ASSUME IInv, [Next]_vars
  PROVE  IInv'
<1>1. CASE UNCHANGED vars
  BY <1>1 DEF vars, sessionVars, connectionVars, IInv, TypeOK, ThreadInv, JobInv, QueueInv,
              ConnInv, PromiseInv, Made, Answered, Runs, InCallback
<1>2. CASE Asks
  BY <1>2, NewSessionKeeps, CallSendKeeps, GetKeeps, StopKeeps DEF Asks
<1>3. CASE World
  <2>1. ASSUME NEW t \in Threads, PeerCloses(t)
        PROVE  IInv'
    BY <2>1, FulfilKeeps
  <2> QED BY <1>3, <2>1, WorldKeeps
<1>4. CASE GetReturns \/ Join
  BY <1>4, GetKeeps, JoinKeeps
<1>5. ASSUME NEW t \in Threads, Goes(t)
      PROVE  IInv'
  BY <1>5, BackKeeps, StartKeeps, TakeKeeps, ChainKeeps, EndBeginsKeeps, CallbackKeeps,
     FulfilKeeps, ShutdownKeeps, SetDisposeKeeps, WalkKeeps DEF Goes
<1> QED BY <1>1, <1>2, <1>3, <1>4, <1>5 DEF Next

-----------------------------------------------------------------------------
(* The theorems.                                                           *)

\* The inductive invariant holds of every service.
THEOREM ServiceInvariance == Spec => []IInv
<1>1. Init => IInv
  BY InitHolds
<1>2. IInv /\ [Next]_vars => IInv'
  BY NextKeeps
<1> QED BY <1>1, <1>2, PTL DEF Spec

\* Every thread is where it can be, every handler is one of a connection that was made.
THEOREM ServiceTypes == Spec => []TypeOK
<1>1. IInv => TypeOK
  BY DEF IInv
<1> QED BY <1>1, ServiceInvariance, PTL

\* Join answers what nobody holds, and nothing happens to a connection afterwards.
LEMMA ReleasedInv ==
  ASSUME IInv, Released, [Next]_vars
  PROVE  Released'
<1> SUFFICES ASSUME service' = "gone", NEW c \in Connections, Made(c)'
             PROVE  Answered(c)' \/ (of'[c] \in kept' /\ last'[of'[c]] = c)
  BY DEF Released
<1>1. CASE Join
  <2>1. /\ promise'[c] = IF Made(c) /\ ~Answered(c) /\ ~Held(c) THEN <<"broken">> ELSE promise[c]
        /\ UNCHANGED <<kept, last, of, state>>
    BY <1>1 DEF Join
  <2>2. Made(c)
    BY <2>1 DEF Made
  <2>3. CASE Answered(c)
    BY <2>1, <2>3 DEF Answered
  <2>4. CASE ~Answered(c) /\ ~Held(c)
    <3>1. promise'[c] = <<"broken">> /\ <<"broken">> # <<>>
      BY <2>1, <2>2, <2>4
    <3> QED BY <3>1 DEF Answered
  <2>5. CASE ~Answered(c) /\ Held(c)
    <3>1. last[of[c]] = c
      BY <2>2, <2>5 DEF IInv, ConnInv
    <3> QED BY <2>1, <2>5, <3>1 DEF Held
  <2> QED BY <2>3, <2>4, <2>5
<1>2. CASE service = "gone"
  <2>1. job["caller"].do \in {"idle", "get"} /\ job["io"].do = "run"
    BY <1>2 DEF IInv, ThreadInv
  <2>2. UNCHANGED <<kept, connectionVars>>
    <3>1. CASE Asks
      BY <1>2, <2>1, <3>1 DEF Asks, NewSession, CallApi, CallSend, CallGet, Run, Stop,
                              sessionVars
    <3>2. CASE World
      BY <1>2, <2>1, <3>2
      DEF World, Complete, Elapse, ElapseStore, ElapseWalk, PeerCloses, At, Threads
    <3>3. CASE GetReturns \/ Join
      BY <2>1, <3>3 DEF GetReturns, Join, At, sessionVars
    <3>4. ASSUME NEW t \in Threads, Goes(t)
          PROVE  FALSE
      BY <1>2, <2>1, <3>4
      DEF Goes, Threads, Back, Start, Take, GoOn, GiveUp, Conclude, EndBegins, Callback,
          Fulfil, Shutdown, SetDispose, Walk, WalkEnds, Handling, At
    <3>5. CASE UNCHANGED vars
      BY <3>5 DEF vars, sessionVars
    <3> QED BY <3>1, <3>2, <3>3, <3>4, <3>5 DEF Next
  <2> QED BY <1>2, <2>2 DEF Released, Made, Answered, connectionVars
<1>3. CASE service # "gone" /\ ~Join
  <2>1. service' = service \/ service' = "stopped"
    <3>1. CASE Asks
      BY <3>1 DEF Asks, NewSession, CallApi, CallSend, CallGet, Run, Stop
    <3>2. CASE World
      BY <3>2 DEF World, Complete, Elapse, ElapseStore, ElapseWalk, PeerCloses
    <3>3. CASE GetReturns
      BY <3>3 DEF GetReturns
    <3>4. ASSUME NEW t \in Threads, Goes(t)
          PROVE  service' = service
      BY <3>4
      DEF Goes, Back, Start, Take, GoOn, GiveUp, Conclude, EndBegins, Callback,
          Fulfil, Shutdown, SetDispose, Walk, WalkEnds
    <3>5. CASE UNCHANGED vars
      BY <3>5 DEF vars
    <3> QED BY <1>3, <3>1, <3>2, <3>3, <3>4, <3>5 DEF Next
  <2> QED BY <1>3, <2>1
<1> QED BY <1>1, <1>2, <1>3

\* The end of the service leaves no response open but those the caller kept a session of:
\* those that Send() left behind were answered before.
THEOREM ServiceReleases == Spec => []Released
<1>1. Init => Released
  BY DEF Init, Released
<1>2. IInv /\ Released /\ [Next]_vars => Released'
  BY ReleasedInv
<1> QED BY <1>1, <1>2, ServiceInvariance, PTL DEF Spec

\* README.md:100 has the responses removed after their timeout.  They are not: whatever
\* the dispose timers do, no session leaves the list of a living service.
THEOREM SessionsRemain == Spec => [][service' # "gone" => IsPrefix(list, list')]_vars
<1>1. IInv /\ [Next]_vars => (service' # "gone" => IsPrefix(list, list')) \/ UNCHANGED vars
  <2> SUFFICES ASSUME IInv, Next, service' # "gone"
               PROVE  IsPrefix(list, list')
    OBVIOUS
  <2>1. list' = list => IsPrefix(list, list')
    <3>1. list \in Seq(Sessions)
      BY DEF IInv, TypeOK
    <3>2. Len(list) <= Len(list)
      BY <3>1
    <3> QED BY <3>2 DEF IsPrefix
  <2>2. CASE Asks
    <3>1. CASE NewSession \/ CallApi
      BY <3>1, PushBackAdds DEF NewSession, CallApi, IInv
    <3>2. CASE ~(NewSession \/ CallApi)
      BY <2>1, <2>2, <3>2 DEF Asks, CallSend, CallGet, Run, Stop, sessionVars
    <3> QED BY <3>1, <3>2
  <2>3. CASE World
    BY <2>1, <2>3
    DEF World, Complete, Elapse, ElapseStore, ElapseWalk, PeerCloses, sessionVars
  <2>4. CASE GetReturns \/ Join
    BY <2>1, <2>4 DEF GetReturns, Join, sessionVars
  <2>5. ASSUME NEW t \in Threads, Goes(t)
        PROVE  IsPrefix(list, list')
    <3>1. CASE Walk(t) \/ WalkEnds(t)
      BY <2>1, <3>1, WalkKeeps
    <3>2. CASE Callback(t)
      BY <2>1, <3>2, PushBackAdds DEF Callback, IInv
    <3>3. CASE ~(Walk(t) \/ WalkEnds(t) \/ Callback(t))
      BY <2>1, <2>5, <3>3
      DEF Goes, Back, Start, Take, GoOn, GiveUp, Conclude, EndBegins, Fulfil, Shutdown,
          SetDispose, sessionVars
    <3> QED BY <3>1, <3>2, <3>3
  <2> QED BY <2>2, <2>3, <2>4, <2>5 DEF Next
<1> QED BY <1>1, ServiceInvariance, PTL DEF Spec

\* A step that does not touch the promises.
LEMMA PromisesRest ==
  ASSUME [Next]_vars, ~Join, \A t \in Threads : ~(Fulfil(t) \/ PeerCloses(t))
  PROVE  promise' = promise
<1>1. CASE Asks
  BY <1>1 DEF Asks, NewSession, CallApi, CallSend, CallGet, Run, Stop, connectionVars
<1>2. CASE World
  BY <1>2 DEF World, Complete, Elapse, ElapseStore, ElapseWalk, connectionVars
<1>3. CASE GetReturns
  BY <1>3 DEF GetReturns, connectionVars
<1>4. ASSUME NEW t \in Threads, Goes(t)
      PROVE  promise' = promise
  BY <1>4
  DEF Goes, Back, Start, Take, GoOn, GiveUp, Conclude, EndBegins, Callback, Shutdown,
      SetDispose, Walk, WalkEnds, connectionVars
<1>5. CASE UNCHANGED vars
  BY <1>5 DEF vars, connectionVars
<1> QED BY <1>1, <1>2, <1>3, <1>4, <1>5 DEF Next

\* While the io thread alone runs handlers, every promise is one of Delivery: a step
\* gives it its outcome, once, or leaves it.
THEOREM ServiceDelivers == Spec => PromisesKept
<1>1. IInv /\ [Next]_vars
        => Runs \/ \A c \in Connections : [Promise(c)!Next]_(promise[c])
  <2> SUFFICES ASSUME IInv, [Next]_vars, ~Runs, NEW c \in Connections
               PROVE  [Promise(c)!Next]_(promise[c])
    OBVIOUS
  <2>1. CASE Join
    <3>1. promise'[c] = IF Made(c) /\ ~Answered(c) /\ ~Held(c) THEN <<"broken">> ELSE promise[c]
      BY <2>1 DEF Join
    <3> QED BY <3>1 DEF Promise!Next, Promise!Deliver, Answered, Outcome
  <2>2. ASSUME NEW t \in Threads, Fulfil(t) \/ PeerCloses(t)
        PROVE  [Promise(c)!Next]_(promise[c])
    <3>1. /\ promise[job[t].conn] = <<>>
          /\ promise' = [promise EXCEPT ![job[t].conn] = <<"response">>]
      BY <2>2, FulfilKeeps
    <3>2. promise'[c] = promise[c] \/ (promise[c] = <<>> /\ promise'[c] = <<"response">>)
      BY <3>1 DEF IInv, TypeOK
    <3> QED BY <3>2 DEF Promise!Next, Promise!Deliver, Outcome
  <2>3. CASE ~Join /\ \A t \in Threads : ~(Fulfil(t) \/ PeerCloses(t))
    BY <2>3, PromisesRest
  <2> QED BY <2>1, <2>2, <2>3
<1> QED BY <1>1, ServiceInvariance, PTL DEF Spec, PromisesKept

\* So no promise is given two outcomes, unless the caller runs handlers too.
THEOREM ServiceDeliversOnce == Spec => [](~Runs => DeliveredOnce)
<1>1. IInv => (~Runs => DeliveredOnce)
  BY DEF IInv, PromiseInv, DeliveredOnce
<1> QED BY <1>1, ServiceInvariance, PTL

-----------------------------------------------------------------------------
(* What a final_callback waits for.                                        *)

\* Up to where a final_callback may have sent on its session.
Early == {"end", "callback", "make", "send"}

\* The thread is inside the end() of c.
Ends(t, c) == job[t].conn = c /\ job[t].do \in Ending \cup Early

\* Sessions are numbered in the order of the list, the one that add_session() put in
\* last is not yet used by the thread, and what is sent on is used.
MadeInv ==
  /\ list # <<>> => Last(list) = made
  /\ \A s \in Sessions : /\ users[s] # {} => s <= made
                         /\ last[s] # 0 => users[s] # {}
  /\ \A c \in Connections : Made(c) => last[of[c]] # 0
  /\ \A t \in Threads : /\ job[t].do \in {"back", "make"} => t \notin users[made]
                        /\ job[t].do = "send" => users[job[t].session] # {}

\* Two threads that passed in_final_state() of one connection both have its promise
\* still to fulfil.
EndInv ==
  \A c \in Connections :
    /\ service # "gone" /\ Answered(c) => state[c] = "final"
    /\ (\A t \in Threads : Ends(t, c)) => ~Answered(c)

\* A thread sends on the session of the connection whose end() it is inside, or on one
\* it made, which is new if a final_callback made it; and before its final_callback has
\* sent, that connection is the last of its session.
OwnOK(t, j) ==
  /\ j.do = "send" => \/ j.conn # 0 /\ j.session = of[j.conn]
                      \/ t \in users[j.session] /\ (j.conn # 0 => last[j.session] = 0)
  /\ j.conn # 0 /\ j.do \in Early => last[of[j.conn]] = j.conn

OwnInv == OwnSession => \A t \in Threads : OwnOK(t, job[t])

UseInv == MadeInv /\ EndInv /\ OwnInv

\* When the service was just made, no thread does anything.
LEMMA UseInit ==
  ASSUME Init
  PROVE  UseInv
<1>1. \A t \in Threads : job[t].do \in {"run", "idle"} /\ job[t].conn = 0
  BY DEF Init, Doing, Threads
<1>2. MadeInv
  BY <1>1 DEF Init, MadeInv, Made
<1>3. EndInv
  BY <1>1 DEF Init, EndInv, Answered, Ends, Connections, Threads
<1>4. OwnInv
  BY <1>1 DEF OwnInv, OwnOK, Early
<1> QED BY <1>2, <1>3, <1>4 DEF UseInv

\* Thread t comes to do j.
Turns(t, j) == job' = [job EXCEPT ![t] = j]

\* The other thread goes on doing what it did.
LEMMA TurnsTo ==
  ASSUME IInv, NEW t \in Threads, NEW j, Turns(t, j)
  PROVE  job'[t] = j /\ \A u \in Threads : u # t => job'[u] = job[u]
BY DEF IInv, TypeOK, Turns

\* A step in which no session is added and none gets a user or a connection.
LEMMA MadeStays ==
  ASSUME IInv, MadeInv, UNCHANGED <<made, users, last, of>>, list' = list \/ list' = <<>>,
         \A c \in Connections : Made(c)' => Made(c),
         NEW t \in Threads, NEW j, Turns(t, j),
         j.do \in {"back", "make"} => job[t].do \in {"back", "make"},
         j.do = "send" => users[j.session] # {}
  PROVE  MadeInv'
<1>1. job'[t] = j /\ \A u \in Threads : u # t => job'[u] = job[u]
  BY TurnsTo
<1>2. \A u \in Threads : /\ job'[u].do \in {"back", "make"} => u \notin users[made]
                         /\ job'[u].do = "send" => users[job'[u].session] # {}
  BY <1>1 DEF MadeInv
<1> QED BY <1>2 DEF MadeInv, Made

\* A step in which no promise is given an outcome, and no thread that was outside the
\* end() of an answered connection comes to be inside.
LEMMA EndStays ==
  ASSUME IInv, EndInv, promise' = promise, service' # "gone" => service # "gone",
         \A c \in Connections : state[c] = "final" => state'[c] = "final",
         NEW t \in Threads, NEW j, Turns(t, j),
         \A c \in Connections : j.conn = c /\ j.do \in Ending \cup Early
                                  => Ends(t, c) \/ ~Answered(c)
  PROVE  EndInv'
<1>1. job'[t] = j /\ \A u \in Threads : u # t => job'[u] = job[u]
  BY TurnsTo
<1>2. \A c \in Connections : (\A u \in Threads : Ends(u, c)') => ~Answered(c)
  BY <1>1 DEF EndInv, Ends
<1> QED BY <1>2 DEF EndInv, Answered

\* A step that changes no session, after which the thread is as OwnOK has it.
LEMMA OwnStays ==
  ASSUME IInv, OwnInv, UNCHANGED <<users, last, of>>,
         NEW t \in Threads, NEW j, Turns(t, j), OwnSession => OwnOK(t, j)
  PROVE  OwnInv'
<1>1. job'[t] = j /\ \A u \in Threads : u # t => job'[u] = job[u]
  BY TurnsTo
<1>2. OwnSession => \A u \in Threads : OwnOK(u, job'[u])
  BY <1>1 DEF OwnInv
<1> QED BY <1>2 DEF OwnInv, OwnSession, OwnOK

\* A step that has a thread do what sends on no session and ends no connection.
LEMMA IdleKeeps ==
  ASSUME IInv, UseInv, UNCHANGED <<made, users, last, of, promise>>,
         list' = list \/ list' = <<>>, service' # "gone" => service # "gone",
         \A c \in Connections : state[c] = "final" => state'[c] = "final",
         \A c \in Connections : Made(c)' => Made(c),
         NEW t \in Threads, NEW j, Turns(t, j),
         j.do \notin Ending \cup Early \cup {"back"}
  PROVE  UseInv'
<1>1. MadeInv'
  BY MadeStays DEF UseInv, Early
<1>2. EndInv'
  BY EndStays DEF UseInv
<1>3. OwnOK(t, j)
  BY DEF OwnOK, Early
<1>4. OwnInv'
  BY <1>3, OwnStays DEF UseInv
<1> QED BY <1>1, <1>2, <1>4 DEF UseInv

\* A session is put in the list.
LEMMA PushKeeps ==
  ASSUME IInv, UseInv, NEW t \in Threads, NEW next \in {"back", "make"}, PushBack(t, next),
         UNCHANGED <<service, users, last, of, state, promise>>,
         job[t].conn # 0 => job[t].do = "callback"
  PROVE  UseInv'
<1> DEFINE j == [job[t] EXCEPT !.do = next]
<1>1. Turns(t, j) /\ made' = made + 1 /\ list' = Append(list, made + 1) /\ made < MaxSessions
  BY DEF PushBack, GoesTo, Turns, IInv, TypeOK
<1>2. job[t] \in Job /\ j.do = next /\ j.conn = job[t].conn
  BY DEF IInv, TypeOK, Job
<1> HIDE DEF j
<1>3. job'[t] = j /\ \A u \in Threads : u # t => job'[u] = job[u]
  BY <1>1, TurnsTo
<1>4. MadeInv'
  <2>1. list \in Seq(Sessions) /\ made \in Nat /\ made + 1 \in Sessions
    BY <1>1, ServiceAssumption DEF IInv, TypeOK, Sessions
  <2>2. Last(list') = made'
    BY <1>1, <2>1 DEF Last
  <2>3. users[made + 1] = {}
    BY <2>1 DEF UseInv, MadeInv
  <2>4. \A s \in Sessions : users[s] # {} => s <= made + 1
    <3> TAKE s \in Sessions
    <3>1. s \in Nat /\ (users[s] # {} => s <= made)
      BY ServiceAssumption DEF UseInv, MadeInv, Sessions
    <3> QED BY <2>1, <3>1
  <2>5. \A u \in Threads : job'[u].do = "send" => users[job'[u].session] # {}
    BY <1>2, <1>3 DEF UseInv, MadeInv
  <2> QED BY <1>1, <2>2, <2>3, <2>4, <2>5 DEF UseInv, MadeInv, Made
<1>5. EndInv'
  <2>1. \A c \in Connections : j.conn = c => c = 0 \/ Ends(t, c)
    BY <1>2 DEF Ends, Ending
  <2> QED BY <1>1, <2>1, EndStays DEF UseInv, Connections
<1>6. OwnInv'
  <2>1. OwnSession => OwnOK(t, job[t])
    BY DEF UseInv, OwnInv
  <2>2. OwnSession => OwnOK(t, j)
    BY <1>2, <2>1 DEF OwnOK, Early
  <2> QED BY <1>1, <2>2, OwnStays DEF UseInv
<1> QED BY <1>4, <1>5, <1>6 DEF UseInv

\* What the caller starts if it wants to.
LEMMA AsksUse ==
  ASSUME IInv, UseInv, Asks
  PROVE  UseInv'
<1>1. "caller" \in Threads /\ job["caller"] \in Job
      /\ JobOK("caller", job["caller"], state, list) /\ job["caller"].do = "idle"
  BY DEF IInv, TypeOK, JobInv, Threads, Asks, NewSession, CallApi, CallSend, CallGet, Run, Stop, At
<1>2. job["caller"].conn = 0
  BY <1>1 DEF JobOK
<1>3. CASE NewSession \/ CallApi
  <2>1. PICK next \in {"back", "make"} : PushBack("caller", next)
    BY <1>3 DEF NewSession, CallApi
  <2> QED BY <1>1, <1>2, <1>3, <2>1, PushKeeps DEF NewSession, CallApi, connectionVars
<1>4. CASE CallSend
  <2>1. PICK s \in Sessions :
          "caller" \in users[s] /\ Turns("caller", [Doing("send") EXCEPT !.session = s])
    BY <1>4 DEF CallSend, Turns
  <2> DEFINE j == [Doing("send") EXCEPT !.session = s]
  <2>2. j.do = "send" /\ j.conn = 0 /\ j.session = s
    BY DEF Doing
  <2> HIDE DEF j
  <2>3. UNCHANGED <<service, sessionVars, connectionVars>> /\ Turns("caller", j)
    BY <1>4, <2>1 DEF CallSend, j
  <2>4. MadeInv'
    BY <1>1, <2>1, <2>2, <2>3, MadeStays DEF UseInv, sessionVars, connectionVars, Made
  <2>5. EndInv'
    <3>1. \A c \in Connections : j.conn # c
      BY <2>2 DEF Connections
    <3> QED BY <1>1, <2>3, <3>1, EndStays DEF UseInv, connectionVars
  <2>6. OwnOK("caller", j)
    BY <2>1, <2>2 DEF OwnOK
  <2>7. OwnInv'
    BY <1>1, <2>3, <2>6, OwnStays DEF UseInv, sessionVars, connectionVars
  <2> QED BY <2>4, <2>5, <2>7 DEF UseInv
<1>5. CASE CallGet \/ Run \/ Stop
  <2>1. PICK j : Turns("caller", j) /\ j.do \in {"get", "run", "join"}
    <3>1. CASE CallGet
      <4>1. PICK c \in Connections : Turns("caller", [Doing("get") EXCEPT !.conn = c])
        BY <3>1 DEF CallGet, Turns
      <4>2. [Doing("get") EXCEPT !.conn = c].do = "get"
        BY DEF Doing
      <4> QED BY <4>1, <4>2
    <3>2. CASE Run \/ Stop
      <4>1. \A what : [job["caller"] EXCEPT !.do = what].do = what
        BY <1>1 DEF Job
      <4> QED BY <3>2, <4>1 DEF Run, Stop, GoesTo, Turns, IInv, TypeOK
    <3> QED BY <1>5, <3>1, <3>2
  <2>2. /\ UNCHANGED <<made, users, last, of, promise, list, state>>
        /\ service' # "gone" => service # "gone"
    BY <1>5 DEF CallGet, Run, Stop, sessionVars, connectionVars
  <2> QED BY <1>1, <2>1, <2>2, IdleKeeps DEF Ending, Early, Made
<1> QED BY <1>3, <1>4, <1>5 DEF Asks

\* What falls due changes nothing that a sending thread looks at.
LEMMA WorldUse ==
  ASSUME UseInv, World, \A t \in Threads : ~PeerCloses(t)
  PROVE  UseInv'
<1>1. UNCHANGED <<service, list, made, users, last, of, state, promise, job>>
  <2>1. CASE Complete \/ ElapseWalk
    BY <2>1 DEF Complete, ElapseWalk, sessionVars, connectionVars
  <2>2. ASSUME NEW c \in Connections, Elapse(c) \/ ElapseStore(c)
        PROVE  UNCHANGED <<service, list, made, users, last, of, state, promise, job>>
    BY <2>2 DEF Elapse, ElapseStore, sessionVars
  <2> QED BY <2>1, <2>2 DEF World
<1> QED BY <1>1 DEF UseInv, MadeInv, EndInv, OwnInv, OwnOK, OwnSession, Made, Answered, Ends

\* get() returns, or the service goes, with no thread inside an end().
LEMMA ReturnsUse ==
  ASSUME IInv, UseInv, GetReturns \/ Join
  PROVE  UseInv'
<1>1. "caller" \in Threads /\ "io" \in Threads
  BY DEF Threads
<1>2. CASE GetReturns
  <2>1. Turns("caller", Doing("idle")) /\ Doing("idle").do = "idle"
    BY <1>2 DEF GetReturns, Turns, Doing
  <2> QED BY <1>1, <1>2, <2>1, IdleKeeps
          DEF GetReturns, sessionVars, connectionVars, Ending, Early, Made
<1>3. CASE Join
  <2> DEFINE j == [job["caller"] EXCEPT !.do = "idle"]
  <2>1. /\ Turns("caller", j) /\ service' = "gone" /\ list' = <<>> /\ job["io"].do = "run"
        /\ UNCHANGED <<made, users, last, of, state>>
    BY <1>3 DEF Join, GoesTo, Turns, At, IInv, TypeOK, Threads
  <2>2. job["caller"] \in Job /\ job["io"] \in Job
    BY <1>1 DEF IInv, TypeOK
  <2>3. j.do = "idle"
    BY <2>2 DEF Job
  <2> HIDE DEF j
  <2>4. job'["caller"] = j /\ job'["io"] = job["io"]
    BY <1>1, <2>1, TurnsTo
  <2>5. MadeInv'
    BY <1>1, <2>1, <2>3, MadeStays DEF UseInv, Made
  <2>6. EndInv'
    BY <1>1, <2>1, <2>4 DEF EndInv, Ends, Ending, Early
  <2>7. OwnInv'
    <3>1. OwnOK("caller", j)
      BY <2>3 DEF OwnOK, Early
    <3> QED BY <1>1, <2>1, <3>1, OwnStays DEF UseInv
  <2> QED BY <2>5, <2>6, <2>7 DEF UseInv
<1> QED BY <1>2, <1>3

\* The handlers but for what ends a connection.
LEMMA HandlersUse ==
  ASSUME IInv, UseInv, NEW t \in Threads,
         Take(t) \/ GoOn(t) \/ GiveUp(t) \/ SetDispose(t) \/ Walk(t) \/ WalkEnds(t)
  PROVE  UseInv'
<1>1. PICK j : Turns(t, j) /\ j.do \in {"run", "handle"}
  <2>1. CASE Take(t)
    <3>1. PICK i \in DOMAIN queue :
            Turns(t, [Doing("handle") EXCEPT !.conn = queue[i].conn, !.kind = queue[i].kind])
      BY <2>1 DEF Take, Turns
    <3>2. [Doing("handle") EXCEPT !.conn = queue[i].conn, !.kind = queue[i].kind].do = "handle"
      BY DEF Doing
    <3> QED BY <3>1, <3>2
  <2>2. CASE GoOn(t) \/ GiveUp(t) \/ SetDispose(t) \/ WalkEnds(t)
    <3>1. Turns(t, Doing("run")) /\ Doing("run").do = "run"
      BY <2>2 DEF GoOn, GiveUp, SetDispose, WalkEnds, Leave, Turns, Doing
    <3> QED BY <3>1
  <2>3. CASE Walk(t)
    <3>1. job[t].do = "handle" /\ job[t] \in Job
      BY <2>3 DEF Walk, Handling, At, IInv, TypeOK
    <3>2. CASE job' = job
      <4>1. Turns(t, job[t])
        BY <3>2 DEF Turns, IInv, TypeOK
      <4> QED BY <3>1, <4>1
    <3>3. CASE job' = [job EXCEPT ![t].at = @ + 1]
      <4>1. Turns(t, [job[t] EXCEPT !.at = @ + 1])
        BY <3>3 DEF Turns, IInv, TypeOK
      <4>2. [job[t] EXCEPT !.at = @ + 1].do = "handle"
        BY <3>1 DEF Job
      <4> QED BY <4>1, <4>2
    <3> QED BY <2>3, <3>2, <3>3 DEF Walk
  <2> QED BY <2>1, <2>2, <2>3
<1>2. UNCHANGED <<service, made, users, last, of, promise>>
  BY DEF Take, GoOn, GiveUp, SetDispose, Walk, WalkEnds, sessionVars, connectionVars
<1>3. list' = list
  <2>1. CASE Walk(t) \/ WalkEnds(t)
    BY <2>1, WalkKeeps
  <2>2. CASE ~(Walk(t) \/ WalkEnds(t))
    BY <2>2 DEF Take, GoOn, GiveUp, SetDispose, sessionVars
  <2> QED BY <2>1, <2>2
<1>4. state' = state
  <2>1. CASE SetDispose(t)
    <3>1. /\ job[t].do = "handle" /\ job[t].kind = "store"
          /\ state' = [state EXCEPT ![job[t].conn] = IF @ = "final" THEN @ ELSE "expired"]
      BY <2>1 DEF SetDispose, Handling, At
    <3>2. job[t].conn \in Connections /\ state[job[t].conn] = "final"
      BY <3>1, HandledConn
    <3> QED BY <3>1, <3>2 DEF IInv, TypeOK
  <2>2. CASE ~SetDispose(t)
    BY <2>2 DEF Take, GoOn, GiveUp, Walk, WalkEnds, connectionVars
  <2> QED BY <2>1, <2>2
<1> QED BY <1>1, <1>2, <1>3, <1>4, IdleKeeps DEF Ending, Early, Made

\* A thread passes in_final_state(): the connection is unanswered, so the last of its
\* session.
LEMMA ConcludeUse ==
  ASSUME IInv, UseInv, NEW t \in Threads, Conclude(t)
  PROVE  UseInv'
<1>1. /\ job[t].do = "handle" /\ job[t].kind # "walk"
      /\ UNCHANGED <<service, sessionVars, connectionVars>>
  BY DEF Conclude, Handling, At
<1>2. job[t] \in Job /\ job[t].conn \in Connections /\ Made(job[t].conn)
  BY <1>1, HandledConn
<1>3. CASE InFinalState(job[t].conn)
  <2>1. Turns(t, Doing("run")) /\ Doing("run").do = "run"
    BY <1>3 DEF Conclude, Leave, Turns, Doing
  <2> QED BY <1>1, <2>1, IdleKeeps DEF sessionVars, connectionVars, Ending, Early, Made
<1>4. CASE ~InFinalState(job[t].conn)
  <2> DEFINE j == [job[t] EXCEPT !.do = "end"]
             c == job[t].conn
  <2>1. Turns(t, j)
    BY <1>4 DEF Conclude, GoesTo, Turns, IInv, TypeOK
  <2>2. j.do = "end" /\ j.conn = c
    BY <1>2 DEF Job
  <2>3. service # "gone"
    BY <1>1 DEF IInv, ThreadInv, Threads
  <2>4. ~Answered(c) /\ last[of[c]] = c
    <3>1. ~Answered(c)
      BY <1>2, <1>4, <2>3 DEF UseInv, EndInv, InFinalState
    <3> QED BY <1>2, <3>1 DEF IInv, ConnInv
  <2> HIDE DEF j
  <2>5. MadeInv'
    BY <1>1, <2>1, <2>2, MadeStays DEF UseInv, sessionVars, connectionVars, Made
  <2>6. EndInv'
    BY <1>1, <2>1, <2>2, <2>4, EndStays DEF UseInv, connectionVars
  <2>7. OwnOK(t, j)
    BY <2>2, <2>4 DEF OwnOK
  <2>8. OwnInv'
    BY <1>1, <2>1, <2>7, OwnStays DEF UseInv, sessionVars, connectionVars
  <2> QED BY <2>5, <2>6, <2>8 DEF UseInv
<1> QED BY <1>3, <1>4

\* The first part of end(), in which the thread stays inside the same connection.
LEMMA EndBeginsUse ==
  ASSUME IInv, UseInv, NEW t \in Threads, EndBegins(t)
  PROVE  UseInv'
<1> DEFINE c == job[t].conn
           j == [job[t] EXCEPT !.do = "callback"]
<1>1. /\ job[t].do = "end" /\ Turns(t, j)
      /\ state' = [state EXCEPT ![c] = "final"]
      /\ UNCHANGED <<service, list, made, users, last, of, promise>>
  BY DEF EndBegins, At, GoesTo, Turns, IInv, TypeOK, sessionVars
<1>2. job[t] \in Job /\ c \in Connections /\ Made(c)
  BY <1>1, EndingConn DEF Ending
<1>3. j.do = "callback" /\ j.conn = c
  BY <1>2 DEF Job
<1> HIDE DEF j
<1>4. /\ \A d \in Connections : state[d] = "final" => state'[d] = "final"
      /\ \A d \in Connections : Made(d)' => Made(d)
  BY <1>1, <1>2 DEF IInv, TypeOK, Made
<1>5. MadeInv'
  BY <1>1, <1>3, <1>4, MadeStays DEF UseInv
<1>6. EndInv'
  <2>1. Ends(t, c)
    BY <1>1 DEF Ends, Ending
  <2> QED BY <1>1, <1>3, <1>4, <2>1, EndStays DEF UseInv
<1>7. OwnInv'
  <2>1. OwnSession => OwnOK(t, job[t])
    BY DEF UseInv, OwnInv
  <2>2. OwnSession => OwnOK(t, j)
    BY <1>1, <1>3, <2>1 DEF OwnOK, Early
  <2> QED BY <1>1, <2>2, OwnStays DEF UseInv
<1> QED BY <1>5, <1>6, <1>7 DEF UseInv

\* The final_callback sends on the session of its connection, or on a new one.
LEMMA CallbackUse ==
  ASSUME IInv, UseInv, NEW t \in Threads, Callback(t)
  PROVE  UseInv'
<1> DEFINE c == job[t].conn
<1>1. /\ job[t].do = "callback" /\ UNCHANGED <<service, users, last, of, state, promise>>
  BY DEF Callback, At, connectionVars
<1>2. /\ job[t] \in Job /\ c \in Connections /\ Made(c) /\ of[c] \in Sessions
  BY <1>1, EndingConn DEF Ending
<1>3. CASE PushBack(t, "make")
  BY <1>1, <1>3, PushKeeps
<1>4. CASE UNCHANGED <<list, made>> /\ (GoesTo(t, "fulfil")
             \/ job' = [job EXCEPT ![t].do = "send", ![t].session = of[job[t].conn]])
  <2>1. PICK j : /\ Turns(t, j) /\ j.conn = c /\ j.do \in {"fulfil", "send"}
                 /\ j.do = "send" => j.session = of[c]
    <3>1. CASE GoesTo(t, "fulfil")
      <4>1. Turns(t, [job[t] EXCEPT !.do = "fulfil"])
        BY <3>1 DEF GoesTo, Turns, IInv, TypeOK
      <4>2. [job[t] EXCEPT !.do = "fulfil"].do = "fulfil"
            /\ [job[t] EXCEPT !.do = "fulfil"].conn = c
        BY <1>2 DEF Job
      <4> QED BY <4>1, <4>2
    <3>2. CASE job' = [job EXCEPT ![t].do = "send", ![t].session = of[job[t].conn]]
      <4> DEFINE s == of[c]
      <4>1. Turns(t, [job[t] EXCEPT !.do = "send", !.session = s])
        BY <3>2 DEF Turns, IInv, TypeOK
      <4> HIDE DEF s
      <4>2. /\ [job[t] EXCEPT !.do = "send", !.session = s].do = "send"
            /\ [job[t] EXCEPT !.do = "send", !.session = s].conn = c
            /\ [job[t] EXCEPT !.do = "send", !.session = s].session = s
        BY <1>2 DEF Job
      <4> QED BY <4>1, <4>2 DEF s
    <3> QED BY <1>4, <3>1, <3>2
  <2>2. users[of[c]] # {}
    BY <1>2 DEF UseInv, MadeInv
  <2>3. MadeInv'
    BY <1>1, <1>4, <2>1, <2>2, MadeStays DEF UseInv, Made
  <2>4. EndInv'
    <3>1. Ends(t, c)
      BY <1>1 DEF Ends, Ending
    <3> QED BY <1>1, <2>1, <3>1, EndStays DEF UseInv
  <2>5. OwnInv'
    <3>1. OwnSession => OwnOK(t, job[t])
      BY DEF UseInv, OwnInv
    <3>2. c # 0
      BY <1>2 DEF Connections
    <3>3. OwnSession => OwnOK(t, j)
      BY <1>1, <2>1, <3>1, <3>2 DEF OwnOK, Early
    <3> QED BY <1>1, <2>1, <3>3, OwnStays DEF UseInv
  <2> QED BY <2>3, <2>4, <2>5 DEF UseInv
<1> QED BY <1>3, <1>4 DEF Callback

\* A thread that waits for a server's close_notify stays inside the same connection.
LEMMA ShutdownUse ==
  ASSUME IInv, UseInv, NEW t \in Threads, Shutdown(t)
  PROVE  UseInv'
<1> DEFINE c == job[t].conn
           j == [job[t] EXCEPT !.do = "shutdown"]
<1>1. /\ job[t].do = "fulfil" /\ Turns(t, j)
      /\ UNCHANGED <<service, list, made, users, last, of, state, promise>>
  BY DEF Shutdown, At, GoesTo, Turns, IInv, TypeOK, sessionVars
<1>2. job[t] \in Job
  BY <1>1, EndingConn DEF Ending
<1>3. j.do = "shutdown" /\ j.conn = c
  BY <1>2 DEF Job
<1> HIDE DEF j
<1>4. MadeInv'
  BY <1>1, <1>3, MadeStays DEF UseInv, Made
<1>5. EndInv'
  <2>1. \A d \in Connections : c = d => Ends(t, d)
    BY <1>1 DEF Ends, Ending
  <2> QED BY <1>1, <1>3, <2>1, EndStays DEF UseInv
<1>6. OwnOK(t, j)
  BY <1>3 DEF OwnOK, Early
<1>7. OwnInv'
  BY <1>1, <1>6, OwnStays DEF UseInv
<1> QED BY <1>4, <1>5, <1>7 DEF UseInv

\* The end of end(): the thread that fulfilled the promise is no longer inside.
LEMMA FulfilUse ==
  ASSUME IInv, UseInv, NEW t \in Threads, Fulfil(t) \/ PeerCloses(t)
  PROVE  UseInv'
<1> DEFINE c == job[t].conn
           j == Doing("run")
<1>1. /\ job[t].do \in {"fulfil", "shutdown"}
      /\ Turns(t, j) /\ j.do = "run" /\ j.conn = 0
      /\ promise' = [promise EXCEPT ![c] = Append(@, "response")]
      /\ UNCHANGED <<service, list, made, users, last, of, state>>
  BY DEF Fulfil, PeerCloses, Deliver, At, Leave, Turns, Doing, sessionVars
<1>2. c \in Connections /\ state[c] = "final"
  BY <1>1, EndingConn DEF Ending
<1> HIDE DEF j
<1>3. job'[t] = j
  BY <1>1, TurnsTo
<1>4. MadeInv'
  BY <1>1, MadeStays DEF UseInv, Made
<1>5. EndInv'
  <2>1. \A d \in Connections : ~Ends(t, d)'
    BY <1>1, <1>3 DEF Ends, Ending, Early
  <2>2. \A d \in Connections : Answered(d)' => Answered(d) \/ d = c
    BY <1>1, <1>2 DEF Answered, IInv, TypeOK
  <2> QED BY <1>1, <1>2, <2>1, <2>2 DEF UseInv, EndInv
<1>6. OwnInv'
  <2>1. OwnOK(t, j)
    BY <1>1 DEF OwnOK, Early
  <2> QED BY <1>1, <2>1, OwnStays DEF UseInv
<1> QED BY <1>4, <1>5, <1>6 DEF UseInv

\* new_session() gives the thread its reference.
LEMMA BackUse ==
  ASSUME IInv, UseInv, NEW t \in Threads, Back(t)
  PROVE  UseInv'
<1> DEFINE s == Last(list)
           j == IF At(t, "make") THEN [job[t] EXCEPT !.do = "send", !.session = s]
                                 ELSE Doing("idle")
<1>1. /\ job[t].do \in {"back", "make"}
      /\ users' = [users EXCEPT ![s] = @ \cup {t}]
      /\ Turns(t, j)
      /\ UNCHANGED <<service, list, made, last, of, state, promise>>
  BY DEF Back, IInv, TypeOK, At, Turns, connectionVars
<1>2. job[t] \in Job /\ JobOK(t, job[t], state, list) /\ list \in Seq(Sessions)
  BY DEF IInv, TypeOK, JobInv
<1>3. s \in Sessions /\ s = made /\ t \notin users[s]
  <2>1. list # <<>>
    BY <1>1, <1>2 DEF JobOK
  <2> QED BY <1>1, <1>2, <2>1 DEF Last, UseInv, MadeInv
<1>4. /\ job[t].do = "make" => j.do = "send" /\ j.conn = job[t].conn /\ j.session = s
      /\ job[t].do # "make" => j.do = "idle" /\ j.conn = 0
  <2> HIDE DEF s
  <2>1. CASE At(t, "make")
    BY <1>2, <2>1 DEF Job, At
  <2>2. CASE ~At(t, "make")
    BY <2>2 DEF Doing, At
  <2> QED BY <2>1, <2>2
<1> HIDE DEF j, s
<1>5. job'[t] = j /\ \A u \in Threads : u # t => job'[u] = job[u]
  BY <1>1, TurnsTo
<1>6. /\ users'[s] = users[s] \cup {t} /\ \A r \in Sessions : r # s => users'[r] = users[r]
      /\ \A r \in Sessions : users[r] \subseteq users'[r]
  BY <1>1, <1>3 DEF IInv, TypeOK
<1>7. MadeInv'
  <2>1. \A r \in Sessions : /\ users'[r] # {} => r <= made
                            /\ last[r] # 0 => users'[r] # {}
    <3> TAKE r \in Sessions
    <3>1. r \in Nat
      BY ServiceAssumption DEF Sessions
    <3>2. CASE r = s
      BY <1>3, <1>6, <3>1, <3>2
    <3>3. CASE r # s
      BY <1>6, <3>3 DEF UseInv, MadeInv
    <3> QED BY <3>2, <3>3
  <2>2. \A u \in Threads : job'[u].do \in {"back", "make"} => u \notin users'[made]
    <3> TAKE u \in Threads
    <3>1. CASE u = t
      BY <1>1, <1>4, <1>5, <3>1
    <3>2. CASE u # t
      BY <1>3, <1>5, <1>6, <3>2 DEF UseInv, MadeInv
    <3> QED BY <3>1, <3>2
  <2>3. \A u \in Threads : job'[u].do = "send" => users'[job'[u].session] # {}
    <3> TAKE u \in Threads
    <3>1. CASE u = t
      BY <1>3, <1>4, <1>5, <1>6, <3>1
    <3>2. CASE u # t
      <4>1. job[u].do = "send" => job[u].session \in Sessions /\ users[job[u].session] # {}
        BY DEF UseInv, MadeInv, IInv, JobInv, JobOK
      <4> QED BY <1>5, <1>6, <3>2, <4>1
    <3> QED BY <3>1, <3>2
  <2> QED BY <1>1, <2>1, <2>2, <2>3 DEF UseInv, MadeInv, Made
<1>8. EndInv'
  <2>1. \A c \in Connections : j.conn = c => Ends(t, c)
    BY <1>1, <1>4 DEF Ends, Early, Connections
  <2> QED BY <1>1, <2>1, EndStays DEF UseInv
<1>9. OwnInv'
  <2> SUFFICES ASSUME OwnSession', NEW u \in Threads
               PROVE  OwnOK(u, job[u])'
    BY DEF OwnInv
  <2>1. OwnSession
    BY <1>6 DEF OwnSession
  <2>2. OwnOK(u, job[u]) /\ OwnOK(t, job[t])
    BY <2>1 DEF UseInv, OwnInv
  <2>3. CASE u = t
    <3>1. last[s] = 0
      <4>1. users[s] = {}
        <5>1. t \in users'[s] /\ users[s] \subseteq users'[s]
          BY <1>3, <1>6
        <5>2. \A v \in users[s] : v = t
          BY <1>3, <5>1 DEF OwnSession
        <5> QED BY <1>3, <5>2
      <4> QED BY <1>3, <4>1 DEF UseInv, MadeInv
    <3>2. t \in users'[s]
      BY <1>6
    <3> QED BY <1>1, <1>4, <1>5, <2>2, <2>3, <3>1, <3>2 DEF OwnOK, Early
  <2>4. CASE u # t
    <3>1. job[u].do = "send" => job[u].session \in Sessions
      BY DEF IInv, JobInv, JobOK
    <3> QED BY <1>1, <1>5, <1>6, <2>2, <2>4, <3>1 DEF OwnOK
  <2> QED BY <2>3, <2>4
<1> QED BY <1>7, <1>8, <1>9 DEF UseInv

\* A thread that is still to send from its final_callback is inside a connection whose
\* promise is empty, if the other thread is a caller that runs no handlers.
LEMMA CallerSends ==
  ASSUME IInv, job["caller"].do = "send", job["caller"].conn = 0,
         job["io"].do \in Early, job["io"].conn # 0
  PROVE  ~Answered(job["io"].conn)
<1>1. ~Runs /\ service # "gone"
  BY DEF Runs, Ending, InCallback, IInv, ThreadInv
<1>2. job["io"].conn \in Connections
  BY ServiceAssumption DEF IInv, TypeOK, Job, Threads, Connections
<1> QED BY <1>1, <1>2 DEF IInv, PromiseInv, Early, Answered

\* Send() starts a connection: one whose end is not over is not left behind.
LEMMA StartUse ==
  ASSUME IInv, UseInv, NEW t \in Threads, Start(t)
  PROVE  UseInv'
<1> DEFINE s == job[t].session
           j == Returns(t)
<1>1. /\ job[t].do = "send" /\ ~Undelivered(s)
      /\ UNCHANGED <<service, list, made, users, promise>>
  BY DEF Start, At, sessionVars
<1>2. PICK c \in Connections :
        /\ state[c] = "none"
        /\ last' = [last EXCEPT ![s] = c] /\ of' = [of EXCEPT ![c] = s]
        /\ state' = [state EXCEPT ![c] = "running"]
  BY DEF Start, FreeConnections, Made
<1>3. s \in Sessions /\ Turns(t, j)
  BY <1>1 DEF IInv, JobInv, JobOK, Start, Turns
<1>4. /\ InCallback(t) => j.do = "fulfil" /\ j.conn = job[t].conn
      /\ ~InCallback(t) => j.do = "idle" /\ j.conn = 0 /\ job[t].conn = 0 /\ t = "caller"
  BY <1>1, ReturnsSteps, DoingIsJob
<1> HIDE DEF j, s
<1>5. job'[t] = j /\ \A u \in Threads : u # t => job'[u] = job[u]
  BY <1>3, TurnsTo
<1>6. /\ \A d \in Connections : Made(d)' <=> d = c \/ Made(d)
      /\ \A d \in Connections : state[d] = "final" => state'[d] = "final"
      /\ of'[c] = s /\ \A d \in Connections : d # c => of'[d] = of[d]
      /\ last'[s] = c /\ \A r \in Sessions : r # s => last'[r] = last[r]
      /\ ~Made(c) /\ c # 0
  BY <1>2, <1>3 DEF IInv, TypeOK, Made, Connections
<1>7. users[s] # {}
  BY <1>1 DEF UseInv, MadeInv, s
<1>8. \A d \in Connections : Made(d) => of[d] \in Sessions /\ last[of[d]] # 0
  BY DEF UseInv, MadeInv, IInv, ConnInv
<1>9. MadeInv'
  <2>1. \A r \in Sessions : last'[r] # 0 => users[r] # {}
    BY <1>6, <1>7 DEF UseInv, MadeInv
  <2>2. \A d \in Connections : Made(d)' => last'[of'[d]] # 0
    BY <1>6, <1>8
  <2>3. \A u \in Threads : /\ job'[u].do \in {"back", "make"} => u \notin users[made]
                           /\ job'[u].do = "send" => users[job'[u].session] # {}
    BY <1>4, <1>5 DEF UseInv, MadeInv
  <2> QED BY <1>1, <2>1, <2>2, <2>3 DEF UseInv, MadeInv
<1>10. EndInv'
  <2>1. \A d \in Connections : j.conn = d => Ends(t, d)
    BY <1>1, <1>4 DEF Ends, Early, Connections
  <2> QED BY <1>1, <1>3, <1>6, <2>1, EndStays DEF UseInv
<1>11. OwnInv'
  <2> SUFFICES ASSUME OwnSession, NEW u \in Threads
               PROVE  OwnOK(u, job[u])'
    BY <1>1 DEF OwnInv, OwnSession
  <2>1. OwnOK(u, job[u]) /\ OwnOK(t, job[t])
    BY DEF UseInv, OwnInv
  <2>2. CASE u = t
    BY <1>4, <1>5, <2>2 DEF OwnOK, Early
  <2>3. CASE u # t
    <3> DEFINE d == job[u].conn
               e == job[t].conn
               r == job[u].session
    <3>1. /\ d # 0 => d \in Connections /\ Made(d)
          /\ e # 0 => e \in Connections /\ Made(e)
      <4> SUFFICES ASSUME NEW v \in Threads
                   PROVE  job[v].conn # 0 => job[v].conn \in Connections /\ Made(job[v].conn)
        OBVIOUS
      <4>1. job[v].conn # 0 => job[v].conn \in Connections
        BY ServiceAssumption DEF IInv, TypeOK, Job, Connections
      <4>2. job[v].conn # 0 => Made(job[v].conn)
        BY DEF IInv, JobInv, JobOK, Made
      <4> QED BY <4>1, <4>2
    <3>2. d # 0 => d # c
      BY <1>6, <3>1
    <3>3. \/ e # 0 /\ s = of[e]
          \/ t \in users[s] /\ (e # 0 => last[s] = 0)
      BY <1>1, <2>1 DEF OwnOK, s
    <3>4. ASSUME job[u].do = "send"
          PROVE  \/ d # 0 /\ r = of'[d]
                 \/ u \in users[r] /\ (d # 0 => last'[r] = 0)
      <4>1. CASE d # 0 /\ r = of[d]
        BY <1>6, <3>1, <3>2, <4>1
      <4>2. CASE u \in users[r] /\ (d # 0 => last[r] = 0)
        <5>1. r \in Sessions
          BY <3>4 DEF IInv, JobInv, JobOK
        <5>2. CASE r = s /\ d # 0
          <6>1. last[s] = 0
            BY <4>2, <5>2
          <6>2. t \in users[s]
            BY <1>8, <3>1, <3>3, <6>1
          <6> QED BY <1>3, <2>3, <4>2, <5>2, <6>2 DEF OwnSession
        <5>3. CASE ~(r = s /\ d # 0)
          BY <1>6, <4>2, <5>1, <5>3
        <5> QED BY <5>2, <5>3
      <4> QED BY <2>1, <3>4, <4>1, <4>2 DEF OwnOK
    <3>5. ASSUME d # 0, job[u].do \in Early
          PROVE  last'[of'[d]] = d
      <4>1. d \in Connections /\ of'[d] = of[d] /\ last[of[d]] = d /\ of[d] \in Sessions
        BY <1>6, <1>8, <2>1, <3>1, <3>2, <3>5 DEF OwnOK
      <4>2. ASSUME of[d] = s
            PROVE  FALSE
        <5>1. Answered(d)
          BY <1>1, <3>5, <4>1, <4>2 DEF Undelivered
        <5>2. CASE e # 0
          <6>1. s = of[e]
            BY <3>3, <3>5, <4>1, <4>2, <5>2
          <6>2. e = d
            BY <1>1, <2>1, <4>1, <4>2, <5>2, <6>1 DEF OwnOK, Early
          <6>3. Ends(t, d) /\ Ends(u, d)
            BY <1>1, <3>5, <6>2 DEF Ends, Early
          <6>4. \A v \in Threads : Ends(v, d)
            BY <2>3, <6>3 DEF Threads
          <6> QED BY <4>1, <5>1, <6>4 DEF UseInv, EndInv
        <5>3. CASE e = 0
          <6>1. t = "caller" /\ u = "io"
            BY <1>4, <2>3, <5>3 DEF InCallback, Threads
          <6> QED BY <1>1, <3>5, <5>1, <5>3, <6>1, CallerSends
        <5> QED BY <5>2, <5>3
      <4>3. of[d] # s
        BY <4>2
      <4> QED BY <1>6, <4>1, <4>3
    <3> QED BY <1>1, <1>5, <2>3, <3>4, <3>5 DEF OwnOK
  <2> QED BY <2>2, <2>3
<1> QED BY <1>9, <1>10, <1>11 DEF UseInv

\* Every step keeps the invariant.
LEMMA UseNext ==
  ASSUME IInv, UseInv, [Next]_vars
  PROVE  UseInv'
<1>1. CASE UNCHANGED vars
  BY <1>1 DEF vars, sessionVars, connectionVars, UseInv, MadeInv, EndInv, OwnInv, OwnOK,
              OwnSession, Made, Answered, Ends
<1>2. ASSUME NEW t \in Threads, Goes(t)
      PROVE  UseInv'
  BY <1>2, BackUse, StartUse, HandlersUse, ConcludeUse, EndBeginsUse, CallbackUse, FulfilUse,
     ShutdownUse DEF Goes
<1>3. ASSUME NEW t \in Threads, PeerCloses(t)
      PROVE  UseInv'
  BY <1>3, FulfilUse
<1> QED BY <1>1, <1>2, <1>3, AsksUse, WorldUse, ReturnsUse DEF Next

\* The invariant behind WaitsForItself.
THEOREM UsesInvariance == Spec => []UseInv
<1>1. Init => UseInv
  BY UseInit
<1>2. IInv /\ UseInv /\ [Next]_vars => UseInv'
  BY UseNext
<1> QED BY <1>1, <1>2, ServiceInvariance, PTL DEF Spec

\* A thread that waits inside a final_callback, each session being used by the thread
\* that made it, waits for the connection it is inside.
THEOREM IoWaitsForItself == Spec => []WaitsForItself
<1>1. IInv /\ UseInv => WaitsForItself
  <2> SUFFICES ASSUME IInv, UseInv, OwnSession, NEW t \in Threads,
                      InCallback(t), At(t, "send"), Undelivered(job[t].session)
               PROVE  last[job[t].session] = job[t].conn
    BY DEF WaitsForItself
  <2>1. OwnOK(t, job[t])
    BY DEF UseInv, OwnInv
  <2> QED BY <2>1 DEF OwnOK, InCallback, At, Undelivered, Early
<1> QED BY <1>1, ServiceInvariance, UsesInvariance, PTL
=============================================================================
