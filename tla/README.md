# A verification of crequests

crequests is an asynchronous HTTP client library on Boost.Asio. This directory
holds TLA+ models of it, the TLC runs that check them on small instances, and
TLAPS proofs of what matters most for every instance. Paths below are relative
to the repository (`src/`).

    tlc -workers 2 -config connection.cfg MCConnection.tla     # model-check
    tlapm ConnectionProofs.tla                                 # check the proofs

## The system

    caller -- api.h --> session_t --Send()--> connection_t (conn_impl_t) -- stream_t --> server
      |                     |                      |  timers, parser_t
      |                     +-- held by -- service_t (io thread, list of sessions)
      +---- asyncresponse_t::get() <--- promise ---+

| component | state it keeps | operations | what is hard |
|---|---|---|---|
| connection (`connection.cpp`) | `error_code_t state`, stream, resolver, two timers, request and response buffers, parser, response, promise | `start`, `restart`, one handler per asynchronous step, `perform_redirect`, `end` | handlers race the timer; cancelled handlers arrive late; restart and redirect rebuild half of the object in place |
| stream (`stream.h`) | a TCP or TLS socket, or none after a move or a close | `async_*`, `cancel`, `close` | drops an operation, handler and all, when the socket is not open; `cancel` of TLS waits for the server |
| session (`session.cpp`) | the request being built, the last connection | `set_option`, `Send`, `is_expired` | reuses the stream, the cookies and the redirects of the last connection; waits for its response |
| service (`service.cpp`, `api.h`) | io_service, its thread, list of sessions, dispose timer | `new_session`, `run`, dispose timer, the destructor; `Get`, `AsyncGet`, ... | the list is used by two threads; callbacks call back; stop with connections in flight |
| parser (`parser.cpp`, `external/http_parser`) | parser state, paused or not | `execute`, `pause`, `unpause` | where a pause leaves the input |
| redirects, cookies, headers, params | lists and maps | `add`, `find`, `get`, `update` | matching by domain, replacing instead of merging |
| request, uri, params (`request.cpp`, `uri.cpp`, `params.cpp`) | options, parts of a uri, parameters | `prepare`, `make_request`, `from_string`, `update` | `prepare` meets what it left behind the last time; it may be skipped |
| response, auth, TLS options | values | accessors | |
| asyncresponse (`asyncresponse.cpp`) | a shared future | `get` | blocks until the promise is set |

How they interact: `Send` builds a connection around the session's request, moves
the previous connection's stream into it when host, port and protocol agree, and
calls `start` on the caller's thread. From the first asynchronous operation on, the
io thread of the service runs the handlers. `end` calls the user's callbacks and
sets the promise; the caller's `get` returns. The dispose timers of connection and
service are meant to free what nobody wants any more; they never do (`service_dispose`).

What makes each part correct: a connection answers, once, whatever happens, and what
it answers is final; a session sends what its options say, on a stream nobody else
uses, and not a second time once answered; the service keeps sessions as long as they
are needed and no longer; the body handed over is the body that was sent. The hazards
that put this at risk are listed, each with its line, in `PROJECT.json`.

## What is modelled

### Delivery.tla: the promise

The abstract specification: one variable, the outcomes given to the promise. It is
empty, then it holds one outcome, for ever; `FairSpec` adds that it is given one.

### Connection.tla: one exchange

`conn_impl_t`, with the parts of `stream_t`, request and response its control depends
on. An action is one handler, run to its end, with everything it calls: the operators
`Conclude`, `Fail`, `SetSuccess`, `PerformRedirect`, `End` are `set_error`,
`set_success`, `perform_redirect` and `end`, in the code's order.

| variable | code |
|---|---|
| `state` | `error_code_t state` |
| `op`, `ec` | the asynchronous operation in flight; `"waiting"`, or the `ec_t` its handler will get |
| `stream` | `"new"`, `"connecting"`, `"open"`, `"shut"` (cancelled and shut down, still open for `is_open`), `"closed"` (closed, or moved away) |
| `reused` | `m_is_reused` |
| `started`, `arming` | progress of `start()` on the caller's thread: the calls of `setup_timeout` still to come |
| `timer`, `expired` | `timeout_timer` pending; elapsed waits whose handlers are queued |
| `dispose` | `dispose_timer` |
| `request`, `response`, `raw`, `reqbuf` | the fields of the same name, cut down to what the control reads |
| `sent` | copies of the request written to the present stream |
| `feed`, `shown` | what `body_callback` and `final_callback` saw last |
| `held` | `end()` is in `stream.cancel()`, which waits for the server's close_notify |
| `delivered` | what the promise was given |

The chain of a connection (`User` is the caller's thread, `World` network and clock,
`Handler` the io thread):

    StartFresh -> OnResolve -> OnConnect -> OnHandshake -> OnWrite -> OnReadStatus
      -> OnReadHeaders -> OnReadContentLength | OnReadChunkHeader <-> OnReadChunkData | OnReadUntilEof
    StartReused -> OnWrite ...      StartClosed -> OnResolve ...
    OnTimeout, OnDispose at any time

Four points of the model that are easily got wrong:

- *Completion and handler are two steps.* `Complete` queues a result; the handler runs
  later. A cancel between the two changes nothing, a cancel before gives
  `operation_aborted`, except for a resolve under way or a connect with a further
  endpoint (`ResultAfterEnd`).
- *`start()` is cut in two*, at its first operation: that operation may complete, and
  the whole exchange end, before the caller's thread arms the timer (`Arm`).
- *`end()` is cut in two*, where it has to shut TLS down: `ssl_socket->shutdown()`
  (`stream.h:199`) is a synchronous call that holds the io thread until the server answers or
  goes away (`MayWait`, `held`, `PeerCloses`), and comes before the promise is set (`HandOver`).
- *The server is not modelled byte by byte.* A handler that parses chooses what the
  parser found. `ReadChunks` covers the direct calls that handle the chunks already in
  `response_buf`: the handler's next stop is another read or an end.

Left out: texts of errors, cookies, header values, the contents of the body
(only whether there is any), certificates. What the library is given by Boost.Asio
(`Results`, `Complete`, `Elapse`) is modelled from how the code uses it and marked
external.

### Reading.tla: the bytes of an answer

The same read handlers, seen from below: what is in `response_buf`, what `http_parser`
takes of it, and what `content_length` says, for two exchanges on one stream. The body
is a sequence of bytes that carry the exchange and the place they come from; everything
else a server sends is a token: a status line and a header are one token each, a chunk
size is one, and CR and LF are separate because the code waits for them separately.

| variable | code or environment |
|---|---|
| `op`, `outcome` | the read in flight; the final state, or `"none"` |
| `buf` | `response_buf` |
| `rx` | parser and members its callbacks fill: `at`, `framing` and `left` are `http_parser`'s state, `headers` and `length` what `headers_complete_fn` made of them (`content_length`), `raw` the body so far |
| `wire`, `closed` | what the server sent and nobody has read; whether it closed the stream |
| `asked`, `message`, `intact` | the exchange, the answer meant, and whether all of it was sent |
| `clean` | history: every exchange before this one succeeded |
| `whole`, `cutoff` | history: every read found all there was; a read met the end of the stream |

`Completions` are the ways a read may complete: with what it asks for and any number of
bytes more, or at the end of the stream; `Receive` takes the bytes off the wire and `Filled`
is `response_buf` with them. `Execute` is `parser_t::execute`, a fold of `Advance` over the
bytes, with the pause that every callback asks for: the parser stops at, or just before, the
token it reported (`Step`), the rest stays in `buf`; `Resumed` is the parser unpaused.
`NextExchange` is the next connection of the
session on the same stream: a `response_buf` and a parser of its own, and on the wire
whatever the last one left. Timers and network errors are in `Connection`; chunk
extensions, trailers, header syntax and upgrades are left out.

### Session.tla: requests of one session

`session_impl_t` with the parts of request, uri, redirects and cookies that decide where
the next request goes and what it carries.

| variable | code |
|---|---|
| `request` | the session's request: `uri` (with `m_url`, which overrules its parts in `update()`), the Host header, cookies by domain, `cache_redirects`, `throw_on_error` |
| `conn` | the last connection: its status, the request it sends now, the cookies it was given, `redirects_t`, redirects followed, the host its stream is connected to (`peer`), whether that is open, and whether a late redirect made it (`strayed`) |
| `given` | history: cookies ever given by, or set for, a domain |
| `unprepared` | history: options set since `prepare()` was last called |
| `sends` | bound |

An action `Set...` is `set_option` for one option; `Send` is the whole of
`session_impl_t::Send` up to the start of the connection, `SendThrows` the `Send` that
throws the last connection's error; `Finish` and `FollowRedirect` are what `end()` and
`perform_redirect()` change of what the session sees, and `RedirectLate` is the redirect that is
followed after the timeout: `set_success()` does not ask for the final state, so the stream is
replaced by one to the new host, while the response in the promise, whose request `Send` compares
with, stays. A Location without a host (`Parses`) is one `from_string()` makes nothing of; None
is the empty host it leads to. `Send` waits for the last
connection, so there is one at a time, and there is one caller's thread. `port` stands
for port and protocol, which `can_reuse_connection` compares alike. gzip, auth, query and
parameters, data, path and expiry of cookies are left out. A session is made with a url, and
callers name a host in theirs (`Absolute`); servers need not.

### Request.tla: from options to what is on the wire

`request_t`, `uri_t`, `params_t` and the headers `prepare()` puts in. `Session` asks where a
request goes; this module asks what it says, after options were set, the request sent, options
set again, and a redirect followed.

| variable | code |
|---|---|
| `request` | the caller's request: `uri` (`m_url` and its parts, query and parameters), data, gzip, login, headers |
| `said` | history: what the caller set, on a request never prepared |
| `sent`, `location` | the copy of the connection under way; the Location it followed last |
| `changed`, `late` | history: options set since the last request, and after the first one |
| `sends` | bound |

`PrepareUri`, `Update`, `MergeParams`, `SetDefaults`, `MakeUrl`, `FromString` are the functions
of `uri_t`, `Prepare` and `MakeRequest` those of `request_t`; the `Set...` actions are
`set_option`. A url is the parts it names. Of a text there is how often it is percent-encoded,
and whether encoding changes it (`Special`), or its `&` and `=` split it when it is not
(`Joined`): enough to see a parameter encoded twice, lost, or split. `Send` always prepares:
what happens when it does not is in `Session`. A caller's url names a host (`Absolute`); a
Location may be relative, and then `FromString` makes a uri without any part of it, which nobody
checks.

### Cookies.tla: which cookies are kept and sent

`cookies_t` as a state machine: `Add` is `cookies_t::add` of a cookie a server set (one whose
domain does not match changes nothing), `Get` is what `make_request` does: `cookies_t::get`, and
`to_string` of it, which keeps one cookie of each name (`OnePerName`); `Tick` lets time pass.

| variable | code |
|---|---|
| `jar` | `m_cookies_map`: a tree of cookies for every domain |
| `now` | what `now_gmt()` returns |
| `got` | the request just made and the cookies written in it |
| `last` | history: the value last added, by name, domain and path |

A domain is the sequence of its labels, a path that of its characters, since
`is_domain_matched` counts and cuts labels and `is_path_matched` uses the difference of two
characters (what glibc's `memcmp` returns). `operator<` is true when *any* of name, domain and
path is less, so two cookies may each be less than the other. What a `std::set` does then
depends on its tree, so the tree is modelled, as libstdc++ builds it: a function from
positions to cookies, with the root at 1 and the children of `i` at `2i` and `2i + 1`. Up to
four nodes a red-black tree's shape follows from the order and the root, and colours need
not be modelled; `Capacity` keeps to that. `Insert`, `EraseAt` and `EraseKey` were compared
with a real `std::set` over 480000 random steps, and agreed in all.

### Service.tla: two threads

`service_data_t` with its sessions and their connections, as far as threads share them. A
thread is at a place (`job`): in the caller's code, in `new_session`, `Send`, `get`, the
destructor, or in `io_service::run`, between handlers or inside one. Where another thread can
come between, a call is cut: `add_session` in `push_back` and `back()`; a handler in the
question `in_final_state`, the state and the timer, the `final_callback`, the TLS shutdown if
there is one (`Shutdown`, `PeerCloses`), and the promise; the walk of the dispose timer at every session.

| variable | code |
|---|---|
| `service` | `"up"`, `"stopped"` by the destructor, `"gone"` |
| `list`, `made`, `users` | `sessions`; how many were made; which threads `new_session` gave a reference |
| `kept` | the sessions of which the caller holds a copy when the service goes |
| `last`, `of` | `session_impl_t::connection`, and back |
| `state`, `op`, `timeout`, `store` | of a connection: state, operation in flight, its two timers armed |
| `walk`, `queue` | the service's dispose timer; the handlers that are due, first in first out |
| `job` | what each thread does |
| `promise` | outcomes given to the connection's promise; `"broken"` when it was destroyed without one |

The threads are the caller and `"io"`. `Run` puts the caller into `io_service::run` for good.
Handlers of one connection exclude each other, as their strand does, except the resolver's,
which is not wrapped (`Blocked`). A `final_callback` does nothing, sends on its own session, or
calls `api.h` (`Callbacks`). How a chain goes is `Connection`'s: here a handler goes on, gives
up, or concludes. `throw_on_error` is off.

### MC modules

`MCConnection`, `MCReading`, `MCSession`, `MCRequest`, `MCCookies` and `MCService` give the sets
of requests, answers, urls, parameters and cookies the runs use. No symmetry: the values differ,
or the sets are too small to gain by it.

### How the modules fit together

`Delivery` is what a caller sees of a connection. `Connection` implements it, liveness included
(`PromiseKept`); each connection of `Service` implements its safety, on one thread
(`PromisesKept`, an `INSTANCE` of `Delivery` for every connection). `Reading` refines the reads
of `Connection` to bytes, `Session` and `Request` say which request a connection starts with,
`Cookies` what is kept from its answer. They are checked one by one: their product is far beyond
what can be explored, and what passes from one to another is small.

## The runs

| run | result | what it shows |
|---|---|---|
| `connection` | holds | over all options, one exchange delivers, once and for good |
| `conn_stay` | violated | an unfollowed redirect is not delivered before the timeout |
| `conn_resend` | violated | a restart sends the request twice |
| `reading` | holds | what is delivered as the body, for every framing, cut and break-off |
| `read_length` | violated | a body of given length may lose its last byte |
| `session` | holds | requests go to the host they are for, unless a redirect came late; of a domain's cookies they carry those it gave, the last ones too; cached redirects are skipped |
| `cookies` | holds | cookies reach only their site, and of those that are due one of each name is sent |
| `cookies_latest` | violated | a cookie set again may be stored twice |
| `service` | holds | two threads, callbacks and the destructor: promises are kept, calls return |
| `service_run` | violated | a caller in `run()` has a promise set twice |
| `service_dispose` | violated | a session whose response came in is never removed |
| `request` | holds | what is set is sent, once more as at first, and a redirect asks for its Location |

`connection`:

- `DeliveredOnce`, `OutcomeKept`: `end()` runs once, exactly when the state becomes
  final, and late handlers change nothing. A second `set_value` would throw on the io
  thread.
- `PromiseKept`: `Connection` implements `Delivery!Spec`, and `Delivery!Live` if no TLS shutdown
  holds `end()` for ever: the outcome is delivered though no operation ever completes. The
  condition is needed: with `ssl` and `keep_alive(false)` a server that is silent after the
  handshake keeps the timeout's own `end()` waiting, and nothing is ever delivered.
- `TimerCovers`: after `start()` there is a timeout pending or queued as long as there
  is no outcome, through restarts and redirects.
- `InFlight`, `StreamFits`: a connection without an outcome waits for an operation, and
  that operation has the socket it needs: `stream_t` never drops a handler that is needed.
- `RedirectBound`: no more redirects than `redirect_count`.
- `ServerCloses`: a response with `Connection: close`, read to its end, leaves no open
  stream for the next request.
- `ResentOnlyUnanswered`: `restart()` repeats a request only if none of its answer was
  parsed and nothing was delivered.
- `BodyOfThisAnswer`: the body collected is never one of an answer that redirected or of a
  stream that was given up.
- `CallbacksTold`: `final_callback` was shown the outcome that was delivered, a
  `body_callback` is told of its end, and the body goes to one of the two places only.

`reading`: `BodyIsPrefix` (nothing lost within the body, nothing twice, no framing in it,
nothing of the exchange before, as long as the exchanges before it on the stream succeeded:
`clean`, see "Seen while modelling"), `OnePiece` (an answer that never makes a read wait comes
out whole), `LengthLosesOne` (a read of a given length that succeeds has all of the body but at
most its last byte), `ChunksComplete` (chunks that succeed before the stream ended are the whole
body), and `CloseEnds` (a closed stream ends the exchange). `LengthLosesOne` speaks of
`read_content_length()` and not of every answer with a Content-Length: see the line end behind a
last chunk, under "Seen while modelling".

`session`: `RightPeer` (whatever stream is used, it is connected to the request's host, unless it
was taken over from a connection that followed a redirect after its timeout: `strayed`),
`HostMatches` (the Host header fits the request unless options were set that no `prepare()` has
seen), `CookiesAtHome` (what a request carries of a domain's cookies that domain gave),
`LastCookiesSent`, `CacheSkips`.

`cookies`: `SentToItsSite` (host and origin of a cookie have a domain in common that is not
public), `AllDueSent` (of what RFC 6265 makes due to a request each is written in it, or another
of its name that the host may have), `LatestOnOnePath`
(with one path a list holds each cookie once, with its last value), `NothingLost`
(with one path a list gives up none before it is expired).

`service`: `PromisesKept` (each promise is `Delivery`'s, whatever races, as long as the caller
runs no handlers), `WaitsForItself` (a wait for a promise holds the io thread only in a `final_callback` that
waits for the very promise it is about to fulfil; for callers that use their own sessions),
`Released` (the end of the service leaves no response open but of sessions the caller copied),
`CallerReturns` (every `get`, `Send` and destructor returns, though no operation completes, if
every TLS shutdown ends and unless one of those two cases holds it).

`request`: `SameAgain` (sent again with nothing set in between, a request is the same),
`ChangesAppear` (what was set, in whatever order and after however many requests, is in the next
one), `RedirectTarget` and `LocationKept` (a redirect goes where its Location says and takes
nothing of the request before along; a relative Location leads to no host at all). Parameters must be tame, that is, not need the encoding
that is lost or doubled, see below.

Bounds. `Connection`: the only parameter is the set of requests. `redirect_count` is 0 or
1: the check compares one counter with it, so refusing at once and refusing after one
redirect are the two cases. A redirected exchange is a full exchange again, and the chain
may loop through any number of chunks without new states. `expired` needs no bound, since
the timer is armed at most twice by the caller and once by a restart. `throw_on_error`,
`body_callback` and `ssl` are not combined: none influences what another does.
`Reading`: bodies of no byte to three, in no chunk to two, broken off at every token; two
exchanges, since all that passes from one to the next is what is left on the wire. An
off-by-one needs one byte, a leftover two exchanges, a stale size two chunks.
`Session`: two requests, one to fill the cache and the cookies, one to use them; two redirects in
each, so that one may be followed in time and one late. Two domains, ports and paths, one cookie,
urls that name all, or only some, parts, and a Location that names no host. After the last request
nothing is set. What a longer session may do is left to the proofs. At most one option (`MaxChanges`) is set between two calls of
`prepare()`; setting it again is always possible.
`Request`: two requests, as the second is what meets the first's leavings; two options set before
each, any of eleven; urls with and without protocol, port, path and query, parameters that need
encoding, split, or have no value; a relative Location. After a redirect the caller's request is not followed further.
`Service`: two sessions, two connections: a connection to wait for and one that waits, on one
session or two; the caller and one io thread. `service_run` and `service_dispose` need one of each.
`Cookies`: three cookies in all for `cookies`, four for `cookies_latest`; twelve kinds of
cookie that differ in what domains, path and time do to them; six hosts, a public suffix of
several labels among them. Deadlock is not checked because exchanges, the requests of a session and a service end.

Fairness. `Connection`: `WF` of `start()` and `Arm`: the caller's thread runs on. `WF` of
the timers elapsing: time passes. `WF` of `OnTimeout` and `OnDispose`: the io thread runs
queued handlers, and `io_service` queues are first-in first-out. There is no fairness on
`Complete`: a server, a resolver or a network may be silent for ever, and `PromiseKept`
holds all the same, unless that server is one whose close_notify is waited for: `PeerCloses` has no
fairness either. Nor on any handler of the chain, though one would be justified.
`Reading`: `WF` of `Reads`, a read that can complete does and its handler runs; none on the
server closing or on a further request.
`Service`: `WF` of what a thread has begun (`Goes`), of `get` returning once there is an outcome,
of the destructor's join, and of the timers elapsing. None on what a caller may or
may not ask, none on the network, none on a server ending a TLS shutdown. `Session`, `Request` and
`Cookies` have no liveness property.

## What is proved

`ConnectionProofs.tla`, for every set of requests (the only assumption is that a request
has the type `RequestsAssumption` gives it; `redirect_count` is any natural number).

The inductive invariant `IInv` is the conjunction of `TypeOK`, `DeliveredOnce`,
`NeverExpired`, `RedirectBound`, `StreamFits`, `InFlight` and `TimerCovers`. They need
one another: a final state is left only if it is `EXPIRED`, so `DeliveredOnce` needs
`NeverExpired`, which in turn needs that the dispose timer runs only after the delivery;
`InFlight` needs `StreamFits`, since `stream_t` drops operations on a closed socket; a
handler that is told `aborted` stops without a word, so `InFlight` needs that before the
end nothing is aborted, the last part of `StreamFits`.

The argument: every handler of the chain either leaves the outcome undecided and goes on
(`Kept`) or decides it (`Ended`); one lemma per handler says so (`ResolveMoves`, ...,
`UntilEofMoves`), `HandlerKeeps` turns that into `IInv'` together with what `OutcomeKept`
and `Delivery` ask of a step, and `NextKeeps` adds the caller, the world, and the timers.

Theorems: `Invariance`, `TypeCorrect`, `DeliversOnce`, `TimeoutPending`, `ChainGoesOn`
(`InFlight`), `SocketFits` (`StreamFits`), `RedirectsBounded`, `Unexpired`, `OutcomeStays`, and `ImplementsDelivery`, the safety half
of the refinement. `DeliveredOnce` says of a held `end()` that the state is final and the promise
still empty.

`SessionProofs.tla`, for all domains, ports, paths, cookies, urls and options, and any
number of requests and redirects (`SessionAssumption`: the defaults are among the values,
and an empty string is none of them). The inductive invariant adds to the properties what
they rest on: the session's request is prepared but for the options in `unprepared`; every
redirect in the cache was prepared, since `skip_redirects` puts its uri back; and the
cookies of the request, of the connection and of every cache entry are at home, since each
of the three may be the next request's. A redirect that comes late changes only what `strayed`
takes out of `RightPeer`; one without a host leaves a uri that `update()` passes over. Theorems: `SessionInvariance`, `SessionTypes`,
`GoesToItsHost`, `HostIsRight`, `CookiesStay`, `CacheBounded`.

`LastCookiesAreSent` and `CacheLeads` say what the next request has of the last connection.
The first follows from `can_reuse` being asked after the redirect cache was. The second needs
`SkipInv`: a cache that is not empty knows the domain the connection is at, and, as long as the
caller sets nothing, the session's own; and a uri that `prepare` made (`SettledUri`) is one it
leaves alone, since `skip_redirects` has it prepared again. A `Send` that throws the
last connection's error may have prepared the session's request and made no connection for it,
so of a session that throws `SkipInv` says only the first part.

`AnswerProofs.tla`, on top of `ConnectionProofs`. Its invariant `AInv` is `CallbacksTold`,
`BodyOfThisAnswer` and `ServerCloses` with what makes them inductive: a request with a
`body_callback` leaves `raw` empty, since `end()` would move it into the response; before
`start()` nothing is armed, read or decided; and after a `SUCCESS` no operation of the chain is in
flight, since late handlers still change the response. Every handler is shown to leave the outcome
alone (`Quiet`) or to decide it and tell the callbacks (`Tells`). A second invariant, `Unanswered`
(up to the first read no answer was parsed), gives `ResentOnlyUnanswered`. Theorems:
`AnswerInvariance`, `BodyIsOfThisAnswer`, `CallbacksAreTold`, `ServerCloseHonoured`,
`ResendsOnlyUnanswered`.

`ServiceProofs.tla`, for any number of sessions and connections and any callbacks. The invariant
says where each thread can be at each stage of the service, that every job and every handler in
the queue is about a connection that was made, and about a final one where it must be, that
`Send` leaves only answered connections behind (a connection whose `end()` waits in a TLS shutdown
is final and not answered), and that, while the caller runs no handlers,
the io thread is inside an `end()` only while that promise is empty. The last part is what two
threads in `run()` break. Theorems: `ServiceInvariance`, `ServiceTypes`, `ServiceReleases`,
`SessionsRemain` (no session leaves the list before the service goes: what `service_dispose`
shows, for every service), `ServiceDelivers` (every promise refines `Delivery`), `ServiceDeliversOnce`.

`IoWaitsForItself` (`WaitsForItself`) rests on a second invariant, `UseInv`: who made a session
and who uses it (`MadeInv`: sessions are numbered as they are made, and a number not yet given
out has no user and no connection), two threads inside the `end()` of one connection both have
its promise still to fulfil (`EndInv`), and, if threads use only sessions of their own, a thread
that sends does so on one it made or on that of the connection that calls it back, which up to
then is the session's last (`OwnInv`).

`RequestProofs.tla`, for all values of the constants (`RequestAssumption`) and any number of
requests. The lemmas say what `prepare()` makes of a uri, part by part (`PreparedIs`), and that
it leaves a uri it made itself as it is, provided its parameters are tame (`PrepareSame`); that
in turn needs that encoding a text once is injective. The invariant is `AllInv`, which relates
the caller's request to all that was said (`SaidInv`: data, gzip and login are those said, the parameters
are those and the ones of its url, and unless a part of the uri was set after the first request
the uri is what a single `prepare()` makes of what was said), together with `RedirectTarget` and
`LocationKept`. A caller's uri has a url that names a host, or a domain (`Rooted`), and so has one
after `prepare()`; the uri of a Location need have neither, and then `prepare()` makes port 80 of
no host of it (`PreparedNowhere`). Theorems:
`RequestInvariance`, `TypeCorrect`, `RedirectsLead`, `LocationsKept`, `SentAgain` (`SameAgain`),
`SaidAppears` (`ChangesAppear`).

`FoldLemmas.tla`: what `FoldLeft` computes, for any operator. The library's induction theorems
take a predicate, which the provers cannot instantiate; here the induction is over a set of
naturals, from the least number it lacks (`LeastNatural`, `NaturalInduction`). It gives that the
function `FoldLeft` chooses exists (`FoldExists`), that a fold is the last of a sequence of
accumulators one operation apart (`FoldHistory`), and so an induction along a fold with one set
of accumulators for each position (`FoldInduction`).

`ReadingProofs.tla`, with those lemmas, for any messages of any sizes, any pieces, and any number
of exchanges on the stream; the parser's run over its input is such a fold, and so are a
message's size and its chunks. What the server sends is known position by position (`HeadIs`,
`PlainIs`, `ChunkedIs`). `Follows(p, m, e, i)` says that a parser has taken the answer up to a
position, with the bytes of the body in front of it; a step takes it one on (`FollowsStep`), and
`Ran` says what a whole call of `execute` does and where a callback pauses it. The invariant
`IInv` is `Underway`, which locates parser, `response_buf` and wire on the answer for each read
in flight, and `Over`, what an exchange has delivered; both for `clean` exchanges, since what a
failed one leaves behind may be anything. The line end that an exchange which succeeded leaves
on the stream is the positions below 1. Theorems: `TypeCorrect`, `BodyDelivered`
(`BodyIsPrefix`), `OnePieceDelivered` (`OnePiece`), `LengthAlmostDelivered` (`LengthLosesOne`),
`ChunksDelivered` (`ChunksComplete`).

`CookiesProofs.tla`, for any cookies, hosts, paths and times, public suffix and addresses, as
long as all lists together have at most four nodes (`CookiesAssumption`): up to there the shape
of a tree is known, so the bound is one of the model of `std::set`, not of the proof. Four lines
of argument meet in the invariant `CookiesInv`:

- *Shapes.* A list is a tree of one of nine shapes. Shape by shape, `Descend` ends at a free
  place (`GapIs`), and `Insert`, `EraseAt` and `EraseKey` leave a tree again, with what it held
  and the new cookie, or less what was erased. No order is assumed here, as there may be none.
- *Insertion.* Wherever `insert` looks, a cookie of that name, domain and path is in the set
  afterwards (`InsertIs`): if it takes another for the new one, neither of the two is less, and
  then all three parts are equal. So what `get` puts together, one insertion after the other
  (`InsertAllIs`, `MergeIs`, by `FoldLemmas`), has every cookie that went in, in spite of the
  order. `OnePerName` then leaves one of each name, and that one the host may have too, since all
  of them are eligible and fresh: `AllDueSent`.
- *Domains.* What `DomainMatched` admits is the domain itself, or has a domain above in common
  with it that is not public (`SiteIs`).
- *One path.* There `Less` is the order of the names (`LessIs`), a tree is in order (`Sorted`)
  and stays so; `add` finds the cookie it is to replace (`ListAddSorted`), and `erase` by key
  takes that one and no other (`EraseKeySorted`).

Theorems: `CookiesInvariance`, `CookiesTypes`, `SentToTheirSite` (`SentToItsSite`),
`LatestIsHeld` (`LatestOnOnePath`), `AllDueIsSent` (`AllDueSent`), `NoneIsLost` (`NothingLost`).
`NothingLost` was stated for lists of two first; that is no invariant, and the attempt to prove
it showed how a larger instance refutes it.

Only model-checked: liveness (`PromiseKept` beyond its safety half, `CloseEnds`,
`CallerReturns`); the provers do not reach fairness.

## Findings

Each is a run in which TLC finds the code doing what its own documentation or tests exclude.

1. `conn_stay` (`connection.cpp:1010`): `redirect_t{false}` and a 301, 302 or 303: the
   response is complete, and `TIMEOUT` is delivered instead.
2. `conn_resend` (`connection.cpp:574`): `restart` keeps `request_buf`, and the request is
   written twice.
3. `read_length` (`connection.cpp:770`): the parser is paused on the last LF of the
   headers, which stays in `response_buf` and is counted as a byte of the body; a body that
   comes in pieces is delivered as `SUCCESS` without its last byte. `LengthLosesOne`: by that
   read it is never more than the one.
4. `cookies_latest` (`cookies.cpp:281`): with cookies named 2 and 1 on one path and 3 on an
   earlier one, 3 set again is stored a second time, in front of the old one.
5. `service_run` (`connection.cpp:619`): the resolve handler is not wrapped in the strand. A
   caller in `service.run()`, as `README.md:112` shows it, may time the connection out while
   the io thread handles a failed lookup: `end()` runs twice, and the second `set_value` throws.
6. `service_dispose` (`connection.cpp:1041`): `set_state` keeps final states, and `set_dispose` runs
   only in one, so no connection becomes `EXPIRED`, `is_expired()` is always false, and the walk of
   the service's dispose timer removes nothing. `README.md:100` says of responses "After timeout
   they will be removed." `Unexpired` and `SessionsRemain` prove it for every service.

Seen while modelling, reachable in the models, without a run of their own:

- Over TLS, with `keep_alive(false)` or an answer with `Connection: close`, `end()` shuts the stream
  down before it sets the promise (`connection.cpp:922`, `:927`, then `:935`), and that waits for the
  server's close_notify on the io thread (`stream.h:199`). A server that is silent after the
  handshake thus keeps the timeout itself from being delivered, and every other connection of
  the service waiting, and the destructor. It is what `PromiseKept` and `CallerReturns` except.
- `set_success()` does not ask `in_final_state()` before it calls `perform_redirect()`
  (`connection.cpp:1008`). After a `TIMEOUT` with keep-alive the chain runs on; a redirect read then
  replaces the stream by one to the Location's host, while the promise has a copy of the response
  with the old request. The session's next `Send` compares with that one (`session.cpp:390`) and
  takes the stream over (`connection.cpp:426`): a request for one host, cookies and all, goes to the
  other. The stream may be of TLS where the request is not, or the other way round. It is what
  `RightPeer` excepts (`strayed`).
- A relative Location is no url to `uri_t::from_string` (`uri.cpp:203`), and `perform_redirect` does
  not ask (`connection.cpp:962`): the request goes on with an empty host, which the resolver takes
  for the machine itself, to port 80, with the default path. Where something listens there, the
  `assert` in `make_request` (`request.cpp:484`) ends the program, or, in a build without
  assertions, the request is sent with an empty Host; elsewhere the outcome is `CONNECT_ERROR`.
- Of cookies of one name, but of different domains or paths, only the last in the list is sent
  (`cookies.cpp:309`).
- Content-Length is that of the data, and with gzip, the default, another number of bytes follows
  (`request.cpp:527`, `:506`): the server waits for more, or takes the rest for a request.
  `test_request.cpp:142-158` expects just that, a length of 6 with a compressed body.

- With `throw_on_error` off, an exchange that failed on an open stream leaves the rest of its
  answer there. The stream is kept (`connection.cpp:421`, `:917`) and the session's next
  connection takes it over (`session.cpp:390`): answers and requests get out of step, and a
  later exchange may deliver another one's body. This takes four exchanges, more than the run
  has; it is why `BodyIsPrefix` asks for `clean`.
- A read that ends with a chunk's last byte is followed by one that finds only the line end;
  `content_length` is still the old chunk's, and as many bytes are waited for again
  (`connection.cpp:823`).
- A redirect's response is replaced, and the cookies given with it are lost
  (`connection.cpp:969`).
- A cookie for `/a` is sent with `/b/b`: `is_path_matched` takes a difference of characters for
  one of lengths (`cookies.cpp:411`).
- `add_session` is two steps: a caller and a callback that make sessions at once may both get the
  later one (`service.cpp:80`). It takes a third session to see what follows, so
  `WaitsForItself`, which assumes otherwise (`OwnSession`), holds in the run without the
  assumption.
- A copy of a session keeps its last connection when the service goes; nothing fulfils or breaks
  that promise any more, and `get` waits for ever (`service.cpp:56`).
- A `final_callback` that sends on its own session holds the io thread for ever
  (`session.cpp:386`).
- A parameter's name that needs encoding, or a word with `&` or `=`, is encoded again, or split,
  by each `prepare()` (`uri.cpp:284`); an encoded word in a Location is decoded and encoded
  again; a name without `=` is lost.
- Parameters set anew are added to those set before, which stay in the query (`uri.cpp:284`).
- Turning gzip off leaves `Content-Encoding: gzip` in the headers (`request.cpp:519`).
- Cookies go out in a header named `Cookies` (`request.cpp:498`).

- After `TIMEOUT` with keep-alive the chain goes on: `end()` cancels neither stream nor
  operation (`connection.cpp:927`), and `body_callback` may be fed after its end call.
- `final_callback` is shown the response before the body is moved into it
  (`connection.cpp:917`, `:930`): it sees an empty body.
- The line end behind a last chunk is left on a kept stream, and `on_read_status` takes it
  for a status line (`connection.cpp:719`); the next call stops behind the real one, before any
  header, and `read_content` finds no framing: the answer is read until the end of the stream
  (`connection.cpp:758`), and if the server breaks off there, an empty body, or what there is of
  it, is a `SUCCESS`. With `LengthLosesOne` this makes the exception of
  an answer with a Content-Length that is not read by `read_content_length()`.
- With cached redirects on, the default, `prepare()` is not called for a session that has a
  connection, and a new url is ignored (`session.cpp:384`).
- `prepare()` stores the complete url, so a path, port or domain set afterwards is
  overruled by the next `prepare()` (`uri.cpp:295`), though `README.md:60` says "you can change
  parameters arbitrarily".
- `prepare()` never removes `Content-Length`: a request without data announces the length
  of the data before it (`request.cpp:526`).
- With two paths in a list, erasing an expired cookie may take one along that is not
  (`cookies.cpp:478`), from three cookies on, and also of two, once an erase has left those two
  out of order; so `NothingLost` is about domains with one path.
- `make_request` leaves `is_ssl` of `get` at false: Secure cookies are never sent
  (`request.cpp:494`).

## Not modelled

- *Whose answer is next on a kept stream.* After a timeout with keep-alive the old answer is still
  under way, and an old read may be pending, when the next connection takes the stream over
  (`session.cpp:401`); and `response_buf` survives `restart()` (`connection.cpp:569`). Both need
  the bytes of two connections on one stream, that is, `Reading` and `Connection` in one module;
  it would be the next one to write (`KeepAlive`), with `Delivery` as what it composes with.
- *Data races in the sense of the memory model.* `Service` interleaves `push_back` with the walk
  of the list as steps; a torn `std::list` is not a state of it. Nor is `timeout_timer` used by two
  threads at once (`connection.cpp:563`).
- *More than two threads*: several callers in `run()`.
- *TLS set-up and certificates*, `stream.h` up to line 115, the options that lead there, and the
  accessors of response, request, auth and cookies: values without behaviour.
- *The text of things*: how `uri_t::from_string` and the cookie parser cut texts, header lookup
  without regard to case, base64, date formatting, error texts, the contents of a
  `Content-Encoding: gzip` answer.
- *The vendored `http_parser`* beyond responses, and the test server.

Worth proving next: every safety and action property of a passing run is a theorem. Left is what
the modules do not say yet: trees of more than four nodes, for which `Cookies` would have to
model the colours, and `KeepAlive`, named above.
