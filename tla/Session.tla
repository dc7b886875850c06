------------------------------- MODULE Session -------------------------------
(***************************************************************************)
(* A session of crequests (crequests/session.cpp): a request the caller    *)
(* keeps changing, and the last connection made from it.  What the next    *)
(* request is depends on both: on the options, on the redirects the last   *)
(* connection followed, and on the cookies it was given.                   *)
(*                                                                         *)
(* A connection is what the session sees of it: the request it sends, the  *)
(* redirects, and how it ends; how it gets there is Connection.  Protocol  *)
(* and port go together here, and of the options there are those that      *)
(* Send() or the host depend on: what prepare() makes of the rest is in    *)
(* Request.  A Location may be relative, which is taken for no place at    *)
(* all, and a redirect may come after the connection has timed out.        *)
(***************************************************************************)
EXTENDS Integers, FiniteSets, SequencesExt

CONSTANTS
  Domains, Ports, Paths,
  DefaultPort, DefaultPath,
  None,           \* an empty string
  Cookies,        \* names; a server gives them for its own domain
  Urls,           \* what callers and servers call the places, in full or in part
  RedirectCount,  \* the option redirect_count
  Options,        \* bound: the options the caller sets
  MaxChanges,     \* bound: options set and not prepared
  MaxSends        \* bound: requests of one session; nothing is set after the last

AllOptions == {"url", "domain", "port", "path", "headers", "cookies", "behaviour"}

\* None is the empty host: the resolver takes it for the machine itself.
Sites == Domains \cup {None}

\* A url without a domain is no url to uri_t::from_string().
Url == [domain : Sites, port : Ports \cup {None}, path : Paths \cup {None}]
Parses(url) == url # None /\ url.domain # None

\* What callers call the places: by their domain.
Absolute == {u \in Urls : Parses(u)}

ASSUME SessionAssumption ==
  /\ DefaultPort \in Ports /\ DefaultPath \in Paths
  /\ None \notin Domains \cup Ports \cup Paths /\ None \notin Url
  /\ Urls \subseteq Url /\ Options \subseteq AllOptions
  /\ RedirectCount \in Nat
  /\ MaxSends \in Nat /\ MaxChanges \in Nat

VARIABLES
  request,     \* the session's request
  conn,        \* the last connection
  given,       \* the cookies servers, or the caller, ever gave, by domain
  unprepared,  \* the options set since prepare() was last called
  sends        \* how often Send() made a connection

vars == <<request, conn, given, unprepared, sends>>

Jar == [Sites -> SUBSET Cookies]
NoCookies == [d \in Sites |-> {}]

Uri == [url : Url \cup {None}, domain : Sites,
        port : Ports \cup {None}, path : Paths \cup {None}]

\* Of the headers there is Host; DEFAULT_HEADERS has none.
HeadersType == [host : Sites]
Headers == [host |-> None]

Request == [uri : Uri, headers : HeadersType, cookies : Jar,
            cache_redirects : BOOLEAN, throw_on_error : BOOLEAN]

\* Status "none": no connection was made yet.  Of a connection that has ended request,
\* cookies and redirects are those of the response in the promise.  Strayed: a redirect
\* followed after that has given it another stream.
Connection == [status : {"none", "pending", "success", "error"}, request : Request,
               cookies : Jar, redirects : Seq(Request), hops : 0..RedirectCount,
               peer : Sites \X (Ports \cup {None}), open : BOOLEAN, strayed : BOOLEAN]

-----------------------------------------------------------------------------
(* Requests.                                                               *)

\* A part of the url, if it has that part, replaces the part of the uri.
Part(new, old) == IF new = None THEN old ELSE new

\* update(): what the url says overrules the parts set one by one.
UpdateUri(uri) ==
  IF ~Parses(uri.url) THEN uri
  ELSE [uri EXCEPT !.domain = Part(uri.url.domain, @),
                   !.port = Part(uri.url.port, @), !.path = Part(uri.url.path, @)]

SetDefaults(uri) == [uri EXCEPT !.port = Part(@, DefaultPort), !.path = Part(@, DefaultPath)]

MakeUrl(uri) == [uri EXCEPT !.url = [domain |-> uri.domain, port |-> uri.port, path |-> uri.path]]

PrepareUri(uri) == MakeUrl(SetDefaults(UpdateUri(uri)))

Prepare(r) ==
  LET uri == PrepareUri(r.uri)
  IN [r EXCEPT !.uri = uri, !.headers = [host |-> uri.domain]]

\* uri_t::from_string(): is_valid, which nobody asks for, and no part at all when the
\* text does not parse.
FromString(url) ==
  IF Parses(url) THEN [url |-> url, domain |-> url.domain, port |-> url.port, path |-> url.path]
  ELSE [url |-> None, domain |-> None, port |-> None, path |-> None]

Host(uri) == <<uri.domain, uri.port>>

\* Mutant: the domain alone decides.
CanReuseAnyPort(r, last) == r.uri.domain = last.uri.domain

CanReuse(r, last) == Host(r.uri) = Host(last.uri)

\* cookies_t::update(): a domain's cookies replace those the domain had.
Update(jar, new) == [d \in Sites |-> IF new[d] = {} THEN jar[d] ELSE new[d]]

-----------------------------------------------------------------------------
(* The redirect cache.                                                     *)

Knows(redirects, r) == \E i \in DOMAIN redirects : redirects[i].uri.domain = r.uri.domain

Add(redirects, r) == IF Knows(redirects, r) THEN redirects ELSE Append(redirects, r)

\* Mutant: the entry that matches is returned.
FindMatch(redirects, r) ==
  redirects[CHOOSE i \in DOMAIN redirects : redirects[i].uri.domain = r.uri.domain]

\* find(), when there is a match.
Find(redirects, r) == redirects[Len(redirects)]

\* Mutant: prepare() is not called.
SkipRedirectsUnprepared(redirects, r) ==
  IF ~Knows(redirects, r) THEN r
  ELSE [r EXCEPT !.uri = Find(redirects, r).uri, !.cookies = Find(redirects, r).cookies]

SkipRedirects(redirects, r) ==
  IF ~Knows(redirects, r) THEN r
  ELSE Prepare([r EXCEPT !.uri = Find(redirects, r).uri,
                         !.cookies = Find(redirects, r).cookies])

-----------------------------------------------------------------------------
(* The caller: set_option() and Send().                                    *)

SetOption(option, r) ==
  /\ option \in Options /\ Cardinality(unprepared \cup {option}) <= MaxChanges
  /\ sends < MaxSends
  /\ request' = r /\ unprepared' = unprepared \cup {option}
  /\ UNCHANGED <<conn, sends>>

Sets(option, r) == SetOption(option, r) /\ given' = given

SetUrl    == \E u \in Absolute : Sets("url", [request EXCEPT !.uri.url = u])
SetDomain == \E d \in Domains : Sets("domain", [request EXCEPT !.uri.domain = d])
SetPort   == \E p \in Ports : Sets("port", [request EXCEPT !.uri.port = p])
SetPath   == \E p \in Paths : Sets("path", [request EXCEPT !.uri.path = p])
\* Headers of the caller's own, without Host.
SetHeaders == Sets("headers", [request EXCEPT !.headers = Headers])

\* cache_redirects and throw_on_error, which prepare() does not look at.
SetBehaviour ==
  \E c, t \in BOOLEAN :
    Sets("behaviour", [request EXCEPT !.cache_redirects = c, !.throw_on_error = t])

\* The cookies of one domain.
SetCookies ==
  \E d \in Domains, c \in SUBSET Cookies :
    /\ SetOption("cookies", [request EXCEPT !.cookies = [NoCookies EXCEPT ![d] = c]])
    /\ given' = [given EXCEPT ![d] = @ \cup c]

Connected == conn.status # "none"

\* The first lines of Send(): the session's request is made ready, or is thought
\* to be.
UsesCache == Connected /\ request.cache_redirects

Prepared == IF UsesCache THEN SkipRedirects(conn.redirects, request) ELSE Prepare(request)

\* prepare() was called after all.
PrepareRuns == UsesCache => Knows(conn.redirects, request)

StillUnprepared == IF PrepareRuns THEN {} ELSE unprepared

\* What the last connection's future throws, in Send() too.
Throws == conn.status = "error" /\ conn.request.throw_on_error

\* A connection_t on request r, started.  It has the stream of the last one, or
\* connects: to the host its request names.
Start(r, reuses) ==
  [status |-> "pending", request |-> r, cookies |-> NoCookies,
   redirects |-> IF reuses THEN conn.redirects ELSE <<>>, hops |-> 0,
   peer |-> IF reuses /\ conn.open THEN conn.peer ELSE Host(r.uri), open |-> TRUE,
   strayed |-> reuses /\ conn.open /\ conn.strayed]

\* Mutant: the last answer's cookies are taken first, the cache is asked then.
SendCookiesFirst ==
  /\ sends < MaxSends /\ conn.status # "pending" /\ ~Throws
  /\ LET reuses == Connected /\ CanReuse(Prepared, conn.request)
         held   == [request EXCEPT !.cookies = Update(@, conn.cookies)]
         r      == IF reuses /\ UsesCache THEN SkipRedirects(conn.redirects, held) ELSE Prepared
     IN request' = r /\ conn' = Start(r, reuses)
  /\ unprepared' = StillUnprepared /\ sends' = sends + 1 /\ given' = given

\* Send() waits for the last connection's response, whatever it wants of it.
Send ==
  /\ sends < MaxSends /\ conn.status # "pending" /\ ~Throws
  /\ LET reuses == Connected /\ CanReuse(Prepared, conn.request)
         r == IF reuses THEN [Prepared EXCEPT !.cookies = Update(@, conn.cookies)]
                        ELSE Prepared
     IN request' = r /\ conn' = Start(r, reuses)
  /\ unprepared' = StillUnprepared /\ sends' = sends + 1 /\ given' = given

\* With the redirect cache it throws before the request is touched.
SendThrows ==
  /\ Throws
  /\ request' = IF UsesCache THEN request ELSE Prepared
  /\ unprepared' = IF UsesCache THEN unprepared ELSE StillUnprepared
  /\ UNCHANGED <<conn, given, sends>>

-----------------------------------------------------------------------------
(* The connection.                                                         *)

Gives(c) == given' = [given EXCEPT ![conn.request.uri.domain] = @ \cup c]

\* Mutant: the cookies are filed under the domain asked first.
FinishAtFirstDomain ==
  /\ conn.status = "pending"
  /\ \E status \in {"success", "error"}, c \in SUBSET Cookies, open \in BOOLEAN :
       /\ conn' = [conn EXCEPT !.status = status, !.open = open,
                               !.cookies[request.uri.domain] = c]
       /\ Gives(c)
  /\ UNCHANGED <<request, unprepared, sends>>

\* The cookies of an answer, and its end; the stream may be closed, or not.
Finish ==
  /\ conn.status = "pending"
  /\ \E status \in {"success", "error"}, c \in SUBSET Cookies, open \in BOOLEAN :
       /\ conn' = [conn EXCEPT !.status = status, !.open = open,
                               !.cookies[conn.request.uri.domain] = c]
       /\ Gives(c)
  /\ UNCHANGED <<request, unprepared, sends>>

\* The request perform_redirect() makes of the one that was answered.
Redirected(u) == Prepare([conn.request EXCEPT !.uri = FromString(u)])

\* Mutant: redirects are not counted.
FollowRedirectUncounted ==
  /\ conn.status = "pending"
  /\ \E u \in Urls, c \in SUBSET Cookies :
       LET r == Redirected(u)
           before == IF conn.redirects = <<>> THEN <<conn.request>> ELSE conn.redirects
       IN /\ conn' = [conn EXCEPT !.request = r, !.redirects = Add(before, r),
                                  !.hops = @ + 1, !.peer = Host(r.uri), !.open = TRUE,
                                  !.strayed = FALSE]
          /\ Gives(c)
  /\ UNCHANGED <<request, unprepared, sends>>

\* A new response: the cookies of the one that redirects are not kept.
FollowRedirect ==
  /\ conn.status = "pending" /\ conn.hops < RedirectCount
  /\ \E u \in Urls, c \in SUBSET Cookies :
       LET r == Redirected(u)
           before == IF conn.redirects = <<>> THEN <<conn.request>> ELSE conn.redirects
       IN /\ conn' = [conn EXCEPT !.request = r, !.redirects = Add(before, r),
                                  !.hops = @ + 1, !.peer = Host(r.uri), !.open = TRUE,
                                  !.strayed = FALSE]
          /\ Gives(c)
  /\ UNCHANGED <<request, unprepared, sends>>

\* set_success() and perform_redirect() do not ask for the final state: when the error is
\* the timeout, a redirect that is read afterwards is followed.  The stream becomes one to
\* the new host; the response in the promise, where Send() gets the request, stays.
RedirectLate ==
  /\ conn.status = "error" /\ conn.hops < RedirectCount
  /\ \E u \in Urls, open \in BOOLEAN :
       conn' = [conn EXCEPT !.hops = @ + 1, !.peer = Host(Redirected(u).uri), !.open = open,
                            !.strayed = TRUE]
  /\ UNCHANGED <<request, given, unprepared, sends>>

Init ==
  /\ \E u \in Absolute, cache, throw \in BOOLEAN :
       request = [uri |-> [url |-> u, domain |-> None, port |-> None, path |-> None],
                  headers |-> Headers, cookies |-> NoCookies,
                  cache_redirects |-> cache, throw_on_error |-> throw]
  /\ conn = [status |-> "none", request |-> request, cookies |-> NoCookies, redirects |-> <<>>,
             hops |-> 0, peer |-> <<None, None>>, open |-> FALSE, strayed |-> FALSE]
  /\ given = NoCookies
  /\ unprepared = {} /\ sends = 0

Caller ==
  \/ SetUrl \/ SetDomain \/ SetPort \/ SetPath \/ SetHeaders
  \/ SetBehaviour \/ SetCookies \/ Send \/ SendThrows

Next == Caller \/ Finish \/ FollowRedirect \/ RedirectLate

Spec == Init /\ [][Next]_vars

-----------------------------------------------------------------------------
(* Properties.                                                             *)

TypeOK ==
  /\ request \in Request /\ conn \in Connection /\ given \in Jar
  /\ unprepared \subseteq Options /\ sends \in 0..MaxSends

\* The request on the wire, of the connection under way.
Wire == conn.request

\* Whatever was set, followed or reused, a request goes to the host it is for: unless
\* the stream it was given is one that a redirect, followed after the timeout of the
\* connection before, has taken elsewhere.  Then it goes there, cookies and all.
RightPeer == Connected /\ ~conn.strayed => conn.peer = Host(Wire.uri)

\* The Host header names the place the request goes to, unless the caller set the
\* domain by itself, or headers, and prepare() was not called since.
HostMatches ==
  conn.status = "pending" /\ unprepared \cap {"domain", "headers"} = {}
    => Wire.headers.host = Wire.uri.domain

\* A request has no cookies for a domain but those the domain gave.  Where the request
\* goes is RightPeer.
CookiesAtHome == Connected => \A d \in Sites : Wire.cookies[d] \subseteq given[d]

\* The redirect cache holds a domain once, however long the session lives.
CacheDistinct ==
  \A i, j \in DOMAIN conn.redirects :
    conn.redirects[i].uri.domain = conn.redirects[j].uri.domain => i = j

\* The cookies the last answer set are in the next request to that host.
LastCookiesSent ==
  [][Send => \/ ~Connected \/ Host(conn'.request.uri) # Host(conn.request.uri)
             \/ \A d \in Sites : conn.cookies[d] \subseteq conn'.request.cookies[d]]_vars

\* With the cache, a session nobody changed asks next where its last answer came
\* from, and is not redirected once more; unless the redirects had come back to a
\* domain they had left.
CacheSkips ==
  [][Send /\ UsesCache /\ unprepared = {} /\ conn.redirects # <<>>
       /\ Last(conn.redirects).uri = conn.request.uri
     => conn'.request.uri = conn.request.uri]_vars
=============================================================================
