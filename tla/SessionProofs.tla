---------------------------- MODULE SessionProofs ----------------------------
(***************************************************************************)
(* Proofs about Session, for all domains, cookies, options and any number  *)
(* of redirects.                                                           *)
(*                                                                         *)
(* The inductive invariant IInv adds to the properties what they rest on:  *)
(* after the first Send() the session's own request stays prepared in all  *)
(* but the options set since, and every request the redirect cache can     *)
(* bring back was a prepared one.                                          *)
(* SkipInv adds to it what the redirect cache knows: the domain of the     *)
(* connection and, unless an option was set since, that of the session.    *)
(***************************************************************************)
EXTENDS Session, TLAPS

Named(uri) == uri \in [url : Url, domain : Sites, port : Ports, path : Paths]

\* A request prepare() has been called on.
Ready(r) == r \in Request /\ Named(r.uri)

Home(jar, g) == \A dom \in Sites : jar[dom] \subseteq g[dom]

\* The session's request.
RequestInv ==
  /\ request \in Request
  /\ Connected => Named(request.uri)
  /\ Connected /\ unprepared \cap {"domain", "headers"} = {}
       => request.headers.host = request.uri.domain
  /\ Home(request.cookies, given)

\* A redirect cache.
CacheInv(redirects, g) ==
  /\ redirects \in Seq(Request)
  /\ \A i \in DOMAIN redirects : Ready(redirects[i]) /\ Home(redirects[i].cookies, g)
  /\ \A i, j \in DOMAIN redirects :
       redirects[i].uri.domain = redirects[j].uri.domain => i = j

\* A connection.
ConnInv(c, g) ==
  /\ c \in Connection /\ CacheInv(c.redirects, g)
  /\ c.status # "none" => Ready(c.request) /\ (~c.strayed => c.peer = Host(c.request.uri))
  /\ Home(c.request.cookies, g) /\ Home(c.cookies, g)

IInv ==
  /\ given \in Jar /\ sends \in 0..MaxSends
  /\ unprepared \subseteq Options
  /\ RequestInv /\ ConnInv(conn, given) /\ HostMatches

-----------------------------------------------------------------------------
(* Requests.                                                               *)

\* prepare() completes the uri of any request, but for the domain.
LEMMA UriCompletes ==
  ASSUME NEW uri \in Uri
  PROVE  Named(PrepareUri(uri))
<1> DEFINE u == UpdateUri(uri)
           v == SetDefaults(u)
<1>1. u \in Uri
  <2>1. CASE ~Parses(uri.url)
    BY <2>1 DEF UpdateUri
  <2>2. CASE Parses(uri.url)
    <3> DEFINE domain == Part(uri.url.domain, uri.domain)
               port   == Part(uri.url.port, uri.port)
               path   == Part(uri.url.path, uri.path)
    <3>1. u = [uri EXCEPT !.domain = domain, !.port = port, !.path = path]
      BY <2>2 DEF UpdateUri
    <3>2. /\ domain \in Sites /\ port \in Ports \cup {None} /\ path \in Paths \cup {None}
      BY <2>2 DEF Part, Parses, Uri, Url
    <3> HIDE DEF domain, port, path
    <3> QED BY <3>1, <3>2 DEF Uri
  <2> QED BY <2>1, <2>2
<1>3. /\ u.domain \in Sites /\ u.port \in Ports \cup {None} /\ u.path \in Paths \cup {None}
  BY <1>1 DEF Uri
<1> HIDE DEF u
<1>4. v = [u EXCEPT !.port = Part(@, DefaultPort), !.path = Part(@, DefaultPath)]
  BY DEF SetDefaults
<1>5. v \in Uri /\ v.domain \in Sites /\ v.port \in Ports /\ v.path \in Paths
  <2>1. Part(u.port, DefaultPort) \in Ports /\ Part(u.path, DefaultPath) \in Paths
    BY <1>3, SessionAssumption DEF Part
  <2> QED BY <1>1, <1>3, <1>4, <2>1 DEF Uri
<1>6. PrepareUri(uri) = [v EXCEPT !.url = [domain |-> v.domain, port |-> v.port, path |-> v.path]]
  BY DEF PrepareUri, MakeUrl, u
<1>7. [domain |-> v.domain, port |-> v.port, path |-> v.path] \in Url
  BY <1>5 DEF Url
<1> QED
  <2> HIDE DEF v
  <2> QED BY <1>5, <1>6, <1>7 DEF Named, Uri

\* from_string() makes a uri of any Location, if only an empty one.
LEMMA FromStringIs ==
  ASSUME NEW u \in Urls
  PROVE  FromString(u) \in Uri
<1>1. u \in Url
  BY SessionAssumption
<1> QED BY <1>1, SessionAssumption DEF FromString, Parses, Url, Uri, Sites

\* prepare() makes a request ready, and Host what its uri says.
LEMMA PrepareCompletes ==
  ASSUME NEW r \in Request
  PROVE  /\ Ready(Prepare(r))
         /\ Prepare(r).headers.host = Prepare(r).uri.domain
         /\ Prepare(r).cookies = r.cookies
<1> DEFINE w == PrepareUri(r.uri)
           h == [host |-> w.domain]
<1>1. r.uri \in Uri /\ r.headers \in HeadersType
  BY DEF Request
<1>2. Named(w)
  BY <1>1, UriCompletes
<1>3. w \in Uri /\ w.domain \in Sites
  BY <1>2 DEF Named, Uri
<1>4. h \in HeadersType
  BY <1>1, <1>3 DEF HeadersType
<1>5. Prepare(r) = [r EXCEPT !.uri = w, !.headers = h]
  BY DEF Prepare, Request
<1> QED
  <2> HIDE DEF w, h
  <2>1. h.host = w.domain BY DEF h
  <2> QED BY <1>2, <1>3, <1>4, <1>5, <2>1 DEF Ready, Request

\* A ready request is a request.
LEMMA ReadyIs ==
  ASSUME NEW r, Ready(r)
  PROVE  r \in Request /\ r.uri \in Uri /\ r.cookies \in Jar
BY DEF Ready, Named, Request, Uri

-----------------------------------------------------------------------------
(* The redirect cache.                                                     *)

\* add() keeps it a cache.
LEMMA AddKeeps ==
  ASSUME NEW redirects, NEW g, CacheInv(redirects, g),
         NEW r, Ready(r), Home(r.cookies, g)
  PROVE  CacheInv(Add(redirects, r), g)
<1>1. CASE Knows(redirects, r)
  BY <1>1 DEF Add
<1>2. CASE ~Knows(redirects, r)
  <2> DEFINE all == Append(redirects, r)
  <2>1. Add(redirects, r) = all
    BY <1>2 DEF Add
  <2>2. redirects \in Seq(Request) /\ r \in Request
    BY DEF CacheInv, Ready
  <2>3. /\ all \in Seq(Request) /\ Len(all) = Len(redirects) + 1
        /\ DOMAIN all = 1..Len(redirects) + 1 /\ DOMAIN redirects = 1..Len(redirects)
        /\ all[Len(redirects) + 1] = r
        /\ \A i \in DOMAIN redirects : all[i] = redirects[i]
    BY <2>2
  <2>4. \A i \in DOMAIN all : Ready(all[i]) /\ Home(all[i].cookies, g)
    BY <2>2, <2>3 DEF CacheInv
  <2>5. \A i, j \in DOMAIN all : all[i].uri.domain = all[j].uri.domain => i = j
    BY <1>2, <2>2, <2>3 DEF CacheInv, Knows
  <2> QED BY <2>1, <2>3, <2>4, <2>5 DEF CacheInv
<1> QED BY <1>1, <1>2

\* What find() brings back is an entry.
LEMMA FindReady ==
  ASSUME NEW redirects, NEW g, CacheInv(redirects, g), NEW r, Knows(redirects, r)
  PROVE  Ready(Find(redirects, r)) /\ Home(Find(redirects, r).cookies, g)
<1>1. redirects \in Seq(Request) /\ DOMAIN redirects # {}
  BY DEF CacheInv, Knows
<1>2. Len(redirects) \in DOMAIN redirects
  BY <1>1
<1> QED BY <1>2 DEF CacheInv, Find

\* skip_redirects() keeps a ready request ready, and its cookies at home.
LEMMA SkipKeeps ==
  ASSUME NEW redirects, NEW g, CacheInv(redirects, g), NEW r, Ready(r), Home(r.cookies, g)
  PROVE  LET s == SkipRedirects(redirects, r)
         IN /\ Ready(s) /\ Home(s.cookies, g)
            /\ Knows(redirects, r) => s.headers.host = s.uri.domain
            /\ ~Knows(redirects, r) => s = r
<1>1. CASE ~Knows(redirects, r)
  BY <1>1 DEF SkipRedirects
<1>2. CASE Knows(redirects, r)
  <2> DEFINE f == Find(redirects, r)
             q == [r EXCEPT !.uri = f.uri, !.cookies = f.cookies]
  <2>1. Ready(f) /\ Home(f.cookies, g)
    BY <1>2, FindReady
  <2>2. f.uri \in Uri /\ f.cookies \in Jar
    BY <2>1, ReadyIs
  <2>3. q \in Request /\ q.cookies = f.cookies
    <3> HIDE DEF f
    <3> QED BY <2>2 DEF Ready, Request
  <2>4. SkipRedirects(redirects, r) = Prepare(q)
    BY <1>2 DEF SkipRedirects
  <2> HIDE DEF q
  <2> QED BY <1>2, <2>1, <2>3, <2>4, PrepareCompletes
<1> QED BY <1>1, <1>2

-----------------------------------------------------------------------------
(* Cookies given later do no harm.                                         *)

LEMMA HomeGrows ==
  ASSUME NEW jar, NEW g, NEW h, Home(jar, g), Home(g, h)
  PROVE  Home(jar, h)
BY DEF Home

\* Nor to the entries of a cache, nor to a connection.
LEMMA ConnGrows ==
  ASSUME NEW k, NEW g, NEW h, ConnInv(k, g), Home(g, h)
  PROVE  CacheInv(k.redirects, h) /\ ConnInv(k, h)
BY DEF Home, CacheInv, ConnInv

-----------------------------------------------------------------------------
(* The actions.                                                            *)

LEMMA InitHolds ==
  ASSUME Init
  PROVE  IInv
<1>1. PICK u \in Absolute, cache \in BOOLEAN, throw \in BOOLEAN :
        request = [uri |-> [url |-> u, domain |-> None, port |-> None, path |-> None],
                   headers |-> Headers, cookies |-> NoCookies,
                   cache_redirects |-> cache, throw_on_error |-> throw]
  BY DEF Init
<1>2. request \in Request /\ request.cookies = NoCookies
  BY <1>1, SessionAssumption DEF Request, Uri, HeadersType, Headers, Jar, NoCookies, Sites, Absolute
<1>3. /\ conn = [status |-> "none", request |-> request, cookies |-> NoCookies,
                 redirects |-> <<>>, hops |-> 0, peer |-> <<None, None>>, open |-> FALSE,
                 strayed |-> FALSE]
      /\ given = NoCookies /\ unprepared = {} /\ sends = 0
  BY DEF Init
<1>4. given \in Jar /\ Home(NoCookies, given)
  BY <1>3 DEF Jar, NoCookies, Home
<1>5. conn \in Connection
  BY <1>2, <1>3, <1>4, SessionAssumption DEF Connection, Sites
<1>6. CacheInv(conn.redirects, given)
  BY <1>3 DEF CacheInv
<1> QED
  BY <1>2, <1>3, <1>4, <1>5, <1>6, SessionAssumption
  DEF IInv, RequestInv, ConnInv, Connected, HostMatches

\* An option other than the cookies.
LEMMA SetOptionKeeps ==
  ASSUME IInv, NEW option \in AllOptions, NEW r \in Request,
         Sets(option, r), r.cookies = request.cookies,
         Named(request.uri) => Named(r.uri),
         option \notin {"domain", "headers"}
           => r.headers = request.headers /\ r.uri.domain = request.uri.domain
  PROVE  IInv'
<1>1. /\ request' = r /\ unprepared' = unprepared \cup {option} /\ option \in Options
      /\ conn' = conn /\ given' = given /\ sends' = sends
  BY DEF Sets, SetOption
<1>2. RequestInv'
  BY <1>1 DEF IInv, RequestInv, Connected
<1>3. HostMatches'
  BY <1>1 DEF IInv, HostMatches, Wire
<1> QED BY <1>1, <1>2, <1>3 DEF IInv

\* set_option(), of whatever option.
LEMMA OptionsKeep ==
  ASSUME IInv, SetUrl \/ SetDomain \/ SetPort \/ SetPath \/ SetHeaders
  PROVE  IInv'
<1>1. request \in Request /\ request.uri \in Uri
  BY DEF IInv, RequestInv, Request
<1>2. CASE SetUrl
  <2>1. PICK u \in Absolute : Sets("url", [request EXCEPT !.uri.url = u])
    BY <1>2 DEF SetUrl
  <2> DEFINE r == [request EXCEPT !.uri.url = u]
  <2>2. u \in Url
    BY SessionAssumption DEF Absolute
  <2>3. /\ r \in Request /\ r.cookies = request.cookies
        /\ Named(request.uri) => Named(r.uri)
        /\ r.headers = request.headers /\ r.uri.domain = request.uri.domain
    BY <1>1, <2>2 DEF Request, Uri, Named
  <2> QED BY <2>1, <2>3, SetOptionKeeps DEF AllOptions
<1>3. CASE SetDomain
  <2>1. PICK x \in Domains : Sets("domain", [request EXCEPT !.uri.domain = x])
    BY <1>3 DEF SetDomain
  <2> DEFINE r == [request EXCEPT !.uri.domain = x]
  <2>2. /\ r \in Request /\ r.cookies = request.cookies
        /\ Named(request.uri) => Named(r.uri)
    BY <1>1 DEF Request, Uri, Named, Sites
  <2> QED BY <2>1, <2>2, SetOptionKeeps DEF AllOptions
<1>4. CASE SetPort
  <2>1. PICK p \in Ports : Sets("port", [request EXCEPT !.uri.port = p])
    BY <1>4 DEF SetPort
  <2> DEFINE r == [request EXCEPT !.uri.port = p]
  <2>2. /\ r \in Request /\ r.cookies = request.cookies
        /\ Named(request.uri) => Named(r.uri)
        /\ r.headers = request.headers /\ r.uri.domain = request.uri.domain
    BY <1>1 DEF Request, Uri, Named
  <2> QED BY <2>1, <2>2, SetOptionKeeps DEF AllOptions
<1>5. CASE SetPath
  <2>1. PICK p \in Paths : Sets("path", [request EXCEPT !.uri.path = p])
    BY <1>5 DEF SetPath
  <2> DEFINE r == [request EXCEPT !.uri.path = p]
  <2>2. /\ r \in Request /\ r.cookies = request.cookies
        /\ Named(request.uri) => Named(r.uri)
        /\ r.headers = request.headers /\ r.uri.domain = request.uri.domain
    BY <1>1 DEF Request, Uri, Named
  <2> QED BY <2>1, <2>2, SetOptionKeeps DEF AllOptions
<1>6. CASE SetHeaders
  <2> DEFINE r == [request EXCEPT !.headers = Headers]
  <2>1. r \in Request /\ r.cookies = request.cookies /\ r.uri = request.uri
    BY <1>1 DEF Request, Headers, HeadersType, Sites
  <2> QED BY <1>1, <1>6, <2>1, SetOptionKeeps DEF AllOptions, SetHeaders
<1> QED BY <1>2, <1>3, <1>4, <1>5, <1>6

LEMMA SetBehaviourKeeps ==
  ASSUME IInv, SetBehaviour
  PROVE  IInv'
<1>1. PICK x \in BOOLEAN, y \in BOOLEAN :
        Sets("behaviour", [request EXCEPT !.cache_redirects = x, !.throw_on_error = y])
  BY DEF SetBehaviour
<1> DEFINE r == [request EXCEPT !.cache_redirects = x, !.throw_on_error = y]
<1>2. /\ r \in Request /\ r.uri = request.uri
      /\ r.headers = request.headers /\ r.cookies = request.cookies
  BY DEF IInv, RequestInv, Request
<1> QED BY <1>1, <1>2, SetOptionKeeps DEF AllOptions

LEMMA SetCookiesKeeps ==
  ASSUME IInv, SetCookies
  PROVE  IInv'
<1>1. PICK x \in Domains, c \in SUBSET Cookies :
        /\ request' = [request EXCEPT !.cookies = [NoCookies EXCEPT ![x] = c]]
        /\ given' = [given EXCEPT ![x] = @ \cup c]
        /\ unprepared' = unprepared \cup {"cookies"} /\ "cookies" \in Options
        /\ UNCHANGED <<conn, sends>>
  BY DEF SetCookies, SetOption
<1>2. /\ UNCHANGED <<conn, sends>> /\ unprepared' \subseteq Options
      /\ unprepared \subseteq unprepared'
  BY <1>1 DEF IInv
<1>3. given' \in Jar /\ Home(given, given')
  BY <1>1 DEF IInv, Jar, Home
<1>4. [NoCookies EXCEPT ![x] = c] \in Jar /\ Home([NoCookies EXCEPT ![x] = c], given')
  BY <1>1 DEF IInv, Jar, Home, NoCookies
<1>5. /\ request' \in Request /\ request'.uri = request.uri
      /\ request'.headers = request.headers /\ Home(request'.cookies, given')
  BY <1>1, <1>4 DEF IInv, RequestInv, Request
<1>6. ConnInv(conn, given')
  BY <1>3, ConnGrows DEF IInv
<1>7. HostMatches'
  BY <1>2 DEF IInv, HostMatches, Wire
<1>8. RequestInv'
  BY <1>2, <1>5 DEF IInv, RequestInv, Connected
<1> QED BY <1>2, <1>3, <1>6, <1>7, <1>8 DEF IInv

\* The request Send() has made ready, or thinks it has.
LEMMA PreparedReady ==
  ASSUME IInv
  PROVE  /\ Ready(Prepared) /\ Home(Prepared.cookies, given)
         /\ StillUnprepared \cap {"domain", "headers"} = {}
              => Prepared.headers.host = Prepared.uri.domain
         /\ StillUnprepared \subseteq unprepared
<1>1. request \in Request /\ Home(request.cookies, given)
  BY DEF IInv, RequestInv
<1>2. CASE ~UsesCache
  <2>1. Prepared = Prepare(request)
    BY <1>2 DEF Prepared
  <2> QED BY <1>1, <1>2, <2>1, PrepareCompletes DEF StillUnprepared, PrepareRuns
<1>3. CASE UsesCache
  <2>1. Ready(request) /\ CacheInv(conn.redirects, given)
    BY <1>1, <1>3 DEF IInv, RequestInv, ConnInv, UsesCache, Ready
  <2>2. Prepared = SkipRedirects(conn.redirects, request)
    BY <1>3 DEF Prepared
  <2>3. CASE Knows(conn.redirects, request)
    BY <1>1, <2>1, <2>2, <2>3, SkipKeeps DEF StillUnprepared, PrepareRuns
  <2>4. CASE ~Knows(conn.redirects, request)
    <3>1. Prepared = request /\ StillUnprepared = unprepared
      BY <1>3, <2>2, <2>4 DEF SkipRedirects, StillUnprepared, PrepareRuns
    <3> QED BY <1>1, <1>3, <2>1, <3>1 DEF IInv, RequestInv, UsesCache
  <2> QED BY <2>3, <2>4
<1> QED BY <1>2, <1>3

\* The cookies of the last answer are not sent elsewhere.
LEMMA UpdateHome ==
  ASSUME NEW jar \in Jar, NEW new \in Jar, NEW g, Home(jar, g), Home(new, g)
  PROVE  Update(jar, new) \in Jar /\ Home(Update(jar, new), g)
BY DEF Jar, Home, Update

\* A connection is started on its own host's stream.
LEMMA StartHolds ==
  ASSUME IInv, NEW r, Ready(r), Home(r.cookies, given), NEW reuses \in BOOLEAN,
         reuses => Connected /\ CanReuse(r, conn.request)
  PROVE  ConnInv(Start(r, reuses), given) /\ Start(r, reuses).request = r
<1> DEFINE k == Start(r, reuses)
           list == IF reuses THEN conn.redirects ELSE <<>>
           peer == IF reuses /\ conn.open THEN conn.peer ELSE Host(r.uri)
           strayed == reuses /\ conn.open /\ conn.strayed
<1>1. k = [status |-> "pending", request |-> r, cookies |-> NoCookies, redirects |-> list,
           hops |-> 0, peer |-> peer, open |-> TRUE, strayed |-> strayed]
  BY DEF Start
<1>2. CacheInv(<<>>, given)
  BY DEF CacheInv
<1>3. CacheInv(list, given)
  BY <1>2 DEF IInv, ConnInv
<1>4. ~strayed => peer = Host(r.uri)
  BY DEF IInv, ConnInv, Connected, CanReuse
<1>5. peer \in Sites \X (Ports \cup {None}) /\ strayed \in BOOLEAN
  <2>1. Host(r.uri) \in Sites \X (Ports \cup {None})
    BY DEF Ready, Named, Host
  <2>2. conn.peer \in Sites \X (Ports \cup {None})
    BY DEF IInv, ConnInv, Connection
  <2> QED BY <2>1, <2>2
<1>6. NoCookies \in Jar /\ Home(NoCookies, given)
  BY DEF NoCookies, Jar, Home, IInv
<1>7. k \in Connection
  <2> HIDE DEF list, peer, strayed
  <2> QED BY <1>1, <1>3, <1>5, <1>6, SessionAssumption DEF Connection, CacheInv, Ready
<1> QED
  <2> HIDE DEF list, peer, strayed
  <2> QED BY <1>1, <1>3, <1>4, <1>6, <1>7 DEF ConnInv

LEMMA SendKeeps ==
  ASSUME IInv, Send
  PROVE  IInv'
<1> DEFINE reuses == Connected /\ CanReuse(Prepared, conn.request)
           r == IF reuses THEN [Prepared EXCEPT !.cookies = Update(@, conn.cookies)]
                          ELSE Prepared
<1>1. /\ request' = r /\ conn' = Start(r, reuses) /\ sends < MaxSends
      /\ unprepared' = StillUnprepared /\ sends' = sends + 1 /\ given' = given
  BY DEF Send
<1>2. /\ Ready(Prepared) /\ Home(Prepared.cookies, given)
      /\ unprepared' \cap {"domain", "headers"} = {}
           => Prepared.headers.host = Prepared.uri.domain
      /\ unprepared' \subseteq unprepared
  BY <1>1, PreparedReady
<1>3. Update(Prepared.cookies, conn.cookies) \in Jar
      /\ Home(Update(Prepared.cookies, conn.cookies), given)
  BY <1>2, UpdateHome, ReadyIs DEF IInv, ConnInv, Connection
<1>4. Ready(r) /\ Home(r.cookies, given) /\ r.uri = Prepared.uri /\ r.headers = Prepared.headers
  <2>1. Prepared \in Request
    BY <1>2 DEF Ready
  <2>2. CASE reuses
    <3> DEFINE q == [Prepared EXCEPT !.cookies = Update(@, conn.cookies)]
    <3>1. q \in Request /\ q.uri = Prepared.uri /\ q.headers = Prepared.headers
          /\ q.cookies = Update(Prepared.cookies, conn.cookies)
      BY <1>3, <2>1 DEF Request
    <3> QED BY <1>2, <1>3, <2>2, <3>1 DEF Ready
  <2> QED BY <1>2, <2>2
<1>5. reuses \in BOOLEAN /\ (reuses => Connected /\ CanReuse(r, conn.request))
  BY <1>4 DEF CanReuse, Connected
<1> HIDE DEF r, reuses
<1>6. ConnInv(conn', given) /\ conn'.request = r
  BY <1>1, <1>4, <1>5, StartHolds
<1>7. sends' \in 0..MaxSends
  BY <1>1, SessionAssumption DEF IInv
<1>8. RequestInv'
  BY <1>1, <1>2, <1>4, ReadyIs DEF RequestInv, Ready, IInv
<1>9. HostMatches'
  BY <1>1, <1>2, <1>4, <1>6 DEF HostMatches, Wire
<1> QED BY <1>1, <1>2, <1>6, <1>7, <1>8, <1>9 DEF IInv

LEMMA SendThrowsKeeps ==
  ASSUME IInv, SendThrows
  PROVE  IInv'
<1>1. UNCHANGED <<conn, given, sends>> /\ conn.status = "error"
  BY DEF SendThrows, Throws
<1>2. HostMatches'
  BY <1>1 DEF HostMatches
<1>3. CASE UsesCache
  BY <1>1, <1>2, <1>3 DEF SendThrows, IInv, RequestInv, Connected
<1>4. CASE ~UsesCache
  <2>1. request' = Prepared /\ unprepared' = StillUnprepared
    BY <1>4 DEF SendThrows
  <2>2. RequestInv' /\ unprepared' \subseteq unprepared
    BY <1>1, <2>1, PreparedReady, ReadyIs DEF RequestInv, Ready
  <2> QED BY <1>1, <1>2, <2>2 DEF IInv
<1> QED BY <1>3, <1>4

LEMMA FinishKeeps ==
  ASSUME IInv, Finish
  PROVE  IInv'
<1>1. PICK status \in {"success", "error"}, c \in SUBSET Cookies, open \in BOOLEAN :
        /\ conn' = [conn EXCEPT !.status = status, !.open = open,
                                !.cookies[conn.request.uri.domain] = c]
        /\ Gives(c)
  BY DEF Finish
<1> DEFINE dom == conn.request.uri.domain
           jar == [conn.cookies EXCEPT ![dom] = c]
<1>2. conn \in Connection /\ conn.status = "pending" /\ Ready(conn.request) /\ dom \in Sites
  BY DEF Finish, IInv, ConnInv, Ready, Named
<1>3. UNCHANGED <<request, unprepared, sends>> /\ given' = [given EXCEPT ![dom] = @ \cup c]
  BY <1>1 DEF Finish, Gives
<1>4. given' \in Jar /\ Home(given, given')
  BY <1>2, <1>3 DEF IInv, Jar, Home
<1>5. ConnInv(conn, given') /\ Home(request.cookies, given')
  BY <1>4, ConnGrows, HomeGrows DEF IInv, RequestInv
<1>6. jar \in Jar /\ Home(jar, given')
  BY <1>2, <1>3, <1>5 DEF IInv, Jar, Home, Connection, ConnInv
<1>7. conn' = [conn EXCEPT !.status = status, !.open = open, !.cookies = jar]
  BY <1>1, <1>2 DEF Connection
<1> HIDE DEF jar, dom
<1>8. /\ conn' \in Connection /\ conn'.status \in {"success", "error"}
      /\ conn'.request = conn.request /\ conn'.redirects = conn.redirects
      /\ conn'.peer = conn.peer /\ conn'.cookies = jar /\ conn'.strayed = conn.strayed
  BY <1>2, <1>6, <1>7 DEF Connection
<1>9. ConnInv(conn', given')
  BY <1>2, <1>5, <1>6, <1>8 DEF ConnInv
<1>10. RequestInv'
  BY <1>2, <1>3, <1>5, <1>8 DEF IInv, RequestInv, Connected
<1>11. HostMatches'
  BY <1>8 DEF HostMatches
<1> QED BY <1>3, <1>4, <1>9, <1>10, <1>11 DEF IInv

LEMMA FollowRedirectKeeps ==
  ASSUME IInv, FollowRedirect
  PROVE  IInv'
<1>1. PICK u \in Urls, c \in SUBSET Cookies :
        LET r == Redirected(u)
            before == IF conn.redirects = <<>> THEN <<conn.request>> ELSE conn.redirects
        IN /\ conn' = [conn EXCEPT !.request = r, !.redirects = Add(before, r),
                                   !.hops = @ + 1, !.peer = Host(r.uri), !.open = TRUE,
                                   !.strayed = FALSE]
           /\ Gives(c)
  BY DEF FollowRedirect
<1> DEFINE r == Redirected(u)
           before == IF conn.redirects = <<>> THEN <<conn.request>> ELSE conn.redirects
           dom == conn.request.uri.domain
<1>2. /\ conn \in Connection /\ conn.status = "pending" /\ conn.hops < RedirectCount
      /\ Ready(conn.request) /\ dom \in Sites
  BY DEF FollowRedirect, IInv, ConnInv, Ready, Named
<1>3. UNCHANGED <<request, unprepared, sends>> /\ given' = [given EXCEPT ![dom] = @ \cup c]
  BY <1>1 DEF FollowRedirect, Gives
<1>4. given' \in Jar /\ Home(given, given')
  BY <1>2, <1>3 DEF IInv, Jar, Home
<1>5. ConnInv(conn, given') /\ Home(request.cookies, given')
  BY <1>4, ConnGrows, HomeGrows DEF IInv, RequestInv
<1>6. Ready(r) /\ r.headers.host = r.uri.domain /\ r.cookies = conn.request.cookies
  <2> DEFINE q == [conn.request EXCEPT !.uri = FromString(u)]
  <2>1. FromString(u) \in Uri
    BY FromStringIs
  <2>2. q \in Request /\ q.cookies = conn.request.cookies
    BY <1>2, <2>1 DEF Ready, Request
  <2> HIDE DEF q
  <2>3. r = Prepare(q)
    BY DEF Redirected, q
  <2> QED BY <2>2, <2>3, PrepareCompletes
<1>7. CacheInv(before, given')
  <2>1. CASE conn.redirects = <<>>
    <3> DEFINE one == <<conn.request>>
    <3>1. before = one /\ one \in Seq(Request) /\ DOMAIN one = {1} /\ one[1] = conn.request
      BY <1>2, <2>1 DEF Ready
    <3> HIDE DEF one
    <3> QED BY <1>2, <1>5, <3>1 DEF CacheInv, ConnInv
  <2>2. CASE conn.redirects # <<>>
    BY <1>5, <2>2 DEF ConnInv
  <2> QED BY <2>1, <2>2
<1> HIDE DEF r, before, dom
<1>8. CacheInv(Add(before, r), given')
  BY <1>5, <1>6, <1>7, AddKeeps DEF ConnInv
<1>9. conn' = [conn EXCEPT !.request = r, !.redirects = Add(before, r), !.hops = @ + 1,
                           !.peer = Host(r.uri), !.open = TRUE, !.strayed = FALSE]
  BY <1>1 DEF r, before
<1>10. conn.hops + 1 \in 0..RedirectCount
  BY <1>2, SessionAssumption DEF Connection
<1>11. Host(r.uri) \in Sites \X (Ports \cup {None})
  BY <1>6 DEF Ready, Named, Host
<1>12. /\ conn' \in Connection /\ conn'.status = "pending"
       /\ conn'.request = r /\ conn'.redirects = Add(before, r)
       /\ conn'.peer = Host(r.uri) /\ conn'.cookies = conn.cookies
  BY <1>2, <1>6, <1>8, <1>9, <1>10, <1>11 DEF Connection, CacheInv, Ready
<1>13. ConnInv(conn', given')
  BY <1>5, <1>6, <1>8, <1>12 DEF ConnInv
<1>14. RequestInv'
  BY <1>2, <1>3, <1>5, <1>12 DEF IInv, RequestInv, Connected
<1>15. HostMatches'
  BY <1>6, <1>12 DEF HostMatches, Wire
<1> QED BY <1>3, <1>4, <1>13, <1>14, <1>15 DEF IInv

LEMMA RedirectLateKeeps ==
  ASSUME IInv, RedirectLate
  PROVE  IInv'
<1>1. PICK u \in Urls, open \in BOOLEAN :
        conn' = [conn EXCEPT !.hops = @ + 1, !.peer = Host(Redirected(u).uri), !.open = open,
                             !.strayed = TRUE]
  BY DEF RedirectLate
<1> DEFINE hops == conn.hops + 1
           peer == Host(Redirected(u).uri)
<1>2. /\ conn \in Connection /\ conn.status = "error" /\ conn.hops < RedirectCount
      /\ UNCHANGED <<request, given, unprepared, sends>>
  BY DEF RedirectLate, IInv, ConnInv
<1>3. hops \in 0..RedirectCount
  BY <1>2, SessionAssumption DEF Connection
<1>4. peer \in Sites \X (Ports \cup {None})
  <2> DEFINE q == [conn.request EXCEPT !.uri = FromString(u)]
             w == Redirected(u)
  <2>1. q \in Request
    BY <1>2, FromStringIs DEF Connection, Request
  <2> HIDE DEF q
  <2>2. w = Prepare(q)
    BY DEF Redirected, q
  <2>3. Ready(w)
    BY <2>1, <2>2, PrepareCompletes
  <2> HIDE DEF w
  <2>4. Host(w.uri) \in Sites \X (Ports \cup {None})
    BY <2>3 DEF Ready, Named, Host
  <2> QED BY <2>4 DEF w
<1>5. conn' = [conn EXCEPT !.hops = hops, !.peer = peer, !.open = open, !.strayed = TRUE]
  BY <1>1
<1> HIDE DEF hops, peer
<1>6. /\ conn' \in Connection /\ conn'.status = "error" /\ conn'.strayed
      /\ conn'.request = conn.request /\ conn'.redirects = conn.redirects
      /\ conn'.cookies = conn.cookies
  BY <1>2, <1>3, <1>4, <1>5 DEF Connection
<1>7. ConnInv(conn', given)
  BY <1>2, <1>6 DEF IInv, ConnInv
<1>8. RequestInv'
  BY <1>2, <1>6 DEF IInv, RequestInv, Connected
<1>9. HostMatches'
  BY <1>6 DEF HostMatches
<1> QED BY <1>2, <1>7, <1>8, <1>9 DEF IInv

LEMMA NextKeeps ==
  ASSUME IInv, [Next]_vars
  PROVE  IInv'
<1>1. CASE UNCHANGED vars
  BY <1>1 DEF vars, IInv, RequestInv, ConnInv, CacheInv, Connected, HostMatches, Wire
<1>2. CASE Caller
  BY <1>2, OptionsKeep, SetBehaviourKeeps, SetCookiesKeeps, SendKeeps, SendThrowsKeeps DEF Caller
<1>3. CASE Finish
  BY <1>3, FinishKeeps
<1>4. CASE FollowRedirect
  BY <1>4, FollowRedirectKeeps
<1>5. CASE RedirectLate
  BY <1>5, RedirectLateKeeps
<1> QED BY <1>1, <1>2, <1>3, <1>4, <1>5 DEF Next

-----------------------------------------------------------------------------
(* The theorems.                                                           *)

\* The inductive invariant holds of every session.
THEOREM SessionInvariance == Spec => []IInv
<1>1. Init => IInv
  BY InitHolds
<1>2. IInv /\ [Next]_vars => IInv'
  BY NextKeeps
<1> QED BY <1>1, <1>2, PTL DEF Spec

\* Requests, connections and jars of cookies keep their types; there are no more
\* redirects than the option allows.
THEOREM SessionTypes == Spec => []TypeOK
<1>1. IInv => TypeOK
  BY DEF IInv, RequestInv, ConnInv, TypeOK
<1> QED BY <1>1, SessionInvariance, PTL

\* A request goes to the host it is for, over whatever stream but one that a redirect
\* followed after the timeout has taken elsewhere.
THEOREM GoesToItsHost == Spec => []RightPeer
<1>1. IInv => RightPeer
  BY DEF IInv, ConnInv, RightPeer, Connected, Wire
<1> QED BY <1>1, SessionInvariance, PTL

\* The Host header is right unless the caller unsettled it.
THEOREM HostIsRight == Spec => []HostMatches
<1>1. IInv => HostMatches
  BY DEF IInv
<1> QED BY <1>1, SessionInvariance, PTL

\* No request gets a cookie of one domain for another, by redirect, cache or reuse.
THEOREM CookiesStay == Spec => []CookiesAtHome
<1>1. IInv => CookiesAtHome
  BY DEF IInv, ConnInv, Home, CookiesAtHome, Wire
<1> QED BY <1>1, SessionInvariance, PTL

\* The redirect cache has no domain twice, nor the empty one.
THEOREM CacheBounded == Spec => []CacheDistinct
<1>1. IInv => CacheDistinct
  BY DEF IInv, ConnInv, CacheInv, CacheDistinct
<1> QED BY <1>1, SessionInvariance, PTL

-----------------------------------------------------------------------------
(* What the next request has of the last connection.                       *)

\* What Send() does, to whoever looks at uris and redirects.
LEMMA SendMakes ==
  ASSUME IInv, Send
  PROVE  LET reuses == Connected /\ CanReuse(Prepared, conn.request)
         IN /\ conn'.request = request' /\ request'.uri = Prepared.uri
            /\ conn'.status = "pending"
            /\ conn'.redirects = IF reuses THEN conn.redirects ELSE <<>>
            /\ reuses => request'.cookies = Update(Prepared.cookies, conn.cookies)
<1> DEFINE reuses == Connected /\ CanReuse(Prepared, conn.request)
           jar == Update(Prepared.cookies, conn.cookies)
           q == [Prepared EXCEPT !.cookies = jar]
           r == IF reuses THEN q ELSE Prepared
<1>1. request' = r /\ conn' = Start(r, reuses)
  BY DEF Send
<1>2. Prepared \in Request
  BY PreparedReady DEF Ready
<1>3. q.uri = Prepared.uri /\ q.cookies = jar
  <2> HIDE DEF jar
  <2> QED BY <1>2 DEF Request
<1>4. r.uri = Prepared.uri /\ (reuses => r.cookies = jar)
  <2> HIDE DEF q, reuses
  <2> QED BY <1>3
<1> HIDE DEF r, reuses, jar
<1>5. /\ Start(r, reuses).request = r /\ Start(r, reuses).status = "pending"
      /\ Start(r, reuses).redirects = IF reuses THEN conn.redirects ELSE <<>>
  BY DEF Start
<1> QED BY <1>1, <1>4, <1>5 DEF reuses, jar

\* The cookies of the last answer are in the next request to its host: can_reuse() is
\* asked after the redirect cache was, and says yes for every such request.
THEOREM LastCookiesAreSent == Spec => LastCookiesSent
<1>1. IInv =>
        (Send => \/ ~Connected \/ Host(conn'.request.uri) # Host(conn.request.uri)
                 \/ \A d \in Sites : conn.cookies[d] \subseteq conn'.request.cookies[d])
  <2> SUFFICES ASSUME IInv, Send, Connected, Host(conn'.request.uri) = Host(conn.request.uri),
                      NEW d \in Sites
               PROVE  conn.cookies[d] \subseteq conn'.request.cookies[d]
    OBVIOUS
  <2>1. conn'.request = request' /\ request'.uri = Prepared.uri
    BY SendMakes
  <2>2. CanReuse(Prepared, conn.request)
    BY <2>1 DEF CanReuse
  <2>3. request'.cookies = Update(Prepared.cookies, conn.cookies)
    BY <2>2, SendMakes
  <2> QED BY <2>1, <2>3 DEF Update
<1> QED BY <1>1, SessionInvariance, PTL DEF Spec, LastCookiesSent

\* A uri as prepare() leaves it.
SettledUri(uri) ==
  /\ Named(uri)
  /\ uri.url = [domain |-> uri.domain, port |-> uri.port, path |-> uri.path]

\* prepare() leaves a settled uri, and a settled one as it is.
LEMMA PrepareSettles ==
  ASSUME NEW uri \in Uri
  PROVE  /\ SettledUri(PrepareUri(uri))
         /\ SettledUri(uri) => PrepareUri(uri) = uri
<1> DEFINE u == UpdateUri(uri)
           v == SetDefaults(u)
           w == PrepareUri(uri)
           domain == Part(uri.url.domain, uri.domain)
           port   == Part(uri.url.port, uri.port)
           path   == Part(uri.url.path, uri.path)
<1>1. None \notin Domains /\ None \notin Ports /\ None \notin Paths
  BY SessionAssumption
<1>2. u = IF Parses(uri.url) THEN [uri EXCEPT !.domain = domain, !.port = port, !.path = path]
                             ELSE uri
  BY DEF UpdateUri
<1>3. /\ Parses(uri.url) => u.domain = domain /\ u.port = port /\ u.path = path
      /\ ~Parses(uri.url) => u = uri
      /\ uri \in [url : {uri.url}, domain : {uri.domain}, port : {uri.port}, path : {uri.path}]
      /\ u \in [url : {uri.url}, domain : {u.domain}, port : {u.port}, path : {u.path}]
  <2>1. uri \in [url : {uri.url}, domain : {uri.domain}, port : {uri.port}, path : {uri.path}]
    BY DEF Uri
  <2> HIDE DEF domain, port, path, u
  <2> QED BY <1>2, <2>1
<1> HIDE DEF u
<1>4. /\ v.domain = u.domain /\ v.port = Part(u.port, DefaultPort)
      /\ v.path = Part(u.path, DefaultPath)
  <2> DEFINE a == Part(u.port, DefaultPort)
             b == Part(u.path, DefaultPath)
  <2>1. v = [u EXCEPT !.port = a, !.path = b]
    BY DEF SetDefaults
  <2> HIDE DEF a, b, v
  <2>2. v.domain = u.domain /\ v.port = a /\ v.path = b
    BY <1>3, <2>1
  <2> QED BY <2>2 DEF a, b
<1> HIDE DEF v
<1>5. Named(w)
  BY UriCompletes
<1>6. w = [v EXCEPT !.url = [domain |-> v.domain, port |-> v.port, path |-> v.path]]
  BY DEF PrepareUri, MakeUrl, v, u
<1> HIDE DEF w
<1>7. /\ w.domain = v.domain /\ w.port = v.port /\ w.path = v.path
      /\ w.url = [domain |-> v.domain, port |-> v.port, path |-> v.path]
  BY <1>5, <1>6 DEF Named
<1>8. SettledUri(w)
  BY <1>5, <1>7 DEF SettledUri
<1>9. SettledUri(uri) => w = uri
  <2> SUFFICES ASSUME SettledUri(uri)
               PROVE  w = uri
    OBVIOUS
  <2>1. /\ uri.port \in Ports /\ uri.path \in Paths
        /\ uri.url.domain = uri.domain /\ uri.url.port = uri.port /\ uri.url.path = uri.path
    BY DEF SettledUri, Named
  <2>2. domain = uri.domain /\ port = uri.port /\ path = uri.path
    BY <2>1 DEF Part
  <2>3. u.domain = uri.domain /\ u.port = uri.port /\ u.path = uri.path
    <3> HIDE DEF domain, port, path
    <3> QED BY <1>3, <2>2
  <2>5. v.domain = uri.domain /\ v.port = uri.port /\ v.path = uri.path
    <3> HIDE DEF domain, port, path
    <3> QED BY <1>1, <1>4, <2>1, <2>3 DEF Part
  <2>4. /\ w.domain = uri.domain /\ w.port = uri.port /\ w.path = uri.path /\ w.url = uri.url
    BY <1>7, <2>5 DEF SettledUri
  <2> QED BY <1>5, <2>4 DEF Named, Uri
<1> QED BY <1>8, <1>9 DEF w

\* The uri that prepare() makes for a request.
LEMMA PreparedUri ==
  ASSUME NEW r \in Request
  PROVE  /\ Prepare(r).uri = PrepareUri(r.uri)
         /\ SettledUri(PrepareUri(r.uri)) /\ r.uri \in Uri
<1> DEFINE w == PrepareUri(r.uri)
           h == [host |-> w.domain]
<1>1. r.uri \in Uri
  BY DEF Request
<1>2. Prepare(r) = [r EXCEPT !.uri = w, !.headers = h]
  BY DEF Prepare
<1>3. Prepare(r).uri = w
  <2> HIDE DEF w, h
  <2> QED BY <1>2 DEF Request
<1> QED BY <1>1, <1>3, PrepareSettles

\* The redirect cache knows the domain the connection is at, which is one that was
\* redirected to; unless the session's own request was changed, it knows that too.
SkipInv ==
  /\ conn.redirects # <<>> =>
       Knows(conn.redirects, conn.request) /\ SettledUri(conn.request.uri)
  /\ Connected /\ unprepared = {} /\ ~Throws =>
       IF conn.redirects = <<>> THEN request.uri.domain = conn.request.uri.domain
                                ELSE Knows(conn.redirects, request)

\* The request that is not the one the cache knows was prepared, or is as the caller
\* left it.
LEMMA PreparedIs ==
  ASSUME IInv
  PROVE  /\ UsesCache /\ ~Knows(conn.redirects, request) => Prepared = request
         /\ ~(UsesCache /\ ~Knows(conn.redirects, request)) => SettledUri(Prepared.uri)
         /\ UsesCache /\ Knows(conn.redirects, request)
              => Prepared.uri = PrepareUri(conn.redirects[Len(conn.redirects)].uri)
<1>1. request \in Request
  BY DEF IInv, RequestInv
<1>2. CASE ~UsesCache
  <2>1. Prepared = Prepare(request)
    BY <1>2 DEF Prepared
  <2> QED BY <1>1, <1>2, <2>1, PreparedUri
<1>3. CASE UsesCache /\ ~Knows(conn.redirects, request)
  BY <1>3 DEF Prepared, SkipRedirects
<1>4. CASE UsesCache /\ Knows(conn.redirects, request)
  <2> DEFINE f == Find(conn.redirects, request)
             q == [request EXCEPT !.uri = f.uri, !.cookies = f.cookies]
  <2>1. Ready(f)
    BY <1>4, FindReady DEF IInv, ConnInv
  <2>2. f.uri \in Uri /\ f.cookies \in Jar
    BY <2>1, ReadyIs
  <2>3. q \in Request /\ q.uri = f.uri
    <3> HIDE DEF f
    <3> QED BY <1>1, <2>2 DEF Request
  <2>4. Prepared = Prepare(q)
    BY <1>4 DEF Prepared, SkipRedirects
  <2> HIDE DEF q
  <2>5. Prepared.uri = PrepareUri(f.uri) /\ SettledUri(PrepareUri(f.uri))
    BY <2>2, <2>3, <2>4, PreparedUri
  <2> QED BY <1>4, <2>5 DEF Find
<1> QED BY <1>2, <1>3, <1>4

\* Send() keeps SkipInv: a reused connection stays in the domain its cache was made for,
\* and a new one has an empty cache.
LEMMA SendSkips ==
  ASSUME IInv, SkipInv, Send
  PROVE  SkipInv'
<1> DEFINE reuses == Connected /\ CanReuse(Prepared, conn.request)
<1>1. /\ conn'.request = request' /\ request'.uri = Prepared.uri
      /\ conn'.redirects = IF reuses THEN conn.redirects ELSE <<>>
  BY SendMakes
<1>2. ASSUME conn'.redirects # <<>>
      PROVE  Knows(conn'.redirects, conn'.request) /\ SettledUri(conn'.request.uri)
  <2>1. reuses /\ conn'.redirects = conn.redirects /\ conn.redirects # <<>>
    BY <1>1, <1>2
  <2>2. Prepared.uri.domain = conn.request.uri.domain /\ Knows(conn.redirects, conn.request)
    BY <2>1 DEF CanReuse, Host, SkipInv
  <2>3. Knows(conn.redirects, Prepared)
    BY <2>2 DEF Knows
  <2>4. SettledUri(Prepared.uri)
    BY <2>3, PreparedIs
  <2> QED BY <1>1, <2>1, <2>3, <2>4 DEF Knows
<1> QED BY <1>1, <1>2 DEF SkipInv, Knows

\* A redirect adds its request to the cache, and the first one the request before it too,
\* which is the one the session made.
LEMMA FollowSkips ==
  ASSUME IInv, SkipInv, FollowRedirect
  PROVE  SkipInv'
<1> DEFINE before == IF conn.redirects = <<>> THEN <<conn.request>> ELSE conn.redirects
<1>1. PICK u \in Urls :
        /\ conn'.request = Redirected(u) /\ conn'.redirects = Add(before, Redirected(u))
        /\ conn'.status = conn.status
  <2>1. PICK u \in Urls :
          LET r == Redirected(u)
          IN conn' = [conn EXCEPT !.request = r, !.redirects = Add(before, r),
                                  !.hops = @ + 1, !.peer = Host(r.uri), !.open = TRUE,
                                  !.strayed = FALSE]
    BY DEF FollowRedirect
  <2> DEFINE r == Redirected(u)
             list == Add(before, r)
             hops == conn.hops + 1
             peer == Host(r.uri)
  <2>2. conn' = [conn EXCEPT !.request = r, !.redirects = list, !.hops = hops, !.peer = peer,
                             !.open = TRUE, !.strayed = FALSE]
    BY <2>1
  <2>3. conn \in Connection
    BY DEF IInv, ConnInv
  <2>4. conn'.request = r /\ conn'.redirects = list /\ conn'.status = conn.status
    <3> HIDE DEF r, list, hops, peer
    <3>1. conn'.request = r
      BY <2>2, <2>3 DEF Connection
    <3>2. conn'.redirects = list
      BY <2>2, <2>3 DEF Connection
    <3>3. conn'.status = conn.status
      BY <2>2, <2>3 DEF Connection
    <3> QED BY <3>1, <3>2, <3>3
  <2> QED BY <2>4
<1> DEFINE r == Redirected(u)
<1>2. SettledUri(r.uri)
  <2> DEFINE q == [conn.request EXCEPT !.uri = FromString(u)]
  <2>1. FromString(u) \in Uri
    BY FromStringIs
  <2>2. conn.request \in Request
    BY DEF IInv, ConnInv, Connection
  <2>3. q \in Request
    BY <2>1, <2>2 DEF Request
  <2> HIDE DEF q
  <2>4. r = Prepare(q)
    BY DEF Redirected, q
  <2> QED BY <2>3, <2>4, PreparedUri
<1> HIDE DEF r
<1>3. before \in Seq(Request) /\ r \in Request
  <2>1. conn.request \in Request /\ conn.redirects \in Seq(Request)
    BY DEF IInv, ConnInv, Connection
  <2>2. Redirected(u) \in Request
    <3> DEFINE q == [conn.request EXCEPT !.uri = FromString(u)]
    <3>1. FromString(u) \in Uri
      BY FromStringIs
    <3>2. q \in Request
      BY <2>1, <3>1 DEF Request
    <3> HIDE DEF q
    <3>3. Redirected(u) = Prepare(q)
      BY DEF Redirected, q
    <3> QED BY <3>2, <3>3, PrepareCompletes DEF Ready
  <2> QED BY <2>1, <2>2 DEF r
<1> DEFINE list == Add(before, r)
<1>4. /\ \A i \in DOMAIN before : i \in DOMAIN list /\ list[i] = before[i]
      /\ Knows(list, r) /\ list # <<>>
  <2> HIDE DEF before
  <2>1. CASE Knows(before, r)
    BY <1>3, <2>1 DEF Add, Knows
  <2>2. CASE ~Knows(before, r)
    <3>1. list = Append(before, r)
      BY <2>2 DEF Add
    <3>2. /\ Len(list) = Len(before) + 1 /\ DOMAIN list = 1..Len(before) + 1
          /\ list[Len(before) + 1] = r /\ DOMAIN before = 1..Len(before)
          /\ \A i \in 1..Len(before) : list[i] = before[i]
      BY <1>3, <3>1
    <3>3. Len(before) \in Nat
      BY <1>3
    <3> HIDE DEF list
    <3>4. Len(before) + 1 \in DOMAIN list
      BY <3>2, <3>3
    <3> QED BY <3>2, <3>3, <3>4 DEF Knows
  <2> QED BY <2>1, <2>2
<1>5. conn'.request = r /\ conn'.redirects = list
  BY <1>1 DEF r
<1>6. request' = request /\ unprepared' = unprepared /\ Connected /\ ~Throws
  BY DEF FollowRedirect, Connected, Throws
<1>7. unprepared = {} => Knows(before, request)
  <2>1. CASE conn.redirects = <<>>
    <3>1. before = <<conn.request>> /\ before[1] = conn.request /\ 1 \in DOMAIN before
      BY <2>1
    <3> HIDE DEF before
    <3> QED BY <1>6, <2>1, <3>1 DEF SkipInv, Knows
  <2>2. CASE conn.redirects # <<>>
    BY <1>6, <2>2 DEF SkipInv
  <2> QED BY <2>1, <2>2
<1> HIDE DEF list, before
<1>8. unprepared = {} => Knows(list, request)
  BY <1>4, <1>7 DEF Knows
<1>9. /\ Knows(conn.redirects, conn.request)' /\ SettledUri(conn.request.uri)'
  BY <1>2, <1>4, <1>5
<1>10. (unprepared = {} => Knows(conn.redirects, request))'
  BY <1>5, <1>6, <1>8
<1>11. conn'.redirects # <<>>
  BY <1>4, <1>5
<1> QED BY <1>9, <1>10, <1>11 DEF SkipInv

\* The end of an exchange leaves the requests and the cache as they are.
LEMMA FinishSkips ==
  ASSUME IInv, SkipInv, Finish
  PROVE  SkipInv'
<1>1. conn'.request = conn.request /\ conn'.redirects = conn.redirects
  <2>1. PICK status \in {"success", "error"}, c \in SUBSET Cookies, open \in BOOLEAN :
          conn' = [conn EXCEPT !.status = status, !.open = open,
                               !.cookies[conn.request.uri.domain] = c]
    BY DEF Finish
  <2> DEFINE jar == [conn.cookies EXCEPT ![conn.request.uri.domain] = c]
  <2>2. conn' = [conn EXCEPT !.status = status, !.open = open, !.cookies = jar]
    BY <2>1
  <2>3. conn \in Connection
    BY DEF IInv, ConnInv
  <2> HIDE DEF jar
  <2> QED BY <2>2, <2>3 DEF Connection
<1>2. request' = request /\ unprepared' = unprepared /\ Connected /\ ~Throws
  BY DEF Finish, Connected, Throws
<1> QED BY <1>1, <1>2 DEF SkipInv, Knows

\* A redirect after the timeout leaves them, too.
LEMMA LateSkips ==
  ASSUME IInv, SkipInv, RedirectLate
  PROVE  SkipInv'
<1>1. /\ conn'.request = conn.request /\ conn'.redirects = conn.redirects
      /\ conn'.status = conn.status
  <2>1. PICK u \in Urls, open \in BOOLEAN :
          conn' = [conn EXCEPT !.hops = @ + 1, !.peer = Host(Redirected(u).uri), !.open = open,
                               !.strayed = TRUE]
    BY DEF RedirectLate
  <2> DEFINE hops == conn.hops + 1
             peer == Host(Redirected(u).uri)
  <2>2. conn' = [conn EXCEPT !.hops = hops, !.peer = peer, !.open = open, !.strayed = TRUE]
    BY <2>1
  <2>3. conn \in Connection
    BY DEF IInv, ConnInv
  <2> HIDE DEF hops, peer
  <2> QED BY <2>2, <2>3 DEF Connection
<1>2. request' = request /\ unprepared' = unprepared
  BY DEF RedirectLate
<1> QED BY <1>1, <1>2 DEF SkipInv, Knows, Connected, Throws

\* Every step keeps SkipInv.
LEMMA SkipNext ==
  ASSUME IInv, SkipInv, [Next]_vars
  PROVE  SkipInv'
<1>1. ASSUME NEW option, NEW r, SetOption(option, r)
      PROVE  SkipInv'
  BY <1>1 DEF SetOption, SkipInv, Connected, Throws
<1>2. CASE SetUrl \/ SetDomain \/ SetPort \/ SetPath \/ SetHeaders \/ SetBehaviour \/ SetCookies
  BY <1>1, <1>2 DEF SetUrl, SetDomain, SetPort, SetPath, SetHeaders, SetBehaviour, SetCookies, Sets
<1>3. CASE SendThrows
  BY <1>3 DEF SendThrows, SkipInv, Throws
<1>4. CASE UNCHANGED vars
  BY <1>4 DEF vars, SkipInv, Connected, Throws, Knows
<1> QED BY <1>2, <1>3, <1>4, SendSkips, FinishSkips, FollowSkips, LateSkips DEF Next, Caller

\* The redirect cache always knows where the connection is and, as long as the caller
\* sets nothing new, where the session is.
THEOREM SkipInvariance == Spec => []SkipInv
<1>1. Init => SkipInv
  BY DEF Init, SkipInv, Connected
<1>2. IInv /\ SkipInv /\ [Next]_vars => SkipInv'
  BY SkipNext
<1> QED BY <1>1, <1>2, SessionInvariance, PTL DEF Spec

\* With the redirect cache an unchanged session asks where its last answer came from.
THEOREM CacheLeads == Spec => CacheSkips
<1>1. IInv /\ SkipInv =>
        (Send /\ UsesCache /\ unprepared = {} /\ conn.redirects # <<>>
           /\ Last(conn.redirects).uri = conn.request.uri
         => conn'.request.uri = conn.request.uri)
  <2> SUFFICES ASSUME IInv, SkipInv, Send, UsesCache, unprepared = {}, conn.redirects # <<>>,
                      Last(conn.redirects).uri = conn.request.uri
               PROVE  conn'.request.uri = conn.request.uri
    OBVIOUS
  <2>1. Knows(conn.redirects, request) /\ SettledUri(conn.request.uri)
    BY DEF SkipInv, UsesCache, Send
  <2>2. Prepared.uri = PrepareUri(conn.request.uri)
    BY <2>1, PreparedIs DEF Last
  <2>3. conn.request.uri \in Uri
    BY <2>1 DEF SettledUri, Named, Uri
  <2>4. Prepared.uri = conn.request.uri
    BY <2>1, <2>2, <2>3, PrepareSettles
  <2> QED BY <2>4, SendMakes
<1> QED BY <1>1, SessionInvariance, SkipInvariance, PTL DEF Spec, CacheSkips
=============================================================================
