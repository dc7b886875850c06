------------------------------- MODULE Request -------------------------------
(***************************************************************************)
(* A request of crequests and the options that make it: request_t, uri_t,  *)
(* params_t and headers_t.  The caller sets options on a request it keeps, *)
(* prepare() fills in what is missing, connections send copies, and what   *)
(* prepare() left behind meets the options that are set afterwards.        *)
(*                                                                         *)
(* A url is the parts it names, a query or the parameters what they give   *)
(* to names.  Of a text there is how often it is percent-encoded, and      *)
(* whether that changes it: prepare() encodes and decodes.                 *)
(***************************************************************************)
EXTENDS Naturals, FiniteSets

CONSTANTS
  Domains, Paths, DefaultPath,
  None,        \* an empty string
  Names,       \* of parameters
  Words,       \* what parameters are given
  Special,     \* the names and words that urlencode() changes
  Joined,      \* words with a "&" and a "=" in them, which split in two:
  First,       \*   what is before the "&"
  Extra,       \*   the name after it, and First again after the "="
  Sizes,       \* of the data, 0 for none
  Logins,      \* user and password
  Urls,        \* what callers and servers call the places, in full or in part
  Given,       \* sets of parameters that callers give
  Options,     \* bound: the options the caller sets
  MaxSets,     \* bound: options set between two requests
  MaxSends     \* bound: requests sent

Protocols == {"http", "https"}
Ports     == {"80", "443", "8080"}
AllOptions == {"url", "protocol", "domain", "port", "path", "query", "params",
               "data", "gzip", "auth", "headers"}

\* A name or a word, and how often it is encoded: never, if that does not change it.
Text(words) == {t \in [of : words, depth : Nat] : t.depth > 0 => t.of \in Special}

Maybe(S) == S \cup {None}

\* Names, and what they are given.
IsParams(p) ==
  /\ DOMAIN p \subseteq Text(Names) /\ p = [n \in DOMAIN p |-> p[n]]
  /\ \A n \in DOMAIN p : p[n] \in Text(Maybe(Words))

NoParams == [n \in {} |-> None]

IsUrl(url) ==
  /\ url = [protocol |-> url.protocol, domain |-> url.domain, port |-> url.port,
            path |-> url.path, query |-> url.query]
  /\ url.protocol \in Maybe(Protocols) /\ url.domain \in Maybe(Domains)
  /\ url.port \in Maybe(Ports) /\ url.path \in Maybe(Paths) /\ IsParams(url.query)

\* http_parser finds no url where no host is named: not in a relative Location, and
\* not in what make_url() puts together without one.
Parses(url) == url # None /\ url.domain # None
Absolute    == {url \in Urls : Parses(url)}

ASSUME RequestAssumption ==
  /\ DefaultPath \in Paths /\ First \in Words \ Special /\ Extra \in Names \ Special
  /\ Special \subseteq Names \cup Words /\ Joined \subseteq Words \cap Special
  /\ None \notin Protocols \cup Ports \cup Domains \cup Paths \cup Names \cup Words
  /\ \A url \in Urls : IsUrl(url) /\ url # None
  /\ \A params \in Given : IsParams(params)
  /\ Sizes \subseteq Nat /\ None \notin Logins
  /\ Options \subseteq AllOptions
  /\ MaxSets \in Nat /\ MaxSends \in Nat

IsUri(uri) ==
  /\ uri.url # None => IsUrl(uri.url)
  /\ uri.protocol \in Maybe(Protocols) /\ uri.domain \in Maybe(Domains)
  /\ uri.port \in Maybe(Ports) /\ uri.path \in Maybe(Paths)
  /\ IsParams(uri.query) /\ IsParams(uri.params)

\* Of the headers, those prepare() puts in.
Headers == [host : Maybe(Domains), length : Sizes \cup {0}, encoding : BOOLEAN,
            authorization : Maybe(Logins)]
NoHeaders == [host |-> None, length |-> 0, encoding |-> FALSE, authorization |-> None]

IsRequest(r) ==
  /\ IsUri(r.uri) /\ r.headers \in Headers
  /\ r.data \in Sizes \cup {0} /\ r.gzip \in BOOLEAN /\ r.auth \in Maybe(Logins)

VARIABLES
  request,   \* the caller's request
  said,      \* all that the caller set, on a request never prepared
  sent,      \* the copy of the connection under way
  location,  \* the last Location it followed
  changed,   \* the options set since the last request
  late,      \* the options set after the first request
  sends      \* how many requests were sent

vars == <<request, said, sent, location, changed, late, sends>>

-----------------------------------------------------------------------------
(* Texts, and parameters in a query.                                        *)

\* f, and what g gives to other names.
Over(f, g) == [n \in DOMAIN f \cup DOMAIN g |-> IF n \in DOMAIN f THEN f[n] ELSE g[n]]

\* urlencode() and urldecode().
Encode(t) == IF t.of \in Special THEN [t EXCEPT !.depth = @ + 1] ELSE t
Decode(t) == IF t.depth > 0 THEN [t EXCEPT !.depth = @ - 1] ELSE t

\* params_t::to_string().  A name that is given nothing is put down without a "=".
ParamsToString(params) ==
  [n \in {Encode(m) : m \in DOMAIN params} |->
     Encode(params[CHOOSE m \in DOMAIN params : Encode(m) = n])]

\* urldecode() of a query as a whole.  Of two names that become one the first counts;
\* which that is does not matter here, names differ by more than their encoding.
Decoded(query) ==
  [n \in {Decode(m) : m \in DOMAIN query} |->
     Decode(query[CHOOSE m \in DOMAIN query : Decode(m) = n])]

Splits(t) == t.of \in Joined /\ t.depth = 0
Cut(t)    == IF Splits(t) THEN [of |-> First, depth |-> 0] ELSE t
ExtraName == [of |-> Extra, depth |-> 0]

\* params_t::from_string(): a name without a "=" is passed over, and a word that is
\* not encoded is split where its "&" is.
ParamsFromString(query) ==
  LET read  == {n \in DOMAIN query : query[n].of # None}
      extra == IF \E n \in read : Splits(query[n])
               THEN [n \in {ExtraName} |-> [of |-> First, depth |-> 0]] ELSE NoParams
  IN Over([n \in read |-> Cut(query[n])], extra)

-----------------------------------------------------------------------------
(* Uris.                                                                    *)

Part(new, old) == IF new = None THEN old ELSE new

\* uri_t::update(from_string(url)): the parts the url has replace those of the uri, and
\* its query is appended to the uri's, where a name's first value counts.
Update(uri, url) ==
  [uri EXCEPT !.protocol = Part(url.protocol, @), !.domain = Part(url.domain, @),
              !.port = Part(url.port, @), !.path = Part(url.path, @),
              !.query = Over(@, Decoded(url.query))]

\* Mutant: parameters that are in the query already keep their value.
MergeParamsKeeps(uri) ==
  LET params == Over(ParamsFromString(uri.query), uri.params)
  IN [uri EXCEPT !.params = params, !.query = ParamsToString(params)]

\* The parameters set override those of the query.
MergeParams(uri) ==
  LET params == Over(uri.params, ParamsFromString(uri.query))
  IN [uri EXCEPT !.params = params, !.query = ParamsToString(params)]

\* set_defaults(): the protocol follows the port, the port the protocol.
ProtocolFor(uri) == IF uri.port = "443" THEN "https" ELSE "http"
PortFor(uri)     == IF uri.protocol = "https" THEN "443" ELSE "80"

\* Mutant: the path is left to the url.
SetDefaultsNoPath(uri) ==
  [uri EXCEPT !.protocol = Part(@, ProtocolFor(uri)), !.port = Part(@, PortFor(uri))]

SetDefaults(uri) ==
  [uri EXCEPT !.protocol = Part(@, ProtocolFor(uri)), !.port = Part(@, PortFor(uri)),
              !.path = Part(@, DefaultPath)]

MakeUrl(uri) ==
  [protocol |-> uri.protocol, domain |-> uri.domain, port |-> uri.port,
   path |-> uri.path, query |-> uri.query]

\* uri_t::prepare()
PrepareUri(uri) ==
  LET updated == IF Parses(uri.url) THEN Update(uri, uri.url) ELSE uri
      full    == SetDefaults(MergeParams(updated))
  IN [full EXCEPT !.url = MakeUrl(full)]

NewUri(url) == [url |-> url, protocol |-> None, domain |-> None, port |-> None,
                path |-> None, query |-> NoParams, params |-> NoParams]

\* uri_t::from_string(): the query as it was written, and no parameters; nothing at all
\* where there is no url.
FromString(url) ==
  IF Parses(url)
  THEN [url |-> url, protocol |-> url.protocol, domain |-> url.domain, port |-> url.port,
        path |-> url.path, query |-> url.query, params |-> NoParams]
  ELSE NewUri(None)

-----------------------------------------------------------------------------
(* Requests.                                                                *)

\* Mutant: headers that are there stay as they are.
PrepareOnce(r) ==
  LET uri == PrepareUri(r.uri)
  IN [r EXCEPT !.uri = uri,
               !.headers = [host          |-> Part(@.host, uri.domain),
                            length        |-> IF @.length > 0 THEN @.length ELSE r.data,
                            encoding      |-> r.gzip \/ @.encoding,
                            authorization |-> Part(@.authorization, r.auth)]]

\* The headers prepare() puts in or replaces; it takes none out.
PrepareHeaders(r, domain) ==
  [host          |-> domain,
   length        |-> IF r.data > 0 THEN r.data ELSE r.headers.length,
   encoding      |-> r.gzip \/ r.headers.encoding,
   authorization |-> Part(r.auth, r.headers.authorization)]

\* request_t::prepare()
Prepare(r) ==
  LET uri == PrepareUri(r.uri)
  IN [r EXCEPT !.uri = uri, !.headers = PrepareHeaders(r, uri.domain)]

\* compress(): gzip's header and trailer, and little data does not get less.
Compress(size) == size + 20

\* make_request(), and where stream_t takes it.
MakeRequest(r) ==
  [protocol |-> r.uri.protocol, domain |-> r.uri.domain, port |-> r.uri.port,
   path |-> r.uri.path, query |-> r.uri.query, headers |-> r.headers,
   data |-> r.data, body |-> IF r.gzip /\ r.data > 0 THEN Compress(r.data) ELSE r.data]

-----------------------------------------------------------------------------
(* The caller sets options and sends; servers redirect.                     *)

\* set_option() on the session's request.
SetOption(option, r, s) ==
  /\ location = None /\ sends < MaxSends
  /\ option \in Options /\ Cardinality(changed \cup {option}) <= MaxSets
  /\ request' = r /\ said' = s
  /\ changed' = changed \cup {option}
  /\ late' = IF sends = 0 THEN late ELSE late \cup {option}
  /\ UNCHANGED <<sent, location, sends>>

\* request_t::url() and the others put a value into the uri, and change nothing else
\* of it.
SetUri(part, values) ==
  \E v \in values :
    SetOption(part, [request EXCEPT !.uri[part] = v], [said EXCEPT !.uri[part] = v])

SetUrl      == SetUri("url", Absolute)
SetProtocol == SetUri("protocol", Protocols)
SetDomain   == SetUri("domain", Domains)
SetPort     == SetUri("port", Ports)
SetPath     == SetUri("path", Paths)
SetQuery    == SetUri("query", {url.query : url \in Absolute})
SetParams   == SetUri("params", Given)

SetData == \E n \in Sizes :
  SetOption("data", [request EXCEPT !.data = n], [said EXCEPT !.data = n])
SetGzip == \E on \in BOOLEAN :
  SetOption("gzip", [request EXCEPT !.gzip = on], [said EXCEPT !.gzip = on])
SetAuth == \E a \in Logins :
  SetOption("auth", [request EXCEPT !.auth = a], [said EXCEPT !.auth = a])
\* Headers of the caller's own: those prepare() put in are gone.
SetHeaders ==
  SetOption("headers", [request EXCEPT !.headers = NoHeaders], said)

\* Send() prepares the request and starts a connection on a copy of it.  The session
\* does not cache redirects: when it does, Send() may skip prepare(), see Session.
Send ==
  /\ location = None
  /\ sends < MaxSends /\ sends' = sends + 1
  /\ request' = Prepare(request) /\ sent' = request' /\ location' = location
  /\ changed' = {}
  /\ UNCHANGED <<said, late>>

\* Mutant: the Location is put into the uri there is.
RedirectUpdates ==
  /\ sends > 0 /\ location = None
  /\ \E url \in Urls :
       /\ sent' = Prepare([sent EXCEPT !.uri.url = url])
       /\ location' = url
  /\ UNCHANGED <<request, said, changed, late, sends>>

\* perform_redirect(): the copy gets a new uri, of whatever the Location is: that it
\* names a host is not asked.  The caller's request is not touched: as a bound, it is
\* not followed further after this.
Redirect ==
  /\ sends > 0 /\ location = None
  /\ \E url \in Urls :
       /\ sent' = Prepare([sent EXCEPT !.uri = FromString(url)])
       /\ location' = url
  /\ UNCHANGED <<request, said, changed, late, sends>>

NewRequest(url) ==
  [uri |-> NewUri(url), data |-> 0, gzip |-> TRUE, auth |-> None, headers |-> NoHeaders]

Init ==
  /\ \E url \in Absolute : request = NewRequest(url)
  /\ said = request /\ sent = request /\ location = None
  /\ changed = {} /\ late = {} /\ sends = 0

Caller ==
  \/ SetUrl \/ SetProtocol \/ SetDomain \/ SetPort \/ SetPath \/ SetQuery \/ SetParams
  \/ SetData \/ SetGzip \/ SetAuth \/ SetHeaders \/ Send

Next == Caller \/ Redirect

Spec == Init /\ [][Next]_vars

-----------------------------------------------------------------------------
(* Properties.                                                              *)

TypeOK ==
  /\ IsRequest(request) /\ IsRequest(said) /\ IsRequest(sent)
  /\ location \in Maybe(Urls) /\ changed \subseteq Options /\ late \subseteq Options
  /\ sends \in 0..MaxSends
  /\ sends > 0 => /\ None \notin {sent.uri.protocol, sent.uri.port, sent.uri.path}
                  /\ sent.uri.domain = None => location # None /\ ~Parses(location)

\* Parameters whose names are not encoded and whose words do not split.
Tame(params) ==
  \A n \in DOMAIN params : n.of \notin Special /\ params[n].of \notin Joined

\* A request sent once more, with nothing set in between, is the same request on the
\* wire, as long as its parameters are tame: prepare() finds its own work done.
SameAgain ==
  [][Send /\ sends > 0 /\ changed = {} /\ Tame(request.uri.params)
       => MakeRequest(request') = MakeRequest(request)]_vars

\* The parameters are in the query, as to_string() puts them down.
Has(query, params) ==
  LET put == ParamsToString(params)
  IN \A n \in DOMAIN put : n \in DOMAIN query /\ query[n] = put[n]

\* What the caller has set, in whatever order and after however many requests, is in
\* the next request: parameters, data, compression, login and host are as a request
\* made afresh has them.  That does not go for parts of the uri set one by one after
\* the first request, nor for the parameters of a url once others were set.
ChangesAppear ==
  [][Send /\ late \cap {"url", "protocol", "domain", "port", "path", "query"} = {}
          /\ Tame(request.uri.params)
     => LET now == MakeRequest(request')  fresh == MakeRequest(Prepare(said))
        IN /\ now.data = fresh.data /\ now.body = fresh.body
           /\ now.data > 0 => now.headers.length = fresh.headers.length
           /\ fresh.headers.encoding => now.headers.encoding
           /\ fresh.headers.authorization \in {None, now.headers.authorization}
           /\ now.domain = fresh.domain /\ now.headers.host = fresh.headers.host
           /\ Has(now.query, said.uri.params)
           /\ "params" \notin late => now.query = fresh.query]_vars

\* A redirect goes where the Location says: a port that is not named is that of the
\* protocol, whatever the request before had.  One that names no host, a relative one,
\* does not lead to the host of the request before but to none: path and query are
\* lost with it, and the port is always that of http.
RedirectTarget ==
  location # None =>
    /\ sent.uri.domain = location.domain /\ sent.headers.host = location.domain
    /\ Parses(location) =>
         /\ location.port = None => (sent.uri.port = "443" <=> location.protocol = "https")
         /\ location.port # None /\ location.protocol = None =>
              (sent.uri.protocol = "https" <=> location.port = "443")
    /\ ~Parses(location) =>
         /\ sent.uri.protocol = "http" /\ sent.uri.port = "80"
         /\ sent.uri.path = DefaultPath /\ sent.uri.query = NoParams

\* A Location whose query has no encoded text and no name without a "=" is asked for as
\* it was given, and nothing of the request before is added.  That does not go for a
\* relative Location, see RedirectTarget.
LocationKept ==
  location # None /\ Parses(location) /\ Tame(location.query)
    /\ (\A n \in DOMAIN location.query :
          location.query[n].of # None /\ location.query[n].depth = 0)
  => MakeRequest(sent).query = ParamsToString(location.query)
=============================================================================
