---------------------------- MODULE RequestProofs ----------------------------
(***************************************************************************)
(* Proofs about Request, for any domains, paths, parameters and urls: the  *)
(* types, where a redirect leads and that it asks for what the Location    *)
(* says, that a request sent again is the same, and that what the caller   *)
(* set is in the next request.                                             *)
(*                                                                         *)
(* Texts come first: encoding is injective and decoding undoes it.  From   *)
(* that follows what prepare() makes of a uri (PreparedIs), and that it    *)
(* finds its own work done (PrepareSame, RequestSame) as long as the       *)
(* parameters are tame.  The inductive invariant relates the request to    *)
(* what the caller said: it has the parameters said, and, if no part of    *)
(* the uri was set after the first Send(), the uri that prepare() makes of *)
(* what was said, however often it was sent.                               *)
(***************************************************************************)
EXTENDS Request, TLAPS

-----------------------------------------------------------------------------
(* Parameters.                                                             *)

\* The query of a Location that prepare() has nothing to decode in, or to split.
Plain(query) ==
  /\ Tame(query)
  /\ \A n \in DOMAIN query : query[n].of # None /\ query[n].depth = 0

\* Parameters put over themselves, over none and under none.
LEMMA MergeSame ==
  ASSUME NEW query, query = [n \in DOMAIN query |-> query[n]]
  PROVE  /\ Over(query, query) = query
         /\ Over(query, NoParams) = query /\ Over(NoParams, query) = query
<1>1. DOMAIN NoParams = {}
  BY DEF NoParams
<1> QED BY <1>1 DEF Over

\* There is nothing to decode in a plain query.
LEMMA DecodedPlain ==
  ASSUME NEW query, IsParams(query), Plain(query)
  PROVE  Decoded(query) = query
<1>1. \A n \in DOMAIN query : n.depth = 0
  <2> TAKE n \in DOMAIN query
  <2>1. n \in Text(Names) /\ n.of \notin Special
    BY DEF IsParams, Plain, Tame
  <2> QED BY <2>1 DEF Text
<1>2. \A n \in DOMAIN query : Decode(n) = n /\ Decode(query[n]) = query[n]
  BY <1>1 DEF Decode, Plain
<1>3. {Decode(m) : m \in DOMAIN query} = DOMAIN query
  BY <1>2
<1>4. \A n \in DOMAIN query : (CHOOSE m \in DOMAIN query : Decode(m) = n) = n
  BY <1>2
<1>5. Decoded(query) = [n \in DOMAIN query |-> query[n]]
  BY <1>2, <1>3, <1>4 DEF Decoded
<1> QED BY <1>5 DEF IsParams

\* from_string() finds the parameters of a plain query.
LEMMA FromStringPlain ==
  ASSUME NEW query, IsParams(query), Plain(query)
  PROVE  ParamsFromString(query) = query
<1>1. {n \in DOMAIN query : query[n].of # None} = DOMAIN query
  BY DEF Plain
<1>2. \A n \in DOMAIN query : ~Splits(query[n]) /\ Cut(query[n]) = query[n]
  BY DEF Plain, Tame, Splits, Cut
<1>3. ParamsFromString(query) = Over([n \in DOMAIN query |-> query[n]], NoParams)
  BY <1>1, <1>2 DEF ParamsFromString
<1> QED BY <1>3, MergeSame DEF IsParams

-----------------------------------------------------------------------------
(* What texts and parameters are.                                          *)

\* urlencode() changes what is special, and how often it is encoded.
LEMMA EncodedText ==
  ASSUME NEW words, NEW t \in Text(words)
  PROVE  /\ Encode(t) \in Text(words) /\ Encode(t).of = t.of
         /\ t.of \in Special => Encode(t).depth = t.depth + 1
         /\ t.of \notin Special => Encode(t) = t /\ t.depth = 0
         /\ t.of \in words /\ t.depth \in Nat
<1>1. t \in [of : words, depth : Nat] /\ (t.depth > 0 => t.of \in Special)
  BY DEF Text
<1>2. CASE t.of \in Special
  <2> DEFINE e == [t EXCEPT !.depth = @ + 1]
  <2>1. e \in [of : words, depth : Nat] /\ e.of = t.of /\ e.depth = t.depth + 1
    BY <1>1
  <2>2. Encode(t) = e
    BY <1>2 DEF Encode
  <2> HIDE DEF e
  <2> QED BY <1>1, <1>2, <2>1, <2>2 DEF Text
<1>3. CASE t.of \notin Special
  BY <1>1, <1>3 DEF Encode
<1> QED BY <1>1, <1>2, <1>3

\* urldecode() undoes one encoding.
LEMMA DecodedText ==
  ASSUME NEW words, NEW t \in Text(words)
  PROVE  /\ Decode(t) \in Text(words) /\ Decode(t).of = t.of
         /\ t.depth > 0 => Decode(t).depth = t.depth - 1
         /\ t.depth = 0 => Decode(t) = t
<1>1. t \in [of : words, depth : Nat] /\ (t.depth > 0 => t.of \in Special)
  BY DEF Text
<1>2. CASE t.depth > 0
  <2> DEFINE e == [t EXCEPT !.depth = @ - 1]
  <2>1. t.depth - 1 \in Nat
    BY <1>1, <1>2
  <2>2. e \in [of : words, depth : Nat] /\ e.of = t.of /\ e.depth = t.depth - 1
    BY <1>1, <2>1
  <2>3. Decode(t) = e
    BY <1>2 DEF Decode
  <2> HIDE DEF e
  <2> QED BY <1>1, <1>2, <2>2, <2>3 DEF Text
<1>3. CASE ~(t.depth > 0)
  BY <1>1, <1>3 DEF Decode
<1> QED BY <1>1, <1>2, <1>3

\* Texts are the same when of and depth are.
LEMMA SameText ==
  ASSUME NEW words, NEW t \in Text(words), NEW u \in Text(words), t.of = u.of, t.depth = u.depth
  PROVE  t = u
BY DEF Text

\* No two names are encoded alike, and what was encoded is decoded.
LEMMA EncodeInjective ==
  ASSUME NEW words, NEW t \in Text(words), NEW u \in Text(words), Encode(t) = Encode(u)
  PROVE  t = u
<1>1. t.of = u.of
  BY EncodedText
<1>2. t.depth = u.depth
  <2>1. t.depth \in Nat /\ u.depth \in Nat
    BY EncodedText
  <2>2. CASE t.of \in Special
    <3>1. Encode(t).depth = t.depth + 1 /\ Encode(u).depth = u.depth + 1
      BY <1>1, <2>2, EncodedText
    <3> QED BY <2>1, <3>1
  <2>3. CASE t.of \notin Special
    BY <1>1, <2>3, EncodedText
  <2> QED BY <2>2, <2>3
<1> QED BY <1>1, <1>2, SameText

\* What was encoded is decoded.
LEMMA DecodeEncoded ==
  ASSUME NEW words, NEW t \in Text(words)
  PROVE  Decode(Encode(t)) = t
<1> DEFINE e == Encode(t)
<1>1. e \in Text(words) /\ e.of = t.of /\ t.depth \in Nat
  BY EncodedText
<1>2. CASE t.of \in Special
  <2>1. e.depth = t.depth + 1
    BY <1>2, EncodedText
  <2> HIDE DEF e
  <2>2. Decode(e).of = t.of /\ Decode(e).depth = t.depth /\ Decode(e) \in Text(words)
    BY <1>1, <2>1, DecodedText
  <2> QED BY <2>2, SameText DEF e
<1>3. CASE t.of \notin Special
  BY <1>3, EncodedText, DecodedText
<1> QED BY <1>2, <1>3

\* Parameters put over others are parameters.
LEMMA OverIsParams ==
  ASSUME NEW f, NEW g, IsParams(f), IsParams(g)
  PROVE  IsParams(Over(f, g)) /\ DOMAIN Over(f, g) = DOMAIN f \cup DOMAIN g
         /\ \A n \in DOMAIN f : Over(f, g)[n] = f[n]
BY DEF IsParams, Over

\* to_string() and from_string() of parameters.
LEMMA StringIsParams ==
  ASSUME NEW params, IsParams(params)
  PROVE  /\ IsParams(ParamsToString(params))
         /\ \A m \in DOMAIN params : /\ Encode(m) \in DOMAIN ParamsToString(params)
                                     /\ ParamsToString(params)[Encode(m)] = Encode(params[m])
         /\ DOMAIN ParamsToString(params) = {Encode(m) : m \in DOMAIN params}
<1> DEFINE q == ParamsToString(params)
           names == {Encode(m) : m \in DOMAIN params}
<1>1. /\ \A m \in DOMAIN params : m \in Text(Names) /\ params[m] \in Text(Maybe(Words))
  BY DEF IsParams
<1>2. DOMAIN q = names /\ q = [n \in names |-> q[n]]
  BY DEF ParamsToString
<1>3. \A m \in DOMAIN params : q[Encode(m)] = Encode(params[m])
  <2> TAKE m \in DOMAIN params
  <2>1. Encode(m) \in names
    OBVIOUS
  <2>2. (CHOOSE k \in DOMAIN params : Encode(k) = Encode(m)) = m
    <3>1. \A k \in DOMAIN params : Encode(k) = Encode(m) => k = m
      BY <1>1, EncodeInjective
    <3> QED BY <3>1
  <2>3. q[Encode(m)] = Encode(params[CHOOSE k \in DOMAIN params : Encode(k) = Encode(m)])
    BY <2>1 DEF ParamsToString
  <2> QED BY <2>2, <2>3
<1> HIDE DEF q
<1>4. \A m \in DOMAIN params : Encode(m) \in Text(Names) /\ q[Encode(m)] \in Text(Maybe(Words))
  BY <1>1, <1>3, EncodedText
<1>5. IsParams(q)
  BY <1>2, <1>4 DEF IsParams
<1> QED BY <1>2, <1>3, <1>5 DEF q

\* A decoded query is one.
LEMMA DecodedIsParams ==
  ASSUME NEW query, IsParams(query)
  PROVE  IsParams(Decoded(query))
<1> DEFINE d == Decoded(query)
           names == {Decode(m) : m \in DOMAIN query}
<1>1. /\ \A m \in DOMAIN query : m \in Text(Names) /\ query[m] \in Text(Maybe(Words))
  BY DEF IsParams
<1>2. DOMAIN d = names /\ d = [n \in names |-> d[n]]
  BY DEF Decoded
<1>3. \A n \in names : d[n] \in Text(Maybe(Words))
  <2> TAKE n \in names
  <2> DEFINE k == CHOOSE m \in DOMAIN query : Decode(m) = n
  <2>1. k \in DOMAIN query
    OBVIOUS
  <2>2. d[n] = Decode(query[k])
    BY DEF Decoded
  <2> HIDE DEF k, d
  <2> QED BY <1>1, <2>1, <2>2, DecodedText
<1>4. \A n \in names : n \in Text(Names)
  BY <1>1, DecodedText
<1> HIDE DEF d, names
<1> QED BY <1>2, <1>3, <1>4 DEF IsParams, d

\* from_string() makes parameters of a query.
LEMMA ReadIsParams ==
  ASSUME NEW query, IsParams(query)
  PROVE  IsParams(ParamsFromString(query))
<1> DEFINE read  == {n \in DOMAIN query : query[n].of # None}
           cut   == [n \in read |-> Cut(query[n])]
           more  == [n \in {ExtraName} |-> [of |-> First, depth |-> 0]]
<1>1. [of |-> First, depth |-> 0] \in Text(Maybe(Words)) /\ ExtraName \in Text(Names)
  BY RequestAssumption DEF Text, Maybe, ExtraName
<1>2. \A n \in read : n \in Text(Names) /\ Cut(query[n]) \in Text(Maybe(Words))
  BY <1>1 DEF IsParams, Cut
<1>3. IsParams(cut)
  <2>1. DOMAIN cut = read /\ cut = [n \in DOMAIN cut |-> cut[n]]
    OBVIOUS
  <2>2. \A n \in DOMAIN cut : n \in Text(Names) /\ cut[n] \in Text(Maybe(Words))
    BY <1>2
  <2> QED BY <2>1, <2>2 DEF IsParams
<1>4. IsParams(more)
  BY <1>1 DEF IsParams
<1>5. IsParams(NoParams)
  BY DEF IsParams, NoParams
<1>6. ParamsFromString(query) = Over(cut, IF \E n \in read : Splits(query[n]) THEN more ELSE NoParams)
  BY DEF ParamsFromString
<1> HIDE DEF cut, more, read
<1> QED BY <1>3, <1>4, <1>5, <1>6, OverIsParams

-----------------------------------------------------------------------------
(* What prepare() makes of a uri.                                          *)

UriForm(uri) ==
  uri = [url |-> uri.url, protocol |-> uri.protocol, domain |-> uri.domain, port |-> uri.port,
         path |-> uri.path, query |-> uri.query, params |-> uri.params]

GoodUri(uri) == UriForm(uri) /\ IsUri(uri)

\* A uri that the caller made: it has a url, or a domain of its own.
Rooted(uri) == Parses(uri.url) \/ uri.domain \in Domains

\* Its url has been put in.
Updated(uri) == IF Parses(uri.url) THEN Update(uri, uri.url) ELSE uri

\* The parameters of the next request.
NextParams(uri) == Over(uri.params, ParamsFromString(Updated(uri).query))

\* What uri_t::update() leaves and replaces.
LEMMA UpdatedIs ==
  ASSUME NEW uri, UriForm(uri)
  PROVE  LET v == Updated(uri)
         IN /\ UriForm(v) /\ v.url = uri.url /\ v.params = uri.params
            /\ ~Parses(uri.url) => v = uri
            /\ Parses(uri.url) =>
                 /\ v.protocol = Part(uri.url.protocol, uri.protocol)
                 /\ v.domain = Part(uri.url.domain, uri.domain)
                 /\ v.port = Part(uri.url.port, uri.port)
                 /\ v.path = Part(uri.url.path, uri.path)
                 /\ v.query = Over(uri.query, Decoded(uri.url.query))
<1>1. CASE ~Parses(uri.url)
  BY <1>1 DEF Updated, UriForm
<1>2. CASE Parses(uri.url)
  <2> DEFINE a == Part(uri.url.protocol, uri.protocol)
             b == Part(uri.url.domain, uri.domain)
             c == Part(uri.url.port, uri.port)
             d == Part(uri.url.path, uri.path)
             e == Over(uri.query, Decoded(uri.url.query))
             v == [uri EXCEPT !.protocol = a, !.domain = b, !.port = c, !.path = d, !.query = e]
  <2>1. Updated(uri) = v
    <3>1. Update(uri, uri.url) = v
      BY DEF Update
    <3> HIDE DEF v
    <3> QED BY <1>2, <3>1 DEF Updated
  <2>2. /\ UriForm(v) /\ v.url = uri.url /\ v.params = uri.params /\ v.protocol = a
        /\ v.domain = b /\ v.port = c /\ v.path = d /\ v.query = e
    <3> HIDE DEF a, b, c, d, e
    <3> DEFINE p == [uri EXCEPT !.protocol = a, !.domain = b]
               q == [p EXCEPT !.port = c, !.path = d]
               r == [q EXCEPT !.query = e]
    <3>1. v = r
      BY Zenon
    <3>2. /\ p = [uri EXCEPT !.protocol = a, !.domain = b]
          /\ q = [p EXCEPT !.port = c, !.path = d]
          /\ r = [q EXCEPT !.query = e]
      OBVIOUS
    <3> HIDE DEF p, q, r, v
    <3>3. UriForm(p) /\ p.url = uri.url /\ p.params = uri.params /\ p.protocol = a /\ p.domain = b
      BY <3>2 DEF UriForm
    <3>4. /\ UriForm(q) /\ q.url = p.url /\ q.params = p.params /\ q.protocol = p.protocol
          /\ q.domain = p.domain /\ q.port = c /\ q.path = d
      BY <3>2, <3>3 DEF UriForm
    <3>5. /\ UriForm(r) /\ r.url = q.url /\ r.params = q.params /\ r.protocol = q.protocol
          /\ r.domain = q.domain /\ r.port = q.port /\ r.path = q.path /\ r.query = e
      BY <3>2, <3>4 DEF UriForm
    <3> QED BY <3>1, <3>3, <3>4, <3>5
  <2> HIDE DEF v
  <2> QED BY <1>2, <2>1, <2>2
<1> QED BY <1>1, <1>2

\* The parts of the uri that prepare() makes.
LEMMA PreparedIs ==
  ASSUME NEW uri, UriForm(uri)
  PROVE  LET p == PrepareUri(uri)
             v == Updated(uri)
         IN /\ UriForm(p) /\ p.url = MakeUrl(p)
            /\ p.params = NextParams(uri) /\ p.query = ParamsToString(NextParams(uri))
            /\ p.domain = v.domain
            /\ p.protocol = Part(v.protocol, ProtocolFor(v))
            /\ p.port = Part(v.port, PortFor(v))
            /\ p.path = Part(v.path, DefaultPath)
<1> DEFINE v == Updated(uri)
           params == NextParams(uri)
           query  == ParamsToString(params)
           m == MergeParams(v)
           d == SetDefaults(m)
           url == MakeUrl(d)
           p == [d EXCEPT !.url = url]
<1>1. UriForm(v) /\ v.params = uri.params
  BY UpdatedIs
<1>2. PrepareUri(uri) = p
  BY DEF PrepareUri, Updated
<1>3. m = [v EXCEPT !.params = params, !.query = query]
  BY <1>1 DEF MergeParams, NextParams
<1> HIDE DEF v, params, query, m
<1>4. /\ UriForm(m) /\ m.params = params /\ m.query = query /\ m.protocol = v.protocol
      /\ m.domain = v.domain /\ m.port = v.port /\ m.path = v.path
  BY <1>1, <1>3 DEF UriForm
<1> DEFINE protocol == Part(m.protocol, ProtocolFor(m))
           port     == Part(m.port, PortFor(m))
           path     == Part(m.path, DefaultPath)
<1>5. d = [m EXCEPT !.protocol = protocol, !.port = port, !.path = path]
  BY DEF SetDefaults
<1> HIDE DEF d, protocol, port, path
<1>6. /\ UriForm(d) /\ d.params = m.params /\ d.query = m.query /\ d.protocol = protocol
      /\ d.domain = m.domain /\ d.port = port /\ d.path = path
  BY <1>4, <1>5 DEF UriForm
<1> HIDE DEF url
<1>7. /\ UriForm(p) /\ p.params = d.params /\ p.query = d.query /\ p.protocol = d.protocol
      /\ p.domain = d.domain /\ p.port = d.port /\ p.path = d.path /\ p.url = url
  BY <1>6 DEF UriForm
<1>8. url = MakeUrl(p)
  BY <1>7 DEF url, MakeUrl
<1>9. /\ ProtocolFor(m) = ProtocolFor(v) /\ PortFor(m) = PortFor(v)
  BY <1>4 DEF ProtocolFor, PortFor
<1>10. /\ protocol = Part(v.protocol, ProtocolFor(v)) /\ port = Part(v.port, PortFor(v))
       /\ path = Part(v.path, DefaultPath)
  BY <1>4, <1>9 DEF protocol, port, path
<1> HIDE DEF p
<1> QED BY <1>2, <1>4, <1>6, <1>7, <1>8, <1>10 DEF v, params, query

\* After prepare() a uri has a protocol, a port and a path.
LEMMA PrepareGood ==
  ASSUME NEW uri, GoodUri(uri)
  PROVE  LET p == PrepareUri(uri)
         IN /\ GoodUri(p) /\ p.domain \in Maybe(Domains) /\ p.path \in Paths
            /\ p.protocol \in Protocols /\ p.port \in Ports
            /\ IsParams(NextParams(uri))
<1> DEFINE v == Updated(uri)
           p == PrepareUri(uri)
<1>1. UriForm(uri) /\ IsUri(uri) /\ UriForm(v) /\ v.params = uri.params
  BY UpdatedIs DEF GoodUri
<1>2. /\ v.protocol \in Maybe(Protocols) /\ v.domain \in Maybe(Domains)
      /\ v.port \in Maybe(Ports) /\ v.path \in Maybe(Paths) /\ IsParams(v.query)
  <2>1. CASE ~Parses(uri.url)
    BY <1>1, <2>1, UpdatedIs DEF GoodUri, IsUri
  <2>2. CASE Parses(uri.url)
    <3> DEFINE url == uri.url
    <3>1. IsUrl(url)
      BY <1>1, <2>2 DEF IsUri, Parses
    <3>2. /\ v.protocol = Part(url.protocol, uri.protocol) /\ v.domain = Part(url.domain, uri.domain)
          /\ v.port = Part(url.port, uri.port) /\ v.path = Part(url.path, uri.path)
          /\ v.query = Over(uri.query, Decoded(url.query))
      BY <1>1, <2>2, UpdatedIs
    <3> HIDE DEF v, url
    <3>3. IsParams(v.query)
      <4>1. IsParams(uri.query)
        BY <1>1 DEF IsUri
      <4>2. IsParams(url.query)
        BY <3>1 DEF IsUrl
      <4>3. IsParams(Decoded(url.query))
        BY <4>2, DecodedIsParams
      <4>4. IsParams(Over(uri.query, Decoded(url.query)))
        BY <4>1, <4>3, OverIsParams
      <4> QED BY <4>4, <3>2
    <3> QED BY <1>1, <3>1, <3>2, <3>3 DEF Part, IsUri, IsUrl
  <2> QED BY <2>1, <2>2
<1>3. IsParams(NextParams(uri))
  BY <1>1, <1>2, ReadIsParams, OverIsParams DEF NextParams, IsUri
<1>4. IsParams(ParamsToString(NextParams(uri)))
  BY <1>3, StringIsParams
<1>5. /\ UriForm(p) /\ p.url = MakeUrl(p)
      /\ p.params = NextParams(uri) /\ p.query = ParamsToString(NextParams(uri))
      /\ p.domain = v.domain /\ p.protocol = Part(v.protocol, ProtocolFor(v))
      /\ p.port = Part(v.port, PortFor(v)) /\ p.path = Part(v.path, DefaultPath)
  BY <1>1, PreparedIs
<1> HIDE DEF v, p
<1>6. /\ p.protocol \in Protocols /\ p.port \in Ports /\ p.path \in Paths
  BY <1>2, <1>5, RequestAssumption DEF Part, ProtocolFor, PortFor, Protocols, Ports, Maybe
<1>7. IsParams(p.query) /\ IsParams(p.params)
  BY <1>3, <1>4, <1>5
<1>8. IsUrl(p.url)
  <2>1. p.url = [protocol |-> p.protocol, domain |-> p.domain, port |-> p.port,
                 path |-> p.path, query |-> p.query]
    BY <1>5 DEF MakeUrl
  <2> QED BY <1>2, <1>5, <1>6, <1>7, <2>1 DEF IsUrl, Maybe
<1> QED BY <1>2, <1>3, <1>5, <1>6, <1>7, <1>8 DEF GoodUri, IsUri, Maybe, p

\* A rooted uri has a domain after prepare(), and is rooted still.
LEMMA PrepareRooted ==
  ASSUME NEW uri, GoodUri(uri), Rooted(uri)
  PROVE  PrepareUri(uri).domain \in Domains /\ Rooted(PrepareUri(uri))
<1> DEFINE v == Updated(uri)
<1>1. PrepareUri(uri).domain = v.domain
  BY PreparedIs DEF GoodUri
<1>2. v.domain \in Domains
  <2>1. CASE ~Parses(uri.url)
    <3>1. v = uri
      BY <2>1, UpdatedIs DEF GoodUri
    <3> HIDE DEF v
    <3> QED BY <2>1, <3>1 DEF Rooted
  <2>2. CASE Parses(uri.url)
    <3>1. v.domain = Part(uri.url.domain, uri.domain)
      BY <2>2, UpdatedIs DEF GoodUri
    <3>2. uri.url.domain \in Domains
      BY <2>2 DEF Parses, GoodUri, IsUri, IsUrl, Maybe
    <3> HIDE DEF v
    <3> QED BY <3>1, <3>2, RequestAssumption DEF Part
  <2> QED BY <2>1, <2>2
<1> HIDE DEF v
<1> QED BY <1>1, <1>2 DEF Rooted

\* The uri of a Location.
LEMMA FromStringIs ==
  ASSUME NEW url \in Urls
  PROVE  LET f == FromString(url)
         IN /\ GoodUri(f) /\ f.params = NoParams
            /\ Parses(url) =>
                 /\ f.url = url /\ f.protocol = url.protocol /\ f.domain = url.domain
                 /\ f.port = url.port /\ f.path = url.path /\ f.query = url.query
            /\ ~Parses(url) =>
                 /\ f.url = None /\ f.protocol = None /\ f.domain = None
                 /\ f.port = None /\ f.path = None /\ f.query = NoParams
<1>1. IsUrl(url) /\ url # None
  BY RequestAssumption
<1>2. IsParams(NoParams)
  BY DEF IsParams, NoParams
<1>3. CASE Parses(url)
  <2> DEFINE f == FromString(url)
  <2>1. /\ UriForm(f) /\ f.url = url /\ f.protocol = url.protocol /\ f.domain = url.domain
        /\ f.port = url.port /\ f.path = url.path /\ f.query = url.query /\ f.params = NoParams
    BY <1>3 DEF FromString, UriForm
  <2> HIDE DEF f
  <2>2. IsUri(f)
    BY <1>1, <1>2, <2>1 DEF IsUri, IsUrl, Maybe
  <2> QED BY <1>3, <2>1, <2>2 DEF GoodUri, f
<1>4. CASE ~Parses(url)
  <2> DEFINE f == FromString(url)
  <2>1. /\ UriForm(f) /\ f.url = None /\ f.protocol = None /\ f.domain = None
        /\ f.port = None /\ f.path = None /\ f.query = NoParams /\ f.params = NoParams
    BY <1>4 DEF FromString, NewUri, UriForm
  <2> HIDE DEF f
  <2>2. IsUri(f)
    BY <1>2, <2>1 DEF IsUri, Maybe
  <2> QED BY <1>4, <2>1, <2>2 DEF GoodUri, f
<1> QED BY <1>3, <1>4

\* What prepare() makes of the uri of a Location that names a host.
LEMMA PreparedUri ==
  ASSUME NEW url \in Urls, Parses(url)
  PROVE  LET uri == PrepareUri(FromString(url))
         IN /\ uri.domain = url.domain
            /\ url.port = None => (uri.port = "443" <=> url.protocol = "https")
            /\ url.port # None /\ url.protocol = None => (uri.protocol = "https" <=> url.port = "443")
            /\ Plain(url.query) => uri.query = ParamsToString(url.query)
<1> DEFINE f == FromString(url)
           v == Updated(f)
           p == PrepareUri(f)
<1>1. /\ url # None /\ IsParams(url.query)
      /\ url.port \in Maybe(Ports) /\ url.protocol \in Maybe(Protocols)
      /\ None \notin Ports /\ None \notin Protocols
  BY RequestAssumption DEF IsUrl, Maybe
<1>2. /\ UriForm(f) /\ f.url = url /\ f.protocol = url.protocol /\ f.domain = url.domain
      /\ f.port = url.port /\ f.path = url.path /\ f.query = url.query /\ f.params = NoParams
  BY FromStringIs DEF GoodUri
<1> HIDE DEF f
<1>3. /\ v.protocol = url.protocol /\ v.domain = url.domain /\ v.port = url.port
      /\ v.query = Over(url.query, Decoded(url.query))
  <2>1. \A x : Part(x, x) = x
    BY DEF Part
  <2>2. /\ v.protocol = Part(url.protocol, url.protocol) /\ v.domain = Part(url.domain, url.domain)
        /\ v.port = Part(url.port, url.port) /\ v.query = Over(url.query, Decoded(url.query))
    BY <1>1, <1>2, UpdatedIs
  <2> HIDE DEF v
  <2> QED BY <2>1, <2>2
<1>4. /\ p.query = ParamsToString(NextParams(f)) /\ p.domain = v.domain
      /\ p.protocol = Part(v.protocol, ProtocolFor(v)) /\ p.port = Part(v.port, PortFor(v))
  BY <1>2, PreparedIs
<1>5. NextParams(f) = Over(NoParams, ParamsFromString(v.query))
  BY <1>2 DEF NextParams
<1> HIDE DEF p, v
<1>6. url.port = None => (p.port = "443" <=> url.protocol = "https")
  BY <1>1, <1>3, <1>4 DEF Part, PortFor
<1>7. url.port # None /\ url.protocol = None => (p.protocol = "https" <=> url.port = "443")
  BY <1>1, <1>3, <1>4 DEF Part, ProtocolFor
<1>8. Plain(url.query) => p.query = ParamsToString(url.query)
  <2> SUFFICES ASSUME Plain(url.query)
               PROVE  p.query = ParamsToString(url.query)
    OBVIOUS
  <2>1. url.query = [n \in DOMAIN url.query |-> url.query[n]]
    BY <1>1 DEF IsParams
  <2>2. v.query = url.query
    BY <1>1, <1>3, <2>1, DecodedPlain, MergeSame
  <2>3. NextParams(f) = url.query
    BY <1>1, <1>5, <2>1, <2>2, FromStringPlain, MergeSame
  <2> QED BY <1>4, <2>3
<1> QED BY <1>3, <1>4, <1>6, <1>7, <1>8 DEF p, f

\* Of no parameters there is nothing to read and nothing to put down.
LEMMA NothingStays ==
  /\ ParamsFromString(NoParams) = NoParams /\ ParamsToString(NoParams) = NoParams
  /\ Over(NoParams, NoParams) = NoParams
<1>1. IsParams(NoParams) /\ Plain(NoParams) /\ NoParams = [n \in DOMAIN NoParams |-> NoParams[n]]
  BY DEF IsParams, NoParams, Plain, Tame
<1>2. ParamsFromString(NoParams) = NoParams /\ Over(NoParams, NoParams) = NoParams
  BY <1>1, FromStringPlain, MergeSame
<1>3. DOMAIN NoParams = {}
  BY DEF NoParams
<1>4. ParamsToString(NoParams) = NoParams
  <2>1. {Encode(m) : m \in DOMAIN NoParams} = {}
    BY <1>3
  <2> QED BY <2>1 DEF ParamsToString, NoParams
<1> QED BY <1>2, <1>4

\* What prepare() makes of the uri of one that does not.
LEMMA PreparedNowhere ==
  ASSUME NEW url \in Urls, ~Parses(url)
  PROVE  LET uri == PrepareUri(FromString(url))
         IN /\ uri.domain = None /\ uri.protocol = "http" /\ uri.port = "80"
            /\ uri.path = DefaultPath /\ uri.query = NoParams
<1> DEFINE f == FromString(url)
           p == PrepareUri(f)
<1>1. /\ UriForm(f) /\ f.url = None /\ f.protocol = None /\ f.domain = None
      /\ f.port = None /\ f.path = None /\ f.query = NoParams /\ f.params = NoParams
  BY FromStringIs DEF GoodUri
<1> HIDE DEF f
<1>2. ~Parses(f.url)
  BY <1>1 DEF Parses
<1>3. Updated(f) = f
  BY <1>2 DEF Updated
<1>4. NextParams(f) = NoParams
  BY <1>1, <1>3, NothingStays DEF NextParams
<1>5. /\ p.query = ParamsToString(NextParams(f)) /\ p.domain = f.domain
      /\ p.protocol = Part(f.protocol, ProtocolFor(f)) /\ p.port = Part(f.port, PortFor(f))
      /\ p.path = Part(f.path, DefaultPath)
  BY <1>1, <1>3, PreparedIs
<1> HIDE DEF p
<1>6. None # "443" /\ None # "https"
  BY RequestAssumption DEF Ports, Protocols
<1>7. p.protocol = "http" /\ p.port = "80" /\ p.path = DefaultPath
  BY <1>1, <1>5, <1>6 DEF Part, ProtocolFor, PortFor
<1> QED BY <1>1, <1>4, <1>5, <1>7, NothingStays DEF p, f

-----------------------------------------------------------------------------
(* Types.                                                                  *)

HasForm(r) == r = [uri |-> r.uri, data |-> r.data, gzip |-> r.gzip, auth |-> r.auth,
                   headers |-> r.headers]

GoodRequest(r) == HasForm(r) /\ IsRequest(r) /\ GoodUri(r.uri)

TypeInv == TypeOK /\ GoodRequest(request) /\ GoodRequest(said) /\ GoodRequest(sent)

UriParts == {"url", "protocol", "domain", "port", "path", "query", "params"}

\* A uri with a part that the caller set.
LEMMA UriPartSet ==
  ASSUME NEW u, GoodUri(u), NEW part \in UriParts, NEW v,
         part = "url" => v \in Urls, part = "protocol" => v \in Protocols,
         part = "domain" => v \in Domains, part = "port" => v \in Ports,
         part = "path" => v \in Paths, part \in {"query", "params"} => IsParams(v)
  PROVE  LET w == [u EXCEPT ![part] = v]
         IN /\ GoodUri(w)
            /\ w.params = IF part = "params" THEN v ELSE u.params
            /\ part \in {"params"} => w.url = u.url /\ w.domain = u.domain
            /\ part = "url" => w.url = v
            /\ part # "url" => w.url = u.url
            /\ part = "domain" => w.domain = v
            /\ part # "domain" => w.domain = u.domain
<1> DEFINE w == [u EXCEPT ![part] = v]
<1>1. /\ w.url = IF part = "url" THEN v ELSE u.url
      /\ w.protocol = IF part = "protocol" THEN v ELSE u.protocol
      /\ w.domain = IF part = "domain" THEN v ELSE u.domain
      /\ w.port = IF part = "port" THEN v ELSE u.port
      /\ w.path = IF part = "path" THEN v ELSE u.path
      /\ w.query = IF part = "query" THEN v ELSE u.query
      /\ w.params = IF part = "params" THEN v ELSE u.params
      /\ UriForm(w)
  <2>1. UriForm(u) /\ w = [u EXCEPT ![part] = v]
    BY DEF GoodUri
  <2> HIDE DEF w
  <2> QED BY <2>1 DEF UriForm, UriParts
<1>2. part = "url" => IsUrl(v) /\ v # None
  BY RequestAssumption
<1>3. IsUri(u)
  BY DEF GoodUri
<1> HIDE DEF w
<1>4. IsUri(w)
  <2>1. w.url # None => IsUrl(w.url)
    BY <1>1, <1>2, <1>3 DEF IsUri
  <2>2. IsParams(w.query) /\ IsParams(w.params)
    BY <1>1, <1>3 DEF IsUri
  <2>3. /\ w.protocol \in Maybe(Protocols) /\ w.domain \in Maybe(Domains)
        /\ w.port \in Maybe(Ports) /\ w.path \in Maybe(Paths)
    BY <1>1, <1>3 DEF IsUri, Maybe
  <2> QED BY <2>1, <2>2, <2>3 DEF IsUri
<1> QED BY <1>1, <1>4 DEF GoodUri, w

\* A request with another uri.
LEMMA UriSet ==
  ASSUME NEW r, GoodRequest(r), NEW u, GoodUri(u)
  PROVE  LET s == [r EXCEPT !.uri = u]
         IN GoodRequest(s) /\ s.uri = u /\ s.data = r.data /\ s.gzip = r.gzip
            /\ s.auth = r.auth /\ s.headers = r.headers
<1> DEFINE s == [r EXCEPT !.uri = u]
<1>1. HasForm(r)
  BY DEF GoodRequest
<1>2. HasForm(s) /\ s.uri = u /\ s.data = r.data /\ s.gzip = r.gzip /\ s.auth = r.auth
      /\ s.headers = r.headers
  BY <1>1 DEF HasForm
<1> HIDE DEF s
<1>3. IsRequest(s)
  BY <1>2 DEF IsRequest, GoodRequest, GoodUri
<1> QED BY <1>2, <1>3 DEF GoodRequest, s

\* What prepare() leaves of the headers.
LEMMA HeadersIs ==
  ASSUME NEW r, GoodRequest(r), NEW domain \in Maybe(Domains)
  PROVE  LET h == PrepareHeaders(r, domain)
         IN /\ h \in Headers /\ h.host = domain
            /\ h.length = IF r.data > 0 THEN r.data ELSE r.headers.length
            /\ h.encoding = (r.gzip \/ r.headers.encoding)
            /\ h.authorization = Part(r.auth, r.headers.authorization)
<1> DEFINE length == IF r.data > 0 THEN r.data ELSE r.headers.length
           encoding == r.gzip \/ r.headers.encoding
           auth == Part(r.auth, r.headers.authorization)
<1>1. r.headers \in Headers /\ r.data \in Sizes \cup {0} /\ r.gzip \in BOOLEAN
      /\ r.auth \in Maybe(Logins)
  BY DEF GoodRequest, IsRequest
<1>2. length \in Sizes \cup {0} /\ encoding \in BOOLEAN /\ auth \in Maybe(Logins)
  BY <1>1 DEF Headers, Part
<1> HIDE DEF length, encoding, auth
<1>3. PrepareHeaders(r, domain) = [host |-> domain, length |-> length, encoding |-> encoding,
                                   authorization |-> auth]
  BY DEF PrepareHeaders, length, encoding, auth
<1>4. PrepareHeaders(r, domain) \in Headers
  BY <1>2, <1>3 DEF Headers, Maybe
<1> QED BY <1>3, <1>4 DEF length, encoding, auth

\* A request that was prepared.
LEMMA PrepareIs ==
  ASSUME NEW r, GoodRequest(r)
  PROVE  LET p == Prepare(r)
         IN /\ GoodRequest(p) /\ p.uri = PrepareUri(r.uri)
            /\ p.data = r.data /\ p.gzip = r.gzip /\ p.auth = r.auth
            /\ p.headers = PrepareHeaders(r, p.uri.domain)
            /\ p.uri.domain \in Maybe(Domains) /\ p.uri.path \in Paths
            /\ p.uri.protocol \in Protocols /\ p.uri.port \in Ports
<1> DEFINE u == PrepareUri(r.uri)
           h == PrepareHeaders(r, u.domain)
           q == [r EXCEPT !.uri = u]
           p == [q EXCEPT !.headers = h]
<1>1. Prepare(r) = p
  BY DEF Prepare
<1>2. /\ GoodUri(u) /\ u.domain \in Maybe(Domains) /\ u.path \in Paths
      /\ u.protocol \in Protocols /\ u.port \in Ports
  BY PrepareGood DEF GoodRequest
<1> HIDE DEF u
<1>3. h \in Headers
  BY <1>2, HeadersIs
<1> HIDE DEF h
<1>4. GoodRequest(q) /\ q.uri = u /\ q.data = r.data /\ q.gzip = r.gzip /\ q.auth = r.auth
  BY <1>2, UriSet
<1> HIDE DEF q
<1>5. HasForm(p) /\ p.uri = q.uri /\ p.data = q.data /\ p.gzip = q.gzip /\ p.auth = q.auth
      /\ p.headers = h
  BY <1>4 DEF GoodRequest, HasForm
<1> HIDE DEF p
<1>6. GoodRequest(p)
  BY <1>2, <1>3, <1>4, <1>5 DEF GoodRequest, IsRequest
<1> QED BY <1>1, <1>2, <1>4, <1>5, <1>6 DEF u, h

-----------------------------------------------------------------------------
(* prepare() finds its own work done.                                      *)

\* Nothing is put over parameters that are all there.
LEMMA OverSame ==
  ASSUME NEW f, NEW g, IsParams(f), DOMAIN g \subseteq DOMAIN f
  PROVE  Over(f, g) = f
BY DEF IsParams, Over

\* What the query says of tame parameters.
LEMMA TameQuery ==
  ASSUME NEW params, IsParams(params), Tame(params)
  PROVE  LET q == ParamsToString(params)
         IN /\ IsParams(q)
            /\ DOMAIN Decoded(q) = DOMAIN q
            /\ DOMAIN ParamsFromString(q) \subseteq DOMAIN params
<1> DEFINE q == ParamsToString(params)
<1>1. /\ IsParams(q) /\ DOMAIN q = {Encode(m) : m \in DOMAIN params}
      /\ \A m \in DOMAIN params : q[Encode(m)] = Encode(params[m])
  BY StringIsParams
<1>2. \A m \in DOMAIN params : /\ m \in Text(Names) /\ m.of \notin Special
                               /\ params[m] \in Text(Maybe(Words)) /\ params[m].of \notin Joined
  BY DEF IsParams, Tame
<1>3. \A m \in DOMAIN params : Encode(m) = m /\ Decode(m) = m
  <2> TAKE m \in DOMAIN params
  <2>1. m \in Text(Names) /\ m.of \notin Special
    BY <1>2
  <2>2. Encode(m) = m /\ m.depth = 0
    BY <2>1, EncodedText
  <2>3. Decode(m) = m
    BY <2>1, <2>2, DecodedText
  <2> QED BY <2>2, <2>3
<1>4. DOMAIN q = DOMAIN params
  BY <1>1, <1>3
<1>5. \A m \in DOMAIN params : q[m].of \notin Joined
  <2> TAKE m \in DOMAIN params
  <2>1. params[m] \in Text(Maybe(Words)) /\ params[m].of \notin Joined
    BY <1>2
  <2>2. Encode(params[m]).of = params[m].of
    BY <2>1, EncodedText
  <2>3. q[m] = Encode(params[m])
    BY <1>1, <1>3
  <2> QED BY <2>1, <2>2, <2>3
<1> HIDE DEF q
<1>6. DOMAIN Decoded(q) = DOMAIN q
  <2>1. DOMAIN Decoded(q) = {Decode(m) : m \in DOMAIN q}
    BY DEF Decoded
  <2>2. {Decode(m) : m \in DOMAIN q} = DOMAIN q
    BY <1>3, <1>4
  <2> QED BY <2>1, <2>2
<1>7. DOMAIN ParamsFromString(q) \subseteq DOMAIN params
  <2>1. \A n \in DOMAIN q : ~Splits(q[n])
    BY <1>4, <1>5 DEF Splits
  <2> DEFINE read == {n \in DOMAIN q : q[n].of # None}
             cut  == [n \in read |-> Cut(q[n])]
  <2>2. ParamsFromString(q) = Over(cut, NoParams)
    BY <2>1 DEF ParamsFromString
  <2>3. DOMAIN cut \subseteq DOMAIN q /\ DOMAIN NoParams = {}
    BY DEF NoParams
  <2> HIDE DEF cut
  <2>4. DOMAIN Over(cut, NoParams) = DOMAIN cut \cup DOMAIN NoParams
    BY DEF Over
  <2> QED BY <1>4, <2>2, <2>3, <2>4
<1> QED BY <1>1, <1>6, <1>7 DEF q

\* A uri as prepare() leaves it.
SettledUri(u) ==
  /\ u.url = MakeUrl(u) /\ u.query = ParamsToString(u.params)
  /\ u.protocol # None /\ u.port # None /\ u.path # None

\* prepare() leaves a settled uri.
LEMMA PrepareSettles ==
  ASSUME NEW u, GoodUri(u)
  PROVE  SettledUri(PrepareUri(u))
<1> DEFINE p == PrepareUri(u)
<1>1. p.url = MakeUrl(p) /\ p.params = NextParams(u) /\ p.query = ParamsToString(NextParams(u))
  BY PreparedIs DEF GoodUri
<1>2. p.protocol \in Protocols /\ p.port \in Ports /\ p.path \in Paths
  BY PrepareGood
<1> HIDE DEF p
<1> QED BY <1>1, <1>2, RequestAssumption DEF SettledUri, p

\* A settled uri with tame parameters stays as it is.
LEMMA PrepareSame ==
  ASSUME NEW u, GoodUri(u), SettledUri(u), Tame(u.params)
  PROVE  PrepareUri(u) = u
<1> DEFINE v == Updated(u)
           p == PrepareUri(u)
<1>1. UriForm(u) /\ IsParams(u.params) /\ u.query = ParamsToString(u.params)
  BY DEF GoodUri, IsUri, SettledUri
<1>2. /\ IsParams(u.query) /\ DOMAIN Decoded(u.query) = DOMAIN u.query
      /\ DOMAIN ParamsFromString(u.query) \subseteq DOMAIN u.params
  BY <1>1, TameQuery
<1>3. /\ v.protocol = u.protocol /\ v.domain = u.domain /\ v.port = u.port
      /\ v.path = u.path /\ v.query = u.query
  <2>1. CASE ~Parses(u.url)
    BY <1>1, <2>1, UpdatedIs
  <2>2. CASE Parses(u.url)
    <3>1. /\ u.url.protocol = u.protocol /\ u.url.domain = u.domain /\ u.url.port = u.port
          /\ u.url.path = u.path /\ u.url.query = u.query
      BY DEF SettledUri, MakeUrl
    <3>2. Over(u.query, Decoded(u.query)) = u.query
      BY <1>2, OverSame
    <3>3. \A x : Part(x, x) = x
      BY DEF Part
    <3>4. /\ v.protocol = Part(u.protocol, u.protocol) /\ v.domain = Part(u.domain, u.domain)
          /\ v.port = Part(u.port, u.port) /\ v.path = Part(u.path, u.path)
          /\ v.query = Over(u.query, Decoded(u.query))
      BY <1>1, <2>2, <3>1, UpdatedIs
    <3> HIDE DEF v
    <3> QED BY <3>2, <3>3, <3>4
  <2> QED BY <2>1, <2>2
<1>4. NextParams(u) = u.params
  BY <1>1, <1>2, <1>3, OverSame DEF NextParams
<1>5. /\ UriForm(p) /\ p.url = MakeUrl(p)
      /\ p.params = NextParams(u) /\ p.query = ParamsToString(NextParams(u))
      /\ p.domain = v.domain /\ p.protocol = Part(v.protocol, ProtocolFor(v))
      /\ p.port = Part(v.port, PortFor(v)) /\ p.path = Part(v.path, DefaultPath)
  BY <1>1, PreparedIs
<1> HIDE DEF v, p
<1>6. /\ p.params = u.params /\ p.query = u.query /\ p.domain = u.domain
      /\ p.protocol = u.protocol /\ p.port = u.port /\ p.path = u.path
  BY <1>1, <1>3, <1>4, <1>5 DEF Part, SettledUri
<1>7. p.url = u.url
  BY <1>5, <1>6 DEF MakeUrl, SettledUri
<1>8. p = u
  BY <1>1, <1>5, <1>6, <1>7 DEF UriForm
<1> QED BY <1>8 DEF p

\* A request as prepare() leaves it.
Settled(r) ==
  /\ SettledUri(r.uri) /\ r.headers.host = r.uri.domain
  /\ r.data > 0 => r.headers.length = r.data
  /\ r.gzip => r.headers.encoding
  /\ r.auth # None => r.headers.authorization = r.auth

\* prepare() leaves a settled request.
LEMMA RequestSettles ==
  ASSUME NEW r, GoodRequest(r)
  PROVE  Settled(Prepare(r))
<1> DEFINE p == Prepare(r)
<1>1. /\ p.uri = PrepareUri(r.uri) /\ p.uri.domain \in Maybe(Domains) /\ GoodUri(r.uri)
      /\ p.data = r.data /\ p.gzip = r.gzip /\ p.auth = r.auth
      /\ p.headers = PrepareHeaders(r, p.uri.domain)
  BY PrepareIs DEF GoodRequest
<1> HIDE DEF p
<1>2. /\ p.headers.host = p.uri.domain
      /\ p.headers.length = IF r.data > 0 THEN r.data ELSE r.headers.length
      /\ p.headers.encoding = (r.gzip \/ r.headers.encoding)
      /\ p.headers.authorization = Part(r.auth, r.headers.authorization)
  BY <1>1, HeadersIs
<1>3. SettledUri(p.uri)
  BY <1>1, PrepareSettles
<1>4. Settled(p)
  BY <1>1, <1>2, <1>3 DEF Settled, Part
<1> QED BY <1>4 DEF p

\* A settled request with tame parameters is sent as it was.
LEMMA RequestSame ==
  ASSUME NEW r, GoodRequest(r), Settled(r), Tame(r.uri.params)
  PROVE  MakeRequest(Prepare(r)) = MakeRequest(r)
<1> DEFINE p == Prepare(r)
<1>1. /\ p.uri = PrepareUri(r.uri) /\ p.uri.domain \in Maybe(Domains) /\ GoodUri(r.uri)
      /\ p.data = r.data /\ p.gzip = r.gzip /\ p.auth = r.auth
      /\ p.headers = PrepareHeaders(r, p.uri.domain)
  BY PrepareIs DEF GoodRequest
<1> HIDE DEF p
<1>2. p.uri = r.uri
  BY <1>1, PrepareSame DEF Settled
<1>3. /\ p.headers \in Headers /\ p.headers.host = p.uri.domain
      /\ p.headers.length = IF r.data > 0 THEN r.data ELSE r.headers.length
      /\ p.headers.encoding = (r.gzip \/ r.headers.encoding)
      /\ p.headers.authorization = Part(r.auth, r.headers.authorization)
  BY <1>1, HeadersIs
<1>4. r.headers \in Headers /\ r.gzip \in BOOLEAN
  BY DEF GoodRequest, IsRequest
<1>5. p.headers = r.headers
  <2> DEFINE h == p.headers
             g == r.headers
  <2>1. h.host = g.host /\ h.length = g.length /\ h.authorization = g.authorization
    BY <1>2, <1>3 DEF Settled, Part
  <2>2. h.encoding = g.encoding
    BY <1>3, <1>4 DEF Settled, Headers
  <2>3. h \in Headers /\ g \in Headers
    BY <1>3, <1>4
  <2> HIDE DEF h, g
  <2>4. h = g
    BY <2>1, <2>2, <2>3 DEF Headers
  <2> QED BY <2>4 DEF h, g
<1>6. MakeRequest(p) = MakeRequest(r)
  BY <1>1, <1>2, <1>5 DEF MakeRequest
<1> QED BY <1>6 DEF p

-----------------------------------------------------------------------------
(* What the caller said, and what the request has of it.                   *)

Extending(p, f) == \A n \in DOMAIN f : n \in DOMAIN p /\ p[n] = f[n]

\* The request of a caller who, after the first Send(), set no part of the uri but the
\* parameters has the domain that was said; of one who set not even those, with tame
\* parameters, it has what prepare() makes of the uri that was said.
SaidUri ==
  /\ sends = 0 => request.uri = said.uri
  /\ sends > 0 /\ late \cap (UriParts \ {"params"}) = {} =>
       LET domain == Updated(said.uri).domain
       IN /\ request.uri.domain = domain
          /\ Parses(request.uri.url) => request.uri.url.domain = domain
  /\ sends > 0 /\ late \cap UriParts = {} /\ Tame(request.uri.params) =>
       request.uri = PrepareUri(said.uri)

SaidInv ==
  /\ request.data = said.data /\ request.gzip = said.gzip /\ request.auth = said.auth
  /\ said.headers = NoHeaders
  /\ Extending(request.uri.params, said.uri.params)
  /\ SaidUri

AllInv == TypeInv /\ SaidInv /\ Rooted(request.uri) /\ (sends > 0 /\ changed = {} => Settled(request))

\* A new request is what the caller said.
LEMMA InitAll ==
  ASSUME Init
  PROVE  AllInv
<1>1. PICK url \in Absolute : request = NewRequest(url)
  BY DEF Init
<1>2. IsUrl(url) /\ Parses(url) /\ IsParams(NoParams)
  BY RequestAssumption DEF IsParams, NoParams, Absolute
<1>3. NoHeaders \in Headers
  BY DEF NoHeaders, Headers, Maybe
<1> DEFINE u == [url |-> url, protocol |-> None, domain |-> None, port |-> None,
                 path |-> None, query |-> NoParams, params |-> NoParams]
<1>4. GoodUri(u) /\ Rooted(u)
  BY <1>2 DEF GoodUri, UriForm, IsUri, Maybe, Rooted
<1> HIDE DEF u
<1>5. request = [uri |-> u, data |-> 0, gzip |-> TRUE, auth |-> None, headers |-> NoHeaders]
  BY <1>1 DEF NewRequest, NewUri, u
<1>6. GoodRequest(request)
  BY <1>3, <1>4, <1>5 DEF GoodRequest, HasForm, IsRequest, GoodUri, Maybe
<1>7. /\ said = request /\ sent = request /\ location = None
      /\ changed = {} /\ late = {} /\ sends = 0
  BY DEF Init
<1>8. TypeInv
  BY <1>6, <1>7, RequestAssumption DEF TypeInv, TypeOK, GoodRequest, Maybe
<1>9. SaidInv
  BY <1>5, <1>7 DEF SaidInv, SaidUri, Extending
<1> QED BY <1>4, <1>5, <1>7, <1>8, <1>9 DEF AllInv

\* An option that puts v into a part of the uri.
LEMMA PartKeeps ==
  ASSUME AllInv, NEW part \in UriParts, NEW v,
         part = "url" => v \in Absolute, part = "protocol" => v \in Protocols,
         part = "domain" => v \in Domains, part = "port" => v \in Ports,
         part = "path" => v \in Paths, part \in {"query", "params"} => IsParams(v),
         SetOption(part, [request EXCEPT !.uri[part] = v], [said EXCEPT !.uri[part] = v])
  PROVE  AllInv'
<1> DEFINE u == [request.uri EXCEPT ![part] = v]
           w == [said.uri EXCEPT ![part] = v]
<1>1. /\ request' = [request EXCEPT !.uri = u] /\ said' = [said EXCEPT !.uri = w]
      /\ part \in Options /\ changed' = changed \cup {part}
      /\ late' = IF sends = 0 THEN late ELSE late \cup {part}
      /\ UNCHANGED <<sent, location, sends>>
  BY DEF SetOption
<1>2. /\ GoodRequest(request) /\ GoodRequest(said) /\ TypeOK /\ SaidInv
      /\ GoodUri(request.uri) /\ GoodUri(said.uri)
      /\ part = "url" => v \in Urls /\ Parses(v)
  BY DEF AllInv, TypeInv, GoodRequest, Absolute
<1>3. /\ GoodUri(u) /\ u.params = IF part = "params" THEN v ELSE request.uri.params
      /\ part = "params" => u.url = request.uri.url /\ u.domain = request.uri.domain
      /\ IF part = "url" THEN u.url = v ELSE u.url = request.uri.url
      /\ IF part = "domain" THEN u.domain = v ELSE u.domain = request.uri.domain
  BY <1>2, UriPartSet
<1>4. /\ GoodUri(w) /\ w.params = IF part = "params" THEN v ELSE said.uri.params
      /\ part = "params" => w.url = said.uri.url /\ w.domain = said.uri.domain
  BY <1>2, UriPartSet
<1>5. request.uri = said.uri => u = w
  OBVIOUS
<1> HIDE DEF u, w
<1>6. /\ GoodRequest(request') /\ request'.uri = u /\ request'.data = request.data
      /\ request'.gzip = request.gzip /\ request'.auth = request.auth
  BY <1>1, <1>2, <1>3, UriSet
<1>7. /\ GoodRequest(said') /\ said'.uri = w /\ said'.data = said.data
      /\ said'.gzip = said.gzip /\ said'.auth = said.auth /\ said'.headers = said.headers
  BY <1>1, <1>2, <1>4, UriSet
<1>8. TypeInv'
  BY <1>1, <1>2, <1>6, <1>7 DEF TypeInv, TypeOK, GoodRequest, AllInv
<1>9. Extending(u.params, w.params)
  BY <1>2, <1>3, <1>4 DEF Extending, SaidInv
<1>10. SaidUri'
  <2>1. sends = 0 => u = w
    BY <1>2, <1>5 DEF SaidInv, SaidUri
  <2>2. ASSUME sends > 0
        PROVE  part \in late' /\ late \subseteq late'
    BY <1>1, <2>2
  <2>3. ASSUME sends > 0, late' \cap (UriParts \ {"params"}) = {}
        PROVE  LET domain == Updated(w).domain
               IN /\ u.domain = domain
                  /\ Parses(u.url) => u.url.domain = domain
    <3>1. part = "params" /\ late \cap (UriParts \ {"params"}) = {}
      BY <2>2, <2>3
    <3>2. Updated(w).domain = Updated(said.uri).domain
      <4>1. UriForm(w) /\ UriForm(said.uri)
        BY <1>2, <1>4 DEF GoodUri, GoodRequest
      <4>2. w.url = said.uri.url /\ w.domain = said.uri.domain
        BY <1>4, <3>1
      <4>3. CASE ~Parses(w.url)
        BY <4>1, <4>2, <4>3, UpdatedIs
      <4>4. CASE Parses(w.url)
        <5>1. Updated(w).domain = Part(w.url.domain, w.domain)
          BY <4>1, <4>4, UpdatedIs
        <5>2. Updated(said.uri).domain = Part(said.uri.url.domain, said.uri.domain)
          BY <4>1, <4>2, <4>4, UpdatedIs
        <5> QED BY <4>2, <5>1, <5>2
      <4> QED BY <4>3, <4>4
    <3> QED BY <1>2, <1>3, <2>3, <3>1, <3>2 DEF SaidInv, SaidUri
  <2>4. sends > 0 => late' \cap UriParts # {}
    BY <2>2
  <2> QED BY <1>1, <1>6, <1>7, <2>1, <2>3, <2>4 DEF SaidUri
<1>11. SaidInv'
  BY <1>2, <1>6, <1>7, <1>9, <1>10 DEF SaidInv
<1>12. changed' # {}
  BY <1>1
<1>13. Rooted(u)
  BY <1>2, <1>3 DEF Rooted, AllInv
<1> QED BY <1>6, <1>8, <1>11, <1>12, <1>13 DEF AllInv

\* An option that is not about the uri.
LEMMA OtherKeeps ==
  ASSUME AllInv, SetData \/ SetGzip \/ SetAuth \/ SetHeaders
  PROVE  AllInv'
<1>1. GoodRequest(request) /\ GoodRequest(said) /\ TypeOK /\ SaidInv
  BY DEF AllInv, TypeInv
<1>2. /\ UNCHANGED <<sent, location, sends>> /\ changed' # {} /\ changed' \subseteq Options
      /\ late \subseteq late' /\ late' \subseteq Options
  BY <1>1 DEF SetData, SetGzip, SetAuth, SetHeaders, SetOption, TypeOK
<1>3. /\ GoodRequest(request') /\ request'.uri = request.uri
      /\ GoodRequest(said') /\ said'.uri = said.uri /\ said'.headers = said.headers
      /\ request'.data = said'.data /\ request'.gzip = said'.gzip /\ request'.auth = said'.auth
  <2>1. HasForm(request) /\ HasForm(said)
    BY <1>1 DEF GoodRequest
  <2>2. /\ request.data = said.data /\ request.gzip = said.gzip /\ request.auth = said.auth
    BY <1>1 DEF SaidInv
  <2>3. CASE SetData
    <3>1. PICK n \in Sizes : request' = [request EXCEPT !.data = n] /\ said' = [said EXCEPT !.data = n]
      BY <2>3 DEF SetData, SetOption
    <3>2. /\ HasForm(request') /\ request'.uri = request.uri /\ request'.headers = request.headers
          /\ request'.data = n /\ request'.gzip = request.gzip /\ request'.auth = request.auth
      BY <2>1, <3>1 DEF HasForm
    <3>3. /\ HasForm(said') /\ said'.uri = said.uri /\ said'.headers = said.headers
          /\ said'.data = n /\ said'.gzip = said.gzip /\ said'.auth = said.auth
      BY <2>1, <3>1 DEF HasForm
    <3> QED BY <1>1, <2>2, <3>2, <3>3 DEF GoodRequest, IsRequest
  <2>4. CASE SetGzip
    <3>1. PICK on \in BOOLEAN : request' = [request EXCEPT !.gzip = on] /\ said' = [said EXCEPT !.gzip = on]
      BY <2>4 DEF SetGzip, SetOption
    <3>2. /\ HasForm(request') /\ request'.uri = request.uri /\ request'.headers = request.headers
          /\ request'.data = request.data /\ request'.gzip = on /\ request'.auth = request.auth
      BY <2>1, <3>1 DEF HasForm
    <3>3. /\ HasForm(said') /\ said'.uri = said.uri /\ said'.headers = said.headers
          /\ said'.data = said.data /\ said'.gzip = on /\ said'.auth = said.auth
      BY <2>1, <3>1 DEF HasForm
    <3> QED BY <1>1, <2>2, <3>2, <3>3 DEF GoodRequest, IsRequest
  <2>5. CASE SetAuth
    <3>1. PICK a \in Logins : request' = [request EXCEPT !.auth = a] /\ said' = [said EXCEPT !.auth = a]
      BY <2>5 DEF SetAuth, SetOption
    <3>2. /\ HasForm(request') /\ request'.uri = request.uri /\ request'.headers = request.headers
          /\ request'.data = request.data /\ request'.gzip = request.gzip /\ request'.auth = a
      BY <2>1, <3>1 DEF HasForm
    <3>3. /\ HasForm(said') /\ said'.uri = said.uri /\ said'.headers = said.headers
          /\ said'.data = said.data /\ said'.gzip = said.gzip /\ said'.auth = a
      BY <2>1, <3>1 DEF HasForm
    <3> QED BY <1>1, <2>2, <3>2, <3>3 DEF GoodRequest, IsRequest, Maybe
  <2>6. CASE SetHeaders
    <3>1. request' = [request EXCEPT !.headers = NoHeaders] /\ said' = said
      BY <2>6 DEF SetHeaders, SetOption
    <3>2. /\ HasForm(request') /\ request'.uri = request.uri /\ request'.headers = NoHeaders
          /\ request'.data = request.data /\ request'.gzip = request.gzip
          /\ request'.auth = request.auth
      BY <2>1, <3>1 DEF HasForm
    <3>3. NoHeaders \in Headers
      BY DEF NoHeaders, Headers, Maybe
    <3> QED BY <1>1, <2>2, <3>1, <3>2, <3>3 DEF GoodRequest, IsRequest
  <2> QED BY <2>3, <2>4, <2>5, <2>6
<1>4. TypeInv'
  BY <1>1, <1>2, <1>3 DEF TypeInv, TypeOK, GoodRequest, AllInv
<1>5. SaidUri'
  BY <1>1, <1>2, <1>3 DEF SaidInv, SaidUri
<1>6. SaidInv'
  BY <1>1, <1>3, <1>5 DEF SaidInv
<1> QED BY <1>2, <1>3, <1>4, <1>6 DEF AllInv

\* set_option(), of whatever option.
LEMMA CallerOptionsKeep ==
  ASSUME AllInv, Caller, ~Send
  PROVE  AllInv'
<1>1. /\ "url" \in UriParts /\ "protocol" \in UriParts /\ "domain" \in UriParts
      /\ "port" \in UriParts /\ "path" \in UriParts /\ "query" \in UriParts
      /\ "params" \in UriParts
  BY DEF UriParts
<1>2. CASE SetUrl
  <2>1. PICK v \in Absolute :
          SetOption("url", [request EXCEPT !.uri["url"] = v], [said EXCEPT !.uri["url"] = v])
    BY <1>2 DEF SetUrl, SetUri
  <2> QED BY <1>1, <2>1, PartKeeps
<1>3. CASE SetProtocol
  <2>1. PICK v \in Protocols :
          SetOption("protocol", [request EXCEPT !.uri["protocol"] = v], [said EXCEPT !.uri["protocol"] = v])
    BY <1>3 DEF SetProtocol, SetUri
  <2> QED BY <1>1, <2>1, PartKeeps
<1>4. CASE SetDomain
  <2>1. PICK v \in Domains :
          SetOption("domain", [request EXCEPT !.uri["domain"] = v], [said EXCEPT !.uri["domain"] = v])
    BY <1>4 DEF SetDomain, SetUri
  <2> QED BY <1>1, <2>1, PartKeeps
<1>5. CASE SetPort
  <2>1. PICK v \in Ports :
          SetOption("port", [request EXCEPT !.uri["port"] = v], [said EXCEPT !.uri["port"] = v])
    BY <1>5 DEF SetPort, SetUri
  <2> QED BY <1>1, <2>1, PartKeeps
<1>6. CASE SetPath
  <2>1. PICK v \in Paths :
          SetOption("path", [request EXCEPT !.uri["path"] = v], [said EXCEPT !.uri["path"] = v])
    BY <1>6 DEF SetPath, SetUri
  <2> QED BY <1>1, <2>1, PartKeeps
<1>7. CASE SetQuery
  <2>1. PICK v \in {url.query : url \in Absolute} :
          SetOption("query", [request EXCEPT !.uri["query"] = v], [said EXCEPT !.uri["query"] = v])
    BY <1>7 DEF SetQuery, SetUri
  <2>2. IsParams(v)
    BY RequestAssumption DEF IsUrl, Absolute
  <2> QED BY <1>1, <2>1, <2>2, PartKeeps
<1>8. CASE SetParams
  <2>1. PICK v \in Given :
          SetOption("params", [request EXCEPT !.uri["params"] = v], [said EXCEPT !.uri["params"] = v])
    BY <1>8 DEF SetParams, SetUri
  <2>2. IsParams(v)
    BY RequestAssumption DEF IsUrl
  <2> QED BY <1>1, <2>1, <2>2, PartKeeps
<1> QED BY <1>2, <1>3, <1>4, <1>5, <1>6, <1>7, <1>8, OtherKeeps DEF Caller

\* Send() prepares the request.
LEMMA SendPrepares ==
  ASSUME AllInv, Send
  PROVE  AllInv'
<1>1. /\ request' = Prepare(request) /\ sent' = request' /\ location' = location
      /\ sends < MaxSends /\ sends' = sends + 1 /\ changed' = {} /\ UNCHANGED <<said, late>>
  BY DEF Send
<1>2. GoodRequest(request) /\ GoodRequest(said) /\ TypeOK /\ SaidInv
  BY DEF AllInv, TypeInv
<1> DEFINE u == request.uri
           p == request'.uri
<1>3. /\ GoodRequest(request') /\ p = PrepareUri(u)
      /\ request'.data = request.data /\ request'.gzip = request.gzip
      /\ request'.auth = request.auth
      /\ p.path \in Paths /\ p.protocol \in Protocols /\ p.port \in Ports
  BY <1>1, <1>2, PrepareIs
<1>4. GoodUri(u) /\ UriForm(u) /\ IsParams(u.params) /\ Rooted(u)
  BY <1>2 DEF GoodRequest, GoodUri, IsUri, AllInv
<1>5. /\ p.url = MakeUrl(p) /\ p.params = NextParams(u) /\ p.domain = Updated(u).domain
  BY <1>3, <1>4, PreparedIs
<1>12. p.domain \in Domains /\ Rooted(p)
  BY <1>3, <1>4, PrepareRooted
<1>6. TypeInv'
  <2>1. sends' \in 0..MaxSends /\ sends' > 0
    BY <1>1, <1>2, RequestAssumption DEF TypeOK
  <2>2. None \notin {p.protocol, p.domain, p.port, p.path}
    BY <1>3, <1>12, RequestAssumption
  <2> QED BY <1>1, <1>2, <1>3, <2>1, <2>2 DEF TypeInv, TypeOK, GoodRequest
<1>7. Extending(p.params, u.params)
  <2>1. Extending(NextParams(u), u.params)
    BY DEF NextParams, Over, Extending
  <2> QED BY <1>5, <2>1
<1>8. Extending(p.params, said.uri.params)
  BY <1>2, <1>7 DEF SaidInv, Extending
<1>9. SaidUri'
  <2> HIDE DEF p, u
  <2>1. ASSUME late \cap (UriParts \ {"params"}) = {}
        PROVE  p.domain = Updated(said.uri).domain
    <3>1. CASE sends = 0
      BY <1>2, <1>5, <3>1 DEF SaidInv, SaidUri, u
    <3>2. CASE sends > 0
      <4> DEFINE d == Updated(said.uri).domain
      <4>1. u.domain = d /\ (Parses(u.url) => u.url.domain = d)
        BY <1>2, <2>1, <3>2 DEF SaidInv, SaidUri, u
      <4> HIDE DEF d
      <4>2. CASE ~Parses(u.url)
        BY <1>4, <1>5, <4>1, <4>2, UpdatedIs DEF d
      <4>3. CASE Parses(u.url)
        <5>1. Updated(u).domain = Part(u.url.domain, u.domain)
          BY <1>4, <4>3, UpdatedIs
        <5> QED BY <1>5, <4>1, <4>3, <5>1 DEF Part, d
      <4> QED BY <4>2, <4>3
    <3> QED BY <1>2, <3>1, <3>2 DEF TypeOK
  <2>2. p.url.domain = p.domain
    BY <1>5 DEF MakeUrl
  <2>3. ASSUME late \cap UriParts = {}, Tame(p.params)
        PROVE  p = PrepareUri(said.uri)
    <3>1. CASE sends = 0
      BY <1>2, <1>3, <3>1 DEF SaidInv, SaidUri, u, p
    <3>2. CASE sends > 0
      <4>1. Tame(u.params)
        BY <1>7, <2>3 DEF Tame, Extending
      <4>2. u = PrepareUri(said.uri)
        BY <1>2, <2>3, <3>2, <4>1 DEF SaidInv, SaidUri, u
      <4>3. SettledUri(u)
        BY <1>2, <4>2, PrepareSettles DEF GoodRequest
      <4>4. PrepareUri(u) = u
        BY <1>4, <4>1, <4>3, PrepareSame
      <4> QED BY <1>3, <4>2, <4>4 DEF u, p
    <3> QED BY <1>2, <3>1, <3>2 DEF TypeOK
  <2>4. sends' # 0
    BY <1>1, <1>2 DEF TypeOK
  <2> QED BY <1>1, <2>1, <2>2, <2>3, <2>4 DEF SaidUri, p
<1>10. SaidInv'
  BY <1>1, <1>2, <1>3, <1>8, <1>9 DEF SaidInv
<1>11. Settled(request)'
  BY <1>1, <1>2, RequestSettles
<1> QED BY <1>6, <1>10, <1>11, <1>12 DEF AllInv

\* A redirect prepares the copy that was sent, with a new uri.
LEMMA RedirectPrepares ==
  ASSUME AllInv, Redirect
  PROVE  AllInv'
<1>1. PICK url \in Urls :
        sent' = Prepare([sent EXCEPT !.uri = FromString(url)]) /\ location' = url
  BY DEF Redirect
<1> DEFINE r == [sent EXCEPT !.uri = FromString(url)]
<1>2. GoodRequest(r) /\ r.uri = FromString(url)
  BY FromStringIs, UriSet DEF AllInv, TypeInv
<1> HIDE DEF r
<1>3. /\ GoodRequest(sent') /\ sent'.uri = PrepareUri(FromString(url))
      /\ sent'.uri.path \in Paths /\ sent'.uri.protocol \in Protocols
      /\ sent'.uri.port \in Ports
  BY <1>1, <1>2, PrepareIs DEF r
<1>4. UNCHANGED <<request, said, changed, late, sends>>
  BY DEF Redirect
<1>5. /\ None \notin {sent'.uri.protocol, sent'.uri.port, sent'.uri.path}
      /\ sent'.uri.domain = None => ~Parses(url)
  <2>1. Parses(url) => sent'.uri.domain # None
    BY <1>3, PreparedUri DEF Parses
  <2> QED BY <1>3, <2>1, RequestAssumption
<1>6. location' \in Maybe(Urls) /\ location' # None /\ location' = url
  BY <1>1, RequestAssumption DEF Maybe
<1>7. TypeInv'
  BY <1>3, <1>4, <1>5, <1>6 DEF AllInv, TypeInv, TypeOK, GoodRequest
<1>8. SaidInv'
  BY <1>4 DEF AllInv, SaidInv, SaidUri
<1> QED BY <1>4, <1>7, <1>8 DEF AllInv

\* Every step keeps the invariant.
LEMMA NextAll ==
  ASSUME AllInv, [Next]_vars
  PROVE  AllInv'
<1>1. CASE UNCHANGED vars
  BY <1>1 DEF vars, AllInv, TypeInv, TypeOK, SaidInv, SaidUri
<1> QED BY <1>1, CallerOptionsKeep, SendPrepares, RedirectPrepares DEF Next, Caller

-----------------------------------------------------------------------------
(* Redirects.                                                              *)

\* The caller does nothing while a Location is followed.
LEMMA NoLocation ==
  ASSUME Caller
  PROVE  RedirectTarget' /\ LocationKept'
<1>1. location' = None
  <2>1. ASSUME NEW part, NEW values, SetUri(part, values)
        PROVE  location' = None
    BY <2>1 DEF SetUri, SetOption
  <2>2. CASE SetData \/ SetGzip \/ SetAuth \/ SetHeaders \/ Send
    BY <2>2 DEF SetData, SetGzip, SetAuth, SetHeaders, SetOption, Send
  <2> QED BY <2>1, <2>2 DEF Caller, SetUrl, SetProtocol, SetDomain, SetPort, SetPath,
                            SetQuery, SetParams
<1> QED BY <1>1 DEF RedirectTarget, LocationKept

\* A redirect starts from a new uri.
LEMMA LocationFollowed ==
  ASSUME AllInv, Redirect
  PROVE  RedirectTarget' /\ LocationKept'
<1>1. PICK url \in Urls :
        sent' = Prepare([sent EXCEPT !.uri = FromString(url)]) /\ location' = url
  BY DEF Redirect
<1> DEFINE r == [sent EXCEPT !.uri = FromString(url)]
<1>2. GoodRequest(r) /\ r.uri = FromString(url)
  BY FromStringIs, UriSet DEF AllInv, TypeInv
<1> HIDE DEF r
<1>3. /\ sent'.uri = PrepareUri(FromString(url)) /\ sent'.uri.domain \in Maybe(Domains)
      /\ sent'.headers = PrepareHeaders(r, sent'.uri.domain)
  BY <1>1, <1>2, PrepareIs DEF r
<1>4. RedirectTarget'
  <2>1. sent'.headers.host = sent'.uri.domain
    BY <1>2, <1>3, HeadersIs
  <2>2. CASE Parses(url)
    BY <1>1, <1>3, <2>1, <2>2, PreparedUri DEF RedirectTarget
  <2>3. CASE ~Parses(url)
    <3>1. url.domain = None
      BY <2>3, RequestAssumption DEF Parses
    <3> QED BY <1>1, <1>3, <2>1, <2>3, <3>1, PreparedNowhere DEF RedirectTarget
  <2> QED BY <2>2, <2>3
<1>5. LocationKept'
  <2>1. Parses(url) /\ Plain(url.query) => sent'.uri.query = ParamsToString(url.query)
    BY <1>3, PreparedUri
  <2>2. MakeRequest(sent)'.query = sent'.uri.query
    BY DEF MakeRequest
  <2> QED BY <1>1, <2>1, <2>2 DEF LocationKept, Plain, Tame
<1> QED BY <1>4, <1>5

-----------------------------------------------------------------------------
(* The theorems.                                                           *)

IInv == AllInv /\ RedirectTarget /\ LocationKept

\* The inductive invariant holds of every request.
THEOREM RequestInvariance == Spec => []IInv
<1>1. Init => IInv
  <2>1. Init => location = None
    BY DEF Init
  <2> QED BY <2>1, InitAll DEF IInv, RedirectTarget, LocationKept
<1>2. IInv /\ [Next]_vars => IInv'
  <2> SUFFICES ASSUME IInv, [Next]_vars
               PROVE  IInv'
    OBVIOUS
  <2>1. AllInv'
    BY NextAll DEF IInv
  <2>2. RedirectTarget' /\ LocationKept'
    <3>1. CASE UNCHANGED vars
      BY <3>1 DEF vars, IInv, RedirectTarget, LocationKept, MakeRequest
    <3> QED BY <3>1, NoLocation, LocationFollowed DEF IInv, Next
  <2> QED BY <2>1, <2>2 DEF IInv
<1> QED BY <1>1, <1>2, PTL DEF Spec

\* A redirect leads to the domain the Location names, over the port and the protocol
\* it names or implies, whatever the request had before; a Location that names none
\* leads to port 80 of no host at all, which is what the code does with a relative one.
THEOREM RedirectsLead == Spec => []RedirectTarget
<1>1. IInv => RedirectTarget
  BY DEF IInv
<1> QED BY <1>1, RequestInvariance, PTL

\* The query of an absolute Location without encoded texts is sent as it was given.
THEOREM LocationsKept == Spec => []LocationKept
<1>1. IInv => LocationKept
  BY DEF IInv
<1> QED BY <1>1, RequestInvariance, PTL

\* Type correctness: whatever options are set in whatever order, and wherever servers
\* redirect, a request that is sent has a protocol, a port and a path, and a domain
\* unless it follows a Location without one.
THEOREM TypeCorrect == Spec => []TypeOK
<1>1. IInv => TypeOK
  BY DEF IInv, AllInv, TypeInv
<1> QED BY <1>1, RequestInvariance, PTL

\* A request sent again with nothing set in between is the same on the wire.
THEOREM SentAgain == Spec => SameAgain
<1>1. IInv => (Send /\ sends > 0 /\ changed = {} /\ Tame(request.uri.params)
                   => MakeRequest(request') = MakeRequest(request))
  <2> SUFFICES ASSUME IInv, Send, sends > 0, changed = {}, Tame(request.uri.params)
               PROVE  MakeRequest(request') = MakeRequest(request)
    OBVIOUS
  <2>1. GoodRequest(request) /\ Settled(request) /\ request' = Prepare(request)
    BY DEF IInv, AllInv, TypeInv, Send
  <2> QED BY <2>1, RequestSame
<1> QED BY <1>1, RequestInvariance, PTL DEF Spec, SameAgain

\* What to_string() makes of more parameters has what it makes of fewer.
LEMMA ExtendingHas ==
  ASSUME NEW f, NEW p, IsParams(f), IsParams(p), Extending(p, f)
  PROVE  Has(ParamsToString(p), f)
<1> DEFINE put == ParamsToString(f)
           q == ParamsToString(p)
<1>1. /\ DOMAIN put = {Encode(m) : m \in DOMAIN f}
      /\ \A m \in DOMAIN f : put[Encode(m)] = Encode(f[m])
  BY StringIsParams
<1>2. \A m \in DOMAIN p : Encode(m) \in DOMAIN q /\ q[Encode(m)] = Encode(p[m])
  BY StringIsParams
<1> HIDE DEF put, q
<1>3. \A n \in DOMAIN put : n \in DOMAIN q /\ q[n] = put[n]
  BY <1>1, <1>2 DEF Extending
<1> QED BY <1>3 DEF Has, put, q

\* What the caller set is in the next request.
THEOREM SaidAppears == Spec => ChangesAppear
<1> DEFINE late1 == late \cap {"url", "protocol", "domain", "port", "path", "query"}
           now == MakeRequest(request')
           fresh == MakeRequest(Prepare(said))
           A == /\ now.data = fresh.data /\ now.body = fresh.body
                /\ now.data > 0 => now.headers.length = fresh.headers.length
                /\ fresh.headers.encoding => now.headers.encoding
                /\ fresh.headers.authorization \in {None, now.headers.authorization}
                /\ now.domain = fresh.domain /\ now.headers.host = fresh.headers.host
                /\ Has(now.query, said.uri.params)
                /\ "params" \notin late => now.query = fresh.query
<1>1. IInv => (Send /\ late1 = {} /\ Tame(request.uri.params) => A)
  <2> SUFFICES ASSUME IInv, Send, late1 = {}, Tame(request.uri.params)
               PROVE  A
    OBVIOUS
  <2>1. GoodRequest(request) /\ GoodRequest(said) /\ SaidInv /\ sends \in Nat
    BY RequestAssumption DEF IInv, AllInv, TypeInv, TypeOK
  <2>2. request' = Prepare(request) /\ said' = said /\ late' = late /\ sends' = sends + 1
    BY DEF Send
  <2> DEFINE p == Prepare(request)
             f == Prepare(said)
  <2>3. /\ p.uri = PrepareUri(request.uri) /\ p.data = request.data /\ p.gzip = request.gzip
        /\ p.headers = PrepareHeaders(request, p.uri.domain) /\ p.uri.domain \in Maybe(Domains)
    BY <2>1, PrepareIs
  <2>4. /\ f.uri = PrepareUri(said.uri) /\ f.data = said.data /\ f.gzip = said.gzip
        /\ f.headers = PrepareHeaders(said, f.uri.domain) /\ f.uri.domain \in Maybe(Domains)
    BY <2>1, PrepareIs
  <2>5. /\ now.data = p.data /\ now.headers = p.headers /\ now.domain = p.uri.domain
        /\ now.query = p.uri.query
        /\ now.body = IF p.gzip /\ p.data > 0 THEN Compress(p.data) ELSE p.data
    BY <2>2 DEF MakeRequest
  <2>6. /\ fresh.data = f.data /\ fresh.headers = f.headers /\ fresh.domain = f.uri.domain
        /\ fresh.query = f.uri.query
        /\ fresh.body = IF f.gzip /\ f.data > 0 THEN Compress(f.data) ELSE f.data
    BY DEF MakeRequest
  <2>7. request.data = said.data /\ request.gzip = said.gzip /\ request.auth = said.auth
    BY <2>1 DEF SaidInv
  <2> HIDE DEF p, f, now, fresh
  <2>8. now.data = fresh.data /\ now.body = fresh.body
    BY <2>3, <2>4, <2>5, <2>6, <2>7
  <2>9. /\ now.headers.host = p.uri.domain
        /\ now.headers.length = IF request.data > 0 THEN request.data ELSE request.headers.length
        /\ now.headers.encoding = (request.gzip \/ request.headers.encoding)
        /\ now.headers.authorization = Part(request.auth, request.headers.authorization)
    BY <2>1, <2>3, <2>5, HeadersIs
  <2>10. /\ fresh.headers.host = f.uri.domain
         /\ fresh.headers.length = IF said.data > 0 THEN said.data ELSE said.headers.length
         /\ fresh.headers.encoding = (said.gzip \/ said.headers.encoding)
         /\ fresh.headers.authorization = Part(said.auth, said.headers.authorization)
    BY <2>1, <2>4, <2>6, HeadersIs
  <2>11. said.headers.encoding = FALSE /\ said.headers.authorization = None
    BY <2>1 DEF SaidInv, NoHeaders
  <2>12. p.uri.domain = f.uri.domain
    <3>1. AllInv'
      BY SendPrepares DEF IInv
    <3>2. p.uri.domain = Updated(said.uri).domain
      <4>1. late \cap (UriParts \ {"params"}) = {} /\ sends' > 0
        BY <2>1, <2>2 DEF UriParts
      <4> QED BY <2>2, <3>1, <4>1 DEF AllInv, SaidInv, SaidUri, p
    <3>3. f.uri.domain = Updated(said.uri).domain
      BY <2>1, <2>4, PreparedIs DEF GoodRequest, GoodUri
    <3> QED BY <3>2, <3>3
  <2>13. Has(now.query, said.uri.params)
    <3>1. /\ p.uri.params = NextParams(request.uri)
          /\ p.uri.query = ParamsToString(NextParams(request.uri))
      BY <2>1, <2>3, PreparedIs DEF GoodRequest, GoodUri
    <3>2. Extending(NextParams(request.uri), request.uri.params)
      BY DEF NextParams, Over, Extending
    <3>3. Extending(NextParams(request.uri), said.uri.params)
      BY <2>1, <3>2 DEF SaidInv, Extending
    <3>4. IsParams(said.uri.params) /\ IsParams(NextParams(request.uri))
      BY <2>1, PrepareGood DEF GoodRequest, GoodUri, IsUri
    <3> QED BY <2>5, <3>1, <3>3, <3>4, ExtendingHas
  <2>14. ASSUME "params" \notin late
         PROVE  now.query = fresh.query
    <3>1. p.uri = f.uri
      <4>1. CASE sends = 0
        BY <2>1, <2>3, <2>4, <4>1 DEF SaidInv, SaidUri
      <4>2. CASE sends > 0
        <5>1. late \cap UriParts = {}
          BY <2>14 DEF UriParts
        <5>2. request.uri = PrepareUri(said.uri)
          BY <2>1, <4>2, <5>1 DEF SaidInv, SaidUri
        <5>3. GoodUri(request.uri) /\ GoodUri(said.uri)
          BY <2>1 DEF GoodRequest
        <5>4. SettledUri(request.uri)
          BY <5>2, <5>3, PrepareSettles
        <5>5. PrepareUri(request.uri) = request.uri
          BY <5>3, <5>4, PrepareSame
        <5> QED BY <2>3, <2>4, <5>2, <5>5
      <4> QED BY <2>1, <4>1, <4>2
    <3> QED BY <2>5, <2>6, <3>1
  <2>15. now.data > 0 => now.headers.length = fresh.headers.length
    BY <2>3, <2>5, <2>7, <2>9, <2>10
  <2>16. fresh.headers.encoding => now.headers.encoding
    BY <2>7, <2>9, <2>10, <2>11
  <2>17. fresh.headers.authorization \in {None, now.headers.authorization}
    BY <2>7, <2>9, <2>10, <2>11 DEF Part
  <2> QED BY <2>5, <2>6, <2>8, <2>9, <2>10, <2>12, <2>13, <2>14, <2>15, <2>16, <2>17
<1> QED BY <1>1, RequestInvariance, PTL DEF Spec, ChangesAppear
=============================================================================
