------------------------------- MODULE Cookies -------------------------------
(***************************************************************************)
(* The cookies of crequests (crequests/cookies.cpp): which are taken from  *)
(* an answer, and which go into a request.                                 *)
(*                                                                         *)
(* cookies_t is a map of domains to cookies_list_t, a std::set ordered by  *)
(* an operator< that is no order: of two cookies each may be less than the *)
(* other.  What the set then holds depends on the shape of its tree, so    *)
(* the tree is modelled as libstdc++ builds it, up to four nodes.          *)
(*                                                                         *)
(* A domain is the sequence of its labels, in lower case; a path is the    *)
(* sequence of its characters' codes.                                      *)
(***************************************************************************)
EXTENDS Integers, FiniteSets, SequencesExt

CONSTANTS
  Received,      \* the cookies servers set, or the caller adds, but for the value
  Values,
  Requests,      \* the requests made: host and path
  PublicSuffix,  \* the one public suffix of several labels that is known
  Addresses,     \* IP addresses
  None,          \* an attribute that is missing
  Capacity,      \* bound: the nodes of all trees together
  MaxNow         \* bound: the end of time

Slash == 47

\* Of four nodes the shape follows from the order, with what is modelled here.  A host
\* has a label, and so has a domain a cookie comes from.
ASSUME CookiesAssumption ==
  /\ Capacity \in 0..4 /\ MaxNow \in Nat
  /\ Received \subseteq [name : Nat, domain : Seq(Nat) \cup {None}, path : Seq(Nat) \cup {None},
                         origin_domain : Seq(Nat) \ {<<>>}, origin_path : Seq(Nat),
                         secure : BOOLEAN, expires : Nat \cup {None}]
  /\ Requests \subseteq [host : Seq(Nat) \ {<<>>}, path : Seq(Nat)]

VARIABLES
  jar,   \* the cookies stored, by domain
  now,   \* the time
  last,  \* the value last added, by name, domain and path
  got    \* the request just made, if any, and the cookies written in it

vars == <<jar, now, last, got>>

TypeOf == [name : Nat, value : Values, domain : Seq(Nat) \cup {None}, path : Seq(Nat) \cup {None},
           origin_domain : Seq(Nat), origin_path : Seq(Nat), secure : BOOLEAN,
           expires : Nat \cup {None}]

-----------------------------------------------------------------------------
(* Cookies and their order.                                                *)

DomainOf(c) == IF c.domain = None THEN c.origin_domain ELSE c.domain
PathOf(c)   == IF c.path = None THEN c.origin_path ELSE c.path

\* Mutant: a cookie is filed under the domain that sent it.
HomeAtOrigin(c) == c.origin_domain

\* The list a cookie is filed in.
Home(c) == DomainOf(c)

Identity(c) == <<c.name, DomainOf(c), PathOf(c)>>

\* operator< of strings.
Before(s, t) ==
  \E i \in 1..Len(t) :
    /\ IsPrefix(SubSeq(t, 1, i - 1), s)
    /\ Len(s) < i \/ s[i] < t[i]

Less(c, d) ==
  c.name < d.name \/ Before(DomainOf(c), DomainOf(d)) \/ Before(PathOf(c), PathOf(d))

Expired(c) == c.expires # None /\ now > c.expires

-----------------------------------------------------------------------------
(* A std::set: a function from positions to cookies.  The root is at 1, the *)
(* children of i are at 2i and 2i + 1.                                      *)

Empty == << >>

\* Where a position is from left to right.
Rank == <<8, 4, 12, 2, 6, 10, 14, 1, 3, 5, 7, 9, 11, 13, 15>>

Smaller(tree, g) == {i \in DOMAIN tree : Rank[i] < Rank[g]}

\* The node that is right of exactly k others.
NodeAt(tree, k) == CHOOSE i \in DOMAIN tree : Cardinality(Smaller(tree, i)) = k

InOrder(tree) == [k \in 1..Cardinality(DOMAIN tree) |-> tree[NodeAt(tree, k - 1)]]

\* The only red-black tree of three nodes.
Balanced(s) == [i \in 1..3 |-> s[<<2, 1, 3>>[i]]]

\* Down from a position to one that is not among the nodes, to the left at lefts.  Four
\* nodes are on three levels.
Descend(nodes, from, lefts) ==
  LET Down(i) == IF i \notin nodes THEN i ELSE IF i \in lefts THEN 2 * i ELSE 2 * i + 1
  IN Down(Down(Down(from)))

Above(tree, c) == {i \in DOMAIN tree : Less(c, tree[i])}
Under(tree, c) == {i \in DOMAIN tree : Less(tree[i], c)}

\* The place insert() finds for c, and the node before it.
Gap(tree, c) == Descend(DOMAIN tree, 1, Above(tree, c))
Predecessor(tree, g) ==
  CHOOSE i \in Smaller(tree, g) : \A j \in Smaller(tree, g) : Rank[j] <= Rank[i]

\* insert() finds a cookie it takes for c.
Found(tree, c) ==
  LET g == Gap(tree, c)
  IN Smaller(tree, g) # {} /\ ~Less(tree[Predecessor(tree, g)], c)

Place(tree, g, c) ==
  LET new == [i \in DOMAIN tree \cup {g} |-> IF i = g THEN c ELSE tree[i]]
  IN IF Cardinality(DOMAIN new) = 3 THEN Balanced(InOrder(new)) ELSE new

Insert(tree, c) == IF Found(tree, c) THEN tree ELSE Place(tree, Gap(tree, c), c)

Without(tree, i) == Restrict(tree, DOMAIN tree \ {i})

\* The node at i is erased: a child takes the place of the root.
EraseAt(tree, i) ==
  LET n    == Cardinality(DOMAIN tree)
      heir == IF 3 \in DOMAIN tree THEN 3 ELSE 2
  IN IF n = 4 THEN Balanced(InOrder(Without(tree, i)))
     ELSE IF n > 1 /\ i = 1 THEN [Without(tree, heir) EXCEPT ![1] = tree[heir]]
     ELSE Without(tree, i)

EraseNth(tree, k) == EraseAt(tree, NodeAt(tree, k))

\* equal_range() starts from a node that is neither less nor greater than c, and
\* looks on the way down first for those less.
Match(tree, c) ==
  Descend(Above(tree, c) \cup Under(tree, c), 1, DOMAIN tree \ Under(tree, c))

\* erase() by key: of all cookies from lower_bound() to upper_bound(), if any.
EraseKey(tree, c) ==
  LET m     == Match(tree, c)
      lower == Descend(DOMAIN tree, 2 * m, DOMAIN tree \ Under(tree, c))
      upper == Descend(DOMAIN tree, 2 * m + 1, Above(tree, c))
      first == Cardinality(Smaller(tree, lower))
      count == Cardinality(Smaller(tree, upper)) - first
  IN IF m \in DOMAIN tree THEN FoldLeft(EraseNth, tree, [k \in 1..count |-> first]) ELSE tree

InsertAll(tree, s) == FoldLeft(Insert, tree, s)

\* Mutant: an existing cookie is kept.
ListAddOnce(tree, c) == Insert(tree, c)

\* cookies_list_t::add(): an existing cookie is replaced.
ListAdd(tree, c) ==
  IF Found(tree, c) THEN Insert(EraseAt(tree, Predecessor(tree, Gap(tree, c))), c)
  ELSE Insert(tree, c)

-----------------------------------------------------------------------------
(* Domains.                                                                *)

\* A domain without its first n labels.
Cut(domain, n) == SubSeq(domain, n + 1, Len(domain))

\* Mutant: a single label only is public.
IsPublicLabel(domain) == Len(domain) = 1

IsPublic(domain) == domain \in Addresses \/ Len(domain) = 1 \/ domain = PublicSuffix

\* One of the n domains passed on the way up is public, or the last is a label.
PublicOnTheWay(origin, n) ==
  (\E i \in 0..(n - 1) : IsPublic(Cut(origin, i))) \/ Len(Cut(origin, n)) = 1

Covers(domain, origin, n) ==
  ~IsPublic(domain) /\ ~PublicOnTheWay(origin, n) /\ domain = Cut(origin, n)

\* The same domain, or one below the other; neither public.
DomainMatched(domain, origin) ==
  LET n == Len(domain) - Len(origin)
  IN \/ n = 0 /\ domain = origin
     \/ n < 0 /\ Covers(domain, origin, -n)
     \/ n > 0 /\ Covers(origin, domain, n)

-----------------------------------------------------------------------------
(* Paths.                                                                  *)

\* std::string::compare(): the difference of the first two bytes that differ,
\* or else of the lengths.
Compare(s, t) ==
  LET differ == {i \in 1..Len(s) : i <= Len(t) /\ s[i] # t[i]}
  IN IF differ = {} THEN Len(s) - Len(t)
     ELSE LET i == Min(differ) IN s[i] - t[i]

\* is_path_matched(), which takes compare()'s result for a difference of lengths.
PathMatched(path, asked) ==
  LET d == Compare(path, asked)
  IN \/ d = 0
     \/ /\ d < 0 /\ -d <= Len(asked)
        /\ \/ Last(path) = Slash
           \/ Len(asked) > Len(path) /\ asked[Len(path) + 1] = Slash
           \/ Len(asked) = Len(path) /\ Last(asked) = Slash

-----------------------------------------------------------------------------
(* The jar.                                                                *)

NoRequest == [host |-> <<>>, path |-> <<>>, cookies |-> {}]

Stored(domain) == IF domain \in DOMAIN jar THEN jar[domain] ELSE Empty

Count(domains) == Cardinality(UNION {{d} \X DOMAIN jar[d] : d \in domains})

\* A cookie of an answer, or of the caller.
Add ==
  \E r \in Received, v \in Values :
    LET c    == [f \in DOMAIN r \cup {"value"} |-> IF f = "value" THEN v ELSE r[f]]
        d    == Home(c)
        list == ListAdd(Stored(d), c)
    IN /\ DomainMatched(d, c.origin_domain)
       /\ Count(DOMAIN jar \ {d}) + Cardinality(DOMAIN list) <= Capacity
       /\ jar' = [e \in DOMAIN jar \cup {d} |-> IF e = d THEN list ELSE jar[e]]
       /\ last' = [i \in DOMAIN last \cup {Identity(c)} |->
                     IF i = Identity(c) THEN v ELSE last[i]]
       /\ now' = now /\ got' = NoRequest

\* The nodes of a list whose cookies the request may have: no Secure ones, as
\* make_request() leaves is_ssl at false.
Eligible(tree, path) == {i \in DOMAIN tree : PathMatched(PathOf(tree[i]), path) /\ ~tree[i].secure}

Outdated(tree) == {i \in DOMAIN tree : Expired(tree[i])}

Fresh(tree, path) == InOrder(Restrict(tree, Eligible(tree, path) \ Outdated(tree)))

\* Mutant: all are taken for expired.
StaleAll(tree, path) == InOrder(Restrict(tree, Eligible(tree, path)))

Stale(tree, path) == InOrder(Restrict(tree, Eligible(tree, path) \cap Outdated(tree)))

\* get_inner(): what it returns, and what it leaves.
Inner(domain, path) == InOrder(InsertAll(Empty, Fresh(Stored(domain), path)))
Pruned(domain, path) ==
  FoldLeft(EraseKey, jar[domain], InOrder(InsertAll(Empty, Stale(jar[domain], path))))

\* Mutant: get() stops before the public domain.
VisitedBelowPublic(host) ==
  {i \in 0..(Len(host) - 1) : \A j \in 0..i : ~IsPublic(Cut(host, j))}

\* The host and its parents, up to the first that is public.
Visited(host) == {i \in 0..(Len(host) - 1) : \A j \in 0..(i - 1) : ~IsPublic(Cut(host, j))}

\* cookies_list_t::to_string(): of cookies of one name, whatever their domain and path,
\* the last in the list is written.
OnePerName(s) ==
  {s[k] : k \in {i \in 1..Len(s) : \A j \in (i + 1)..Len(s) : s[j].name # s[i].name}}

\* make_request() writes what cookies_t::get() returns.
Get ==
  \E r \in Requests :
    LET levels == [k \in 1..Cardinality(Visited(r.host)) |-> Cut(r.host, k - 1)]
        lists  == [k \in DOMAIN levels |-> Inner(levels[k], r.path)]
    IN /\ got' = [host |-> r.host, path |-> r.path,
                  cookies |-> OnePerName(InOrder(FoldLeft(InsertAll, Empty, lists)))]
       /\ jar' = [d \in DOMAIN jar |->
                    IF d \in ToSet(levels) THEN Pruned(d, r.path) ELSE jar[d]]
       /\ UNCHANGED <<now, last>>

Tick == now < MaxNow /\ now' = now + 1 /\ got' = NoRequest /\ UNCHANGED <<jar, last>>

Init ==
  /\ jar = << >> /\ now = 0 /\ last = << >>
  /\ got = NoRequest

Next == Add \/ Get \/ Tick

Spec == Init /\ [][Next]_vars

-----------------------------------------------------------------------------
(* Properties.                                                             *)

TypeOK ==
  /\ \A d \in DOMAIN jar :
       /\ InOrder(jar[d]) \in Seq(TypeOf) /\ Len(InOrder(jar[d])) <= Capacity
       /\ \A c \in ToSet(InOrder(jar[d])) : DomainOf(c) = d
  /\ now \in 0..MaxNow
  /\ got.cookies \subseteq TypeOf
  /\ \A c, e \in got.cookies : c.name = e.name => c = e

\* A cookie reaches only hosts of its domain, and of the site it is from: host and
\* origin have a domain in common that is not public, or the domain set it itself.
SentToItsSite ==
  \A c \in got.cookies :
    /\ DomainOf(c) \in Suffixes(got.host)
    /\ \/ DomainOf(c) = c.origin_domain
       \/ \E d \in Suffixes(got.host) \cap Suffixes(c.origin_domain) : Len(d) > 1 /\ d # PublicSuffix

\* RFC 6265, 5.1.4: the paths are identical, or the cookie's is a prefix of the other
\* that ends at a slash.
Below(asked, path) ==
  /\ IsPrefix(path, asked)
  /\ path = asked \/ Last(path) = Slash \/ asked[Len(path) + 1] = Slash

Due(c, host, path) ==
  /\ DomainOf(c) \in Suffixes(host) /\ Below(path, PathOf(c)) /\ ~Expired(c) /\ ~c.secure
  /\ \A d \in Suffixes(host) : Len(d) > Len(DomainOf(c)) => d # PublicSuffix /\ d \notin Addresses

\* All cookies in the jar.
AllStored == UNION {ToSet(InOrder(jar[d])) : d \in DOMAIN jar}

\* Cookies the host may have.
MayGoTo(host) == {c \in AllStored : DomainOf(c) \in Suffixes(host) /\ ~Expired(c) /\ ~c.secure}

\* Of all the cookies due to a request, of its domain and those above, each is written
\* in it, whatever the order in which the sets hold them, but for one: where cookies the
\* host may have share a name, one of them goes and stands for the others.
AllDueSent ==
  [][Get => \A c \in AllStored :
       Due(c, got'.host, got'.path) =>
         \E e \in got'.cookies \cap MayGoTo(got'.host) : e.name = c.name]_vars

\* All cookies ever set for a domain have one path.
OnePath(domain) == \A i, j \in DOMAIN last : i[2] = domain /\ j[2] = domain => i[3] = j[3]

\* Where all cookies have one path the order is one, and a list holds each once, as
\* it was last set.
LatestOnOnePath ==
  \A d \in DOMAIN jar : OnePath(d) =>
    LET s == InOrder(jar[d])
    IN \A k \in 1..Len(s) :
         /\ s[k].value = last[Identity(s[k])]
         /\ \A l \in 1..Len(s) : Identity(s[k]) = Identity(s[l]) => k = l

\* There, too, a cookie is only ever taken when it is expired.  With two paths erase()
\* may take others along, as they need not be in order.
NothingLost ==
  [][\A d \in DOMAIN jar : OnePath(d) =>
       \A c \in ToSet(InOrder(jar[d])) :
         Expired(c) \/ \E e \in ToSet(InOrder(jar'[d])) : Identity(e) = Identity(c)]_vars

(* What the tests say and the code does not do.                            *)

\* "AddExistsCookie": a cookie set again replaces the one there was.
LatestKept ==
  \A d \in DOMAIN jar : \A c \in ToSet(InOrder(jar[d])) : c.value = last[Identity(c)]
=============================================================================
