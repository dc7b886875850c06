------------------------------ MODULE MCCookies ------------------------------
(* Instances of Cookies for TLC: domains, paths, and the cookies set.       *)
EXTENDS Cookies

CONSTANTS v1, v2

\* Labels, by their order: com, google, a cloud that lets out domains, youtube, a
\* shop in the cloud, www.
Com     == <<1>>
Google  == <<2, 1>>
Cloud   == <<3, 1>>
Youtube == <<4, 1>>
Shop    == <<5, 3, 1>>
Www     == <<6, 2, 1>>
Host    == <<9, 9, 9, 9>>

Hosts   == {Host}

Root == <<Slash>>
Foo  == <<Slash, 97>>
Bar  == <<Slash, 98>>

Cookie(name, origin, domain, path) ==
  [name |-> name, domain |-> domain, path |-> path, origin_domain |-> origin,
   origin_path |-> Root, secure |-> FALSE, expires |-> None]

\* Three cookies of one domain, two of one path.
ThreeCookies == {Cookie(3, Google, None, Foo), Cookie(1, Google, None, Bar),
                 Cookie(2, Google, None, Bar)}

\* Cookies for the domain itself, for one above and one below, for another site, for
\* public domains by themselves and by others, for an address; one Secure, two that
\* expire.  The address sets one for part of itself.
AllCookies ==
  {Cookie(1, Google, None, Foo), Cookie(2, Google, None, Bar),
   [Cookie(2, Www, Google, Foo) EXCEPT !.expires = 0], Cookie(1, Google, Www, None),
   [Cookie(1, Www, None, None) EXCEPT !.secure = TRUE],
   Cookie(1, Google, Youtube, None), Cookie(1, Google, Com, None), Cookie(1, Com, None, None),
   Cookie(1, Shop, Cloud, None), [Cookie(1, Cloud, None, None) EXCEPT !.expires = 0],
   Cookie(1, Host, None, None), Cookie(1, Host, <<9, 9>>, None)}

Asked(host, path) == [host |-> host, path |-> path]

AllRequests ==
  {Asked(Google, Foo), Asked(Google, Bar), Asked(Www, Foo \o Bar), Asked(Shop, Root),
   Asked(<<7, 3, 1>>, Root), Asked(Host, Root)}

GoogleRequests == {Asked(Google, Foo), Asked(Google, Bar \o Bar)}
=============================================================================
