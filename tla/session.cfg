SPECIFICATION Spec
CONSTANTS
  alpha = alpha
  beta = beta
  eighty = eighty
  other = other
  root = root
  page = page
  None = None
  c1 = c1
  c2 = c2
  Domains = {alpha, beta}
  Ports = {eighty, other}
  Paths = {root, page}
  DefaultPort = eighty
  DefaultPath = root
  Cookies = {c1}
  Urls <- Hosts
  RedirectCount = 2
  Options = {"url","domain","port","path","headers","behaviour","cookies"}
  MaxChanges = 1
  MaxSends = 2
INVARIANTS TypeOK RightPeer HostMatches CookiesAtHome
PROPERTIES LastCookiesSent CacheSkips
CHECK_DEADLOCK FALSE
