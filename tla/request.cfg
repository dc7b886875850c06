SPECIFICATION Spec
CONSTANTS
  alpha = alpha
  beta = beta
  root = root
  page = page
  plain = plain
  spaced = spaced
  one = one
  slash = slash
  pair = pair
  login = login
  other = other
  None = None
  Domains = {alpha, beta}
  Paths = {root, page}
  DefaultPath = root
  Names = {plain, spaced}
  Words = {one, slash, pair}
  Special = {spaced, slash, pair}
  Joined = {pair}
  First = one
  Extra = plain
  Sizes = {0, 1}
  Logins = {login, other}
  Urls <- Places
  Given <- GivenParams
  Options = {"url", "protocol", "domain", "port", "path", "query", "params", "data", "gzip", "auth", "headers"}
  MaxSets = 2
  MaxSends = 2
INVARIANTS TypeOK LocationKept 
PROPERTIES SameAgain ChangesAppear
CHECK_DEADLOCK FALSE
