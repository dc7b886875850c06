SPECIFICATION Spec
CONSTANTS
  None = None
  v1 = v1
  v2 = v2
  Values = {v1, v2}
  Received <- AllCookies
  Requests <- AllRequests
  PublicSuffix <- Cloud
  Addresses <- Hosts
  Capacity = 3
  MaxNow = 1
INVARIANTS TypeOK SentToItsSite LatestOnOnePath
PROPERTIES AllDueSent NothingLost
CHECK_DEADLOCK FALSE
