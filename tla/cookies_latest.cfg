SPECIFICATION Spec
CONSTANTS
  None = None
  v1 = v1
  v2 = v2
  Values = {v1, v2}
  Received <- ThreeCookies
  Requests <- GoogleRequests
  PublicSuffix <- Cloud
  Addresses <- Hosts
  Capacity = 4
  MaxNow = 0
INVARIANT LatestKept
CHECK_DEADLOCK FALSE
