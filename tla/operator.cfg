SPECIFICATION MCSpec
CONSTANTS
  OctetXor <- ByteXor
  tag = tag
  net = net
  sys = sys
  a = a
  b = b
  None = None
  Unread = Unread
  Symbol <- Letters
  NetPrefix <- Net
  System <- Sys
  Tenants <- TwoTenants
  Documents <- SomeDocuments
  Operators = {o1, o2, o3}
  HasToken = TRUE
  MaxRequests = 6
  n1 = n1
  n2 = n2
  home = home
  hidden = hidden
  Nodes <- TwoNodes
  Advertised <- OneAdvertises
  Home <- BothPublic
  Flaggable <- FirstPair
  RelayOnly = {}
  Origins = {home, hidden}
  Public = {home}
  Proactive = TRUE
  Base = 2
  Cap = 3
  Ttl = 3
  Window = 1
  MaxNew = 1
  Width = 4
  MaxLag = 1
  MaxPeers = 3
  MaxChanges = 1
INVARIANTS TenantsApart Announced
PROPERTIES UpdatesSeen EmitsSpaced PairsRetried TrackerForgets
CHECK_DEADLOCK FALSE
