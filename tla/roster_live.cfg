CONSTANTS
  n1 = n1
  n2 = n2
  None = None
  Sweeper = Sweeper
  Pubkeys = {k1, k2}
  PeerIds = {p1, p2}
  Networks = {n1}
  Slots = {0}
  NetworkSlot <- MCNetworkSlot
  MaxIdx = 2
  Requestable <- AskHost
  LegacyInfra = None
  Validator = TRUE
  Workers = {t1, t2}
  StateDir = FALSE
  Faults = FALSE
  FirstShard = {}
  MaxOps = 2
  MaxCrashes = 0
SPECIFICATION FairSpec
PROPERTIES ViewConverges SilentPeerLeaves
CHECK_DEADLOCK FALSE
