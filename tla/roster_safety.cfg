CONSTANTS
  n1 = n1
  n2 = n2
  None = None
  Sweeper = Sweeper
  Pubkeys = {k1, k2}
  PeerIds = {p1, p2}
  Networks = {n1, n2}
  Slots = {0, 1}
  NetworkSlot <- MCNetworkSlot
  MaxIdx = 2
  Requestable <- AskInfra
  LegacyInfra = None
  Validator = TRUE
  Workers = {t1, t2}
  StateDir = FALSE
  Faults = FALSE
  FirstShard = {}
  MaxOps = 3
  MaxCrashes = 0
SYMMETRY ShardSymmetry
SPECIFICATION Spec
INVARIANTS UlaUnique AllocatorCoversRoster PubkeyIndexed
PROPERTY AddressStable
CHECK_DEADLOCK FALSE
