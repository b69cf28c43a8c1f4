CONSTANTS
  n1 = n1
  n2 = n2
  None = None
  Sweeper = Sweeper
  Pubkeys = {k1, k2}
  PeerIds = {p1, p2, p3}
  Networks = {n1}
  Slots = {0}
  NetworkSlot <- MCNetworkSlot
  MaxIdx = 1
  Requestable <- AskApp
  LegacyInfra = None
  Validator = TRUE
  Workers = {t1}
  StateDir = TRUE
  Faults = TRUE
  FirstShard = {p1}
  MaxOps = 3
  MaxCrashes = 1
SYMMETRY ShardSymmetry
SPECIFICATION Spec
INVARIANTS UlaUnique AllocatorCoversRoster
CHECK_DEADLOCK FALSE
