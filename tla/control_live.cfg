SPECIFICATION FairSpec
CONSTANTS
  c1 = c1
  c2 = c2
  a1 = a1
  a2 = a2
  Unset = Unset
  Commands = {c1, c2}
  Unverified = {c2}
  Addresses = {a1}
  Configs <- Sticky
  DiskFaults = FALSE
  MaxIds = 4
  MaxPosts <- Once
  MaxLosses = 1
  MaxForgets = 1
  MaxMoves = 0
  MaxCrashes = 1
  MaxDisturbances = 2

PROPERTIES Recovers CommandsSettle
