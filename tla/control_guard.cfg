SPECIFICATION FairSpec
CONSTANTS
  c1 = c1
  c2 = c2
  a1 = a1
  a2 = a2
  Unset = Unset
  Commands = {c1}
  Unverified = {}
  Addresses = {a1, a2}
  Configs <- Sticky
  DiskFaults = FALSE
  MaxIds = 4
  MaxPosts <- Never
  MaxLosses = 1
  MaxForgets = 1
  MaxMoves = 0
  MaxCrashes = 0
  MaxDisturbances = 2

PROPERTY RetriesReregister
