SPECIFICATION Spec
CONSTANTS
  c1 = c1
  c2 = c2
  a1 = a1
  a2 = a2
  Unset = Unset
  Commands = {c1, c2}
  Unverified = {}
  Addresses = {a1, a2}
  Configs <- Configured
  DiskFaults = TRUE
  MaxIds = 3
  MaxPosts <- FirstTwice
  MaxLosses = 1
  MaxForgets = 1
  MaxMoves = 1
  MaxCrashes = 1
  MaxDisturbances = 2
INVARIANTS RunsOnce ConfiguredAddressKept
PROPERTIES RecordedNeverRuns
