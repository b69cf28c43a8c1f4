SPECIFICATION FairSpec
CONSTANTS
  Nodes = {1, 2}
  RelayOnly = {}
  NoRelay = {}
  Candidates <- One
  Traffic <- AllOrNone
  Networks <- AllOrNone
  PathTtl = 3
  HoleTtl = 2
  KeepAfter = 2
  Silence = 6
  BackoffBase = 1
  BackoffCap = 5
  RearmBase = 1
  RearmCap = 2
  MaxFlight = 1
  MaxEvents = 1
INVARIANT BlindBounded
PROPERTIES Delivers Upgrades TunnelsHeal
