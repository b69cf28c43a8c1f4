SPECIFICATION FairSpec
CONSTANTS
  Peers <- MCPeers
  Starts <- MCStarts
  Selves <- MCSelves
  Sources <- MCSources
  None = None
  RingCap = 1
  MaxObjects = 6
  MaxChanges = 2
PROPERTIES ShowsRoster NoSelfSession AppsFollow
