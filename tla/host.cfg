SPECIFICATION Spec
CONSTANTS
  primary = primary
  lifeline = lifeline
  Joiners <- MCJoiners
  Scoped <- MCScoped
  Trusting <- MCJoiners
  Commanded <- MCCommanded
  peer = peer
  Visible <- MCVisible
  Distro = Distro
  None = None
  Torn = Torn
  MaxPerWindow = 1
  Window = 1
  MaxStarts = 2
  MaxUpsets = 2
  Text <- MCText
  Number = {0}
  Keys = {key1}
  Ulas = {ula1}
  Ids = {id1}
  Addrs = {addr1}
  FixedInfra = {ula1}
  Null = Null
  Malformed = Malformed
  Base64 <- MCShow
  FromBase64 <- MCFromBase64
  Show <- MCShow
  ParseUla <- MCParseUla
  ParseId <- MCParseId
  ParseAddr <- MCParseAddr
  LookupHost <- MCLookupHost
  Trim <- MCTrim
INVARIANTS LeftClean LeaksReadopted 
PROPERTIES HostRepairs
CHECK_DEADLOCK FALSE
