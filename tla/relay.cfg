SPECIFICATION FairSpec
CONSTANTS
  Keys = {"a", "b"}
  Traffic <- OneWay
  Attached <- Up
  Disturbed = {"b"}
  None = None
  Relays = 1
  HiCap = 1
  LoCap = 1
  SpoolCap = 1
  Proactive = TRUE
  MaxFrames = 2
  MaxEvents = 1
  MaxConns = 5
INVARIANTS FrameOnce NewestServes
PROPERTIES SpoolDrains Reattaches
CHECK_DEADLOCK FALSE
