SPECIFICATION FairGossipSpec
CONSTANTS
  Hash = {h1, h2}
  Wanted = {h1, h2}
  MaxDelta = 1
  Chunk = 1
  MaxClock = 2
  MaxFaults = 1
  MaxDrops = 0
PROPERTIES SavedReachesReader
CHECK_DEADLOCK FALSE
