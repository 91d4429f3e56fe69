SPECIFICATION FairSafeSpec
CONSTANTS
  Hash = {h1, h2}
  Wanted = {h1}
  MaxDelta = 2
  Chunk = 1
  MaxClock = 2
  MaxFaults = 0
  MaxDrops = 2
INVARIANTS GossipTypeOK WatermarkCovers MarkedIsPublished
PROPERTIES SavedReachesReader SessionEnds ImplementsLog ExportableGetsPublished
CHECK_DEADLOCK FALSE
