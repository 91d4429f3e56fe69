SPECIFICATION FairSpec
CONSTANTS
  Hash = {h1, h2, h3}
  MaxDelta = 2
  Chunk = 1
  MaxClock = 3
  MaxFaults = 2
INVARIANTS TypeOK SavedSequenceIsComplete
PROPERTIES SavedDeltasAreImmutable ExportableGetsMarked
CHECK_DEADLOCK FALSE
