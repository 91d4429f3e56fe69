SPECIFICATION Spec
CONSTANTS
  Hash = {h1, h2, h3}
  MaxDelta = 2
  Chunk = 1
  MaxClock = 3
  MaxFaults = 1
SYMMETRY Symmetry
INVARIANTS MarkedIsPublished
CHECK_DEADLOCK FALSE
