SPECIFICATION MCSpec
CONSTANTS
  h1 = h1
  h2 = h2
  n1 = n1
  n2 = n2
  s1 = s1
  s2 = s2
  u = u
  w = w
  Node = {n1, n2}
  Sampled = {s1, s2}
  Reply <- MCReply
  Bootstrap = {n1}
  MaxNodes = 2
  QueueSize = 2
  BatchSize = 3
  TxnIds = 65536
  MaxLate = 0
  CrawlFaults = 1
  Peer = {p1, p2}
  Honest = {p1}
  Info = 3
  PieceSize = 2
  MaxSize = 3
  Concurrent = 2
  FoundLimit = 2
  CacheLimit = 1
  Hash = {h1, h2}
  PoolSize = 1
  Rotate = 1
  RefreshSize = 1
  Trackers <- MCTrackers
  Defaults = {w}
  Web = {w}
  Udp = {u}
  MaxFaults = 1
INVARIANTS WorkersTypeOK FetchIsSound ThreeStrikes
PROPERTIES OnlyAnswersAreUsed CrawlProgresses RaceEnds NamedIsShown
CHECK_DEADLOCK FALSE
