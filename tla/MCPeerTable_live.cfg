SPECIFICATION LiveSpec
CONSTANTS
  Contributor = {me, c1, c2}
  Url = {u1, u2}
  Undialable = {}
  BootUrls = {}
  BootId <- MCBootId
  NoPeer = NoPeer
  MaxPeers = 2
  Fanout = 1
  FailLimit = 2
  RepInitial = 2
  RepMax = 2
  Untrusted = 1
  Penalty = 1
  Bonus = 1
  Longevity = 1
  MaxSeq = 1
  MaxFaults = 0
PROPERTIES FailingPeerIsDropped WatermarkMonotone
CHECK_DEADLOCK FALSE
