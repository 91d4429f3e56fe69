SPECIFICATION Spec
CONSTANTS
  Contributor = {me, c1, c2}
  Url = {u1, u2}
  Undialable = {}
  BootUrls = {}
  BootId <- MCBootId
  NoPeer = NoPeer
  MaxPeers = 2
  Fanout = 2
  FailLimit = 2
  RepInitial = 1
  RepMax = 1
  Untrusted = 0
  Penalty = 1
  Bonus = 1
  Longevity = 1
  MaxSeq = 0
  MaxFaults = 0
INVARIANTS DedupByUrl
CHECK_DEADLOCK FALSE
