SPECIFICATION Spec
CONSTANTS
  Contributor = {me, c1, c2}
  Url = {u1, u2, lo}
  Undialable = {lo}
  BootUrls = {lo}
  BootId <- MCBootId
  NoPeer = NoPeer
  MaxPeers = 2
  Fanout = 1
  FailLimit = 2
  RepInitial = 1
  RepMax = 1
  Untrusted = 0
  Penalty = 1
  Bonus = 1
  Longevity = 1
  MaxSeq = 0
  MaxFaults = 1
SYMMETRY Symmetry
INVARIANTS TypeOK TableBounded NoSelfPeer BootstrapPresent
  SnapshotIsConsistent
CHECK_DEADLOCK FALSE
