SPECIFICATION MCSpec
CONSTANTS
  a = a
  b = b
  Client = {c1, c2}
  TorrentFile = {f1, f2}
  ImportSource = {"import", "upload", "get_peers"}
  MaxRequests = 3
  LifeFaults = 2
  DeviceKey = {k1, k2}
  Putter = {c1, c2}
  Horizon = 2
  MaxPuts = 4
  User = {u1, u2}
  MaxTalk = 4
  MaxComments = 2
  MaxRelist = 1
  IdKey = {k1, k2, k3}
  MaxMishaps = 2
  Idle = 2
  Unread = 2
  MaxClient = 4
  LogThread = {t1, t2}
  LogSocket = {b1}
  MaxLines = 2
  Channel = 1
  MaxLogged = 3
  MaxToggles = 1
  RoomNick <- MCRoomNick
  OurNick <- MCOurNick
  MinBackoff = 1
  MaxBackoff = 3
  MaxPresence = 4
  XmppFaults = 3
  Deployments <- MCDeployments
  Enabled = {"http", "sync_api", "ingest", "resolver", "refresher", "sampler",
             "announcer", "xmpp", "sync"}
  NodeFaults = 1
  MaxEpoch = 3
  EpochFaults = 2
INVARIANT SubsequentWritesUseKey
CHECK_DEADLOCK FALSE
