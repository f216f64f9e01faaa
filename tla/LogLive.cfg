SPECIFICATION FairSpec
CONSTANTS
  NoHost = NoHost
  Hosts = {h1}
  Clients = {c1}
  Capacity = 1
  MaxVersion = 2
  MaxNotices = 2
  MaxOpens = 2
  TrustFrames = FALSE
PROPERTIES
  FollowerEnds
  WatchEnds
  TailCatchesUp
CHECK_DEADLOCK FALSE
