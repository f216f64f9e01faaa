SPECIFICATION FairSpec
CONSTANTS
  NoHost = NoHost
  Hosts = {h1}
  Clients = {c1}
  Capacity = 2
  MaxVersion = 1
  MaxNotices = 1
  MaxOpens = 1
  TrustFrames = FALSE
INVARIANT EmptyOnlyAtTheEnd
CHECK_DEADLOCK FALSE
