SPECIFICATION FairSpec
CONSTANTS
  NoHost = NoHost
  Hosts = {h1, h2}
  Clients = {c1}
  Capacity = 2
  MaxVersion = 1
  MaxNotices = 2
  MaxOpens = 2
  TrustFrames = TRUE
INVARIANT NumberMissesNothing
CHECK_DEADLOCK FALSE
