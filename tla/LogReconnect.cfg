SPECIFICATION Spec
CONSTANTS
  NoHost = NoHost
  Hosts = {h1, h2}
  Clients = {c1}
  Capacity = 1
  MaxVersion = 2
  MaxNotices = 2
  MaxOpens = 2
  TrustFrames = FALSE
SYMMETRY HostSymmetry
INVARIANTS
  EveryEntryIsNews
  FinishedIsLast
  LogCatchesUp
  NumberMissesNothing
  CursorMissesNothing
  EndMeansOver
  EndIsTheWholeResult
  NobodySleepsThrough
PROPERTIES
  ImplementsFeed
CHECK_DEADLOCK FALSE
