SPECIFICATION Spec
CONSTANTS
  Names = {n1}
  Sittings = {s1, s2}
  Hosts = {h1, h2}
  Finished = Finished
  Nothing = Nothing
  QuickEnds = FALSE
  MaxDeaths = 1
INVARIANTS
  ReconnectingIsNotBlind
CHECK_DEADLOCK FALSE
