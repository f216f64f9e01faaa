SPECIFICATION Spec
CONSTANTS
  Names = {n1}
  Sittings = {s1, s2}
  Hosts = {h1}
  Finished = Finished
  Nothing = Nothing
  QuickEnds = TRUE
  MaxDeaths = 0
INVARIANTS
  GoingIsHeld
CHECK_DEADLOCK FALSE
