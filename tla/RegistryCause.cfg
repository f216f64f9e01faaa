SPECIFICATION Spec
CONSTANTS
  Names = {n1}
  Sittings = {s1, s2}
  Hosts = {h1}
  Finished = Finished
  Nothing = Nothing
  QuickEnds = FALSE
  MaxDeaths = 0
INVARIANTS
  StateAgrees
CHECK_DEADLOCK FALSE
