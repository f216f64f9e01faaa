SPECIFICATION Spec
CONSTANTS
  Names = {n1, n2}
  Sittings = {s1, s2}
  Hosts = {h1}
  Finished = Finished
  Nothing = Nothing
  QuickEnds = FALSE
  MaxDeaths = 1
INVARIANTS
  NamesFindTheirScan
  OverMeansReport
PROPERTIES
  KeepsPromise
SYMMETRY Alike
CHECK_DEADLOCK FALSE
