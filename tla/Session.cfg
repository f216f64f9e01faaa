SPECIFICATION FairSpec
CONSTANTS
  Lines = {l1, l2, l3}
  Nobody = Nobody
  Kinds = {"call", "watch", "malformed", "garbled"}
  InRoom = 1
  OutRoom = 1
  MaxEvents = 1
INVARIANTS
  FramesWhole
  ReturnMeansAnswered
  WaitsAreForTheLiving
PROPERTIES
  CallsAnswered
  RequestsAreTaken
  KeepsPromise
CHECK_DEADLOCK FALSE
