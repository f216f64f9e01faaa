SPECIFICATION FairSpec
CONSTANTS
  Lines = {l1, l2, l3}
  Nobody = Nobody
  Kinds = {"call", "malformed"}
  InRoom = 1
  OutRoom = 1
  MaxEvents = 1
PROPERTY WritingEnds
CHECK_DEADLOCK FALSE
