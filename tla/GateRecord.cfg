SPECIFICATION FairSpec
CONSTANTS
  Old = Old
  Nobody = Nobody
  Requests = {r1, r2}
  Addresses = {inside, denied, beyond}
  Allowed = {inside, denied}
  Denied = {denied}
  Ceiling = 1
INVARIANT RecordMeansRan
CHECK_DEADLOCK FALSE
