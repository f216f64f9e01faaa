SPECIFICATION FairSpec
CONSTANTS
  Old = Old
  Nobody = Nobody
  Requests = {r1, r2}
  Addresses = {inside, denied, beyond}
  Allowed = {inside, denied}
  Denied = {denied}
  Ceiling = 1
INVARIANTS
  SlotsCounted
  CeilingHolds
  NothingUnaudited
  NothingOutside
  RefusalsAreClean
PROPERTIES
  SlotComesBack
  KeepsPromise
CHECK_DEADLOCK FALSE
