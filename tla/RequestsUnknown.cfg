SPECIFICATION Spec
CONSTANTS
  MaxU8 = 2
  MaxU16 = 4
  MaxU32 = 6
INVARIANTS
  UnknownKeysAreRefused
CHECK_DEADLOCK FALSE
