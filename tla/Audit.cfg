SPECIFICATION FairSpec
CONSTANTS
    Calls = {c1, c2, c3}
    Processes = {p1, p2}
    Pieces = 3
    Free = Free
    NoProcess = NoProcess
INVARIANTS
    OwnLinesWhole
    GluedOnlyToTheCut
PROPERTIES
    KeepsPromise
    CallsReturn
CHECK_DEADLOCK FALSE
