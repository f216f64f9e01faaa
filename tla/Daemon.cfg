SPECIFICATION Spec
CONSTANTS
    Daemons = {d1, d2, d3}
    Groups = {g1, g2}
    NoGroup = NoGroup
    Own = Own
    Litter = Litter
    Nothing = Nothing
    Overlap = FALSE
INVARIANTS
    ServesWhoWasNamed
    NoOtherGroup
    LitterIsNoObstacle
PROPERTY
    OnlyTheDeadAreCleared
CHECK_DEADLOCK FALSE
