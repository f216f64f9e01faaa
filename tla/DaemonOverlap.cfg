SPECIFICATION Spec
CONSTANTS
    Daemons = {d1, d2}
    Groups = {g1, g2}
    NoGroup = NoGroup
    Own = Own
    Litter = Litter
    Nothing = Nothing
    Overlap = TRUE
PROPERTY
    OnlyTheDeadAreCleared
CHECK_DEADLOCK FALSE
