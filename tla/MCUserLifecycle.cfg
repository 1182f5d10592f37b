SPECIFICATION Spec
CONSTANTS
    mario = mario
    Mario = Mario
    Ids = {i1, i2}
    Emails = {admin, mario}
    Lower <- MCLower
    Admin = admin
    Erasures = {e1, e2}
    Sweeps = {s1, s2}
    None = None
    Grace = 1
    AccessTtl = 0
    MaxClock = 3
SYMMETRY Symmetry
INVARIANTS
    TypeOK
    SweptIsNoActor
PROPERTIES
    RestoredKeepsGrace
    DeadlineNeverMoves
CHECK_DEADLOCK FALSE
