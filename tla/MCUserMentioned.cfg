SPECIFICATION Spec
CONSTANTS
    mario = mario
    Mario = Mario
    Ids = {i1, i2}
    Emails = {admin, mario}
    Lower <- MCLower
    Admin = admin
    Erasures = {e1}
    Sweeps = {s1}
    None = None
    Grace = 1
    AccessTtl = 0
    MaxClock = 3
INVARIANTS
    SweptIsNotMentioned
CHECK_DEADLOCK FALSE
