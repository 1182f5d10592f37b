SPECIFICATION Spec
CONSTANTS
    mario = mario
    Mario = Mario
    Ids = {i1, i2}
    Emails = {admin, mario}
    Lower <- MCLower
    Admin = admin
    Erasures = {e1, e2}
    Sweeps = {s1}
    None = None
    Grace = 1
    AccessTtl = 0
    MaxClock = 1
PROPERTIES
    FinalizesExpiredOnly
CHECK_DEADLOCK FALSE
