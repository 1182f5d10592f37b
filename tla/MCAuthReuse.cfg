SPECIFICATION Spec
CONSTANTS
    Users = {admin, operator}
    Admin = admin
    Requests = {r1, r2, r3}
    Tokens = {t1, t2, t3}
    None = None
    Ttl = 1
    MaxClock = 2
SYMMETRY Symmetry
INVARIANTS
    ReuseRevokesFamily
CHECK_DEADLOCK FALSE
