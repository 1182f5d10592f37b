SPECIFICATION LiveSpec
CONSTANTS
    Changes = 1
    WireBound = 2
    Closers = {pg}
    Alerts = {a1}
    Engines = {e1, e2}
    Interval = 2
    MaxStops = 2
    Slots = {s1, s2}
    Topics = {"t1", "t2"}
    None = None
    Ids = {i1, i2}
    Emails = {admin}
    Lower <- MCLower
    Admin = admin
    Erasures = {e1}
    Sweeps = {s1, s2}
    Grace = 1
    AccessTtl = 0
    MaxClock = 3
INVARIANTS
    TwoTiersTakeAnInterval
PROPERTIES
    StatusCatchesUp
    ShutdownEnds
    ImplementsTicket
    OpenEscalates
    FollowsTopics
    PendingIsErased
CHECK_DEADLOCK FALSE
