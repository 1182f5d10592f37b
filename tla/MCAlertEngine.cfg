SPECIFICATION MCSpec
CONSTANTS
    Rules = {a, b}
    Editings <- NobodyOrOne
    MaxSamples = 4
    Confs <- MCConfs
    StateTtl = 1
    MaxKeys = 1
    Epoch = 2
    MaxClock = 4
INVARIANTS
    TypeOK
    StateBounded
PROPERTIES
    FiresOnlyAfterUnbrokenBreach
    FiresSpaced
    FiresOnlyAfterEnoughBreaches
CHECK_DEADLOCK FALSE
