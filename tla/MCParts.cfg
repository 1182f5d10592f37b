SPECIFICATION PartsSpec
CONSTANTS
    DefaultPlanned = 4
    Day = 5
    CycleUnit = 10
    Ids <- MCIds
    Production = TRUE
    MinSamples = 3
    OeeInputs <- MCOee
    GroupInputs <- MCGroups
    PointSets <- MCPoints
    Patterns <- MCPatterns
    TopicsSeen <- MCTopics
    Requests <- MCRequests
    Forms <- MCForms
    Askings <- MCAskings
    IssuedRows <- MCRows
    RuleInputs <- MCRuleInputs
    Now = 6
    Loads = {l1, l2, l3}
    Ttl = 2
    MaxEdits = 2
    Epoch = 2
    MaxClock = 5
    Attempts = {a1, a2}
    Threshold = 2
    CapSeconds = 5
    MaxFailures = 5
    Replicas = {b1, b2}
    MaxBoots = 4
    MaxChecks = 4
    Changes = 2
    WireBound = 2
    Closers = {pg}
INVARIANTS
    OeeIsGoodTime
    GroupConservesTime
    DowntimeWithinRange
    MatchesIsMqtt
    CookieActsWithMirror
    ChangesAreAudited
    InterconnectionNeverDecides
    StatisticalNeedsSamples
    ServedRulesAreRecent
    LockOutlastsLastFailure
    TasksPerReplica
    LatestCheckDecides
PROPERTIES
    ExitZeroLosesNothing
CHECK_DEADLOCK FALSE
