SPECIFICATION Spec
CONSTANTS
    DefaultPlanned = 4
    Day = 5
    CycleUnit = 10
    Ids <- MCIds
    Production = TRUE
    MinSamples = 3
    OeeInputs <- MCOee
    GroupInputs <- MCGroups
    PointSets <- MCPoints
    Patterns <- MCPatterns
    TopicsSeen <- MCTopics
    Requests <- MCRequests
    Forms <- MCForms
    Askings <- MCAskings
    IssuedRows <- MCRows
    RuleInputs <- MCRuleInputs
    Now = 6
INVARIANTS
    GenuineVerifies
CHECK_DEADLOCK FALSE
