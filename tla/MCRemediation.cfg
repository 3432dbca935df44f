SPECIFICATION Spec
CONSTANTS
    Names <- McNames
    NoName = NoName
    Images <- McImages
    Policies <- McPolicies
    Pids = {1, 2}
    Backed <- McBacked
    MaxClients = 1
    Agreements = {TRUE, FALSE}
    MaxStarts = 1
    NoProcess = NoProcess
    NoCall = NoCall
    MinPasses = 1
    MaxPasses = 2
INVARIANTS
    ActiveMatches
    ClearMeansClear
PROPERTIES
    ServiceActsOnListed
    UserModeKillsRuled
    RespawnsOutnumberPasses
CHECK_DEADLOCK FALSE
