SPECIFICATION FairSpec
CONSTANTS
    Names <- McNames
    NoName = NoName
    Images <- McImages
    Policies <- McLivePolicies
    Pids = {1}
    Backed <- McBacked
    MaxClients = 1
    Agreements = {TRUE}
    MaxStarts = 2
    NoProcess = NoProcess
    NoCall = NoCall
    MinPasses = 1
    MaxPasses = 2
PROPERTIES
    AgreeingServiceClears
    CommandLoopFree
    StopEnds
CHECK_DEADLOCK FALSE
