SPECIFICATION Spec
CONSTANTS
    Names <- McNames
    NoName = NoName
    Images <- McImages
    Policies <- McListed
    Pids = {1, 2}
    Backed <- McBacked
    MaxClients = 1
    Agreements = {TRUE}
    MaxStarts = 2
    NoProcess = NoProcess
    NoCall = NoCall
    MinPasses = 1
    MaxPasses = 2
PROPERTIES
    AgreeingServiceClears
    RespawnsOutnumberPasses
CHECK_DEADLOCK FALSE
