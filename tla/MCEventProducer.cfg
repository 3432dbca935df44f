SPECIFICATION FairSpec
CONSTANTS
    RawCapacity = 2
    OutputCapacity = 2
    MaxDrained = 1
    BaseInterval = 1
    MaxInterval = 2
    MaxSkew = 1
    MaxEvents = 4
    MaxFaults = 3
    MaxStarts = 2
INVARIANTS
    InOrder
    HealthyIsComplete
    NothingStranded
    StoppedIsQuiet
PROPERTIES
    EventsResume
CHECK_DEADLOCK FALSE
