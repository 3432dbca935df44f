SPECIFICATION Spec
CONSTANTS
    Pids = {p1}
    Reports <- ReportsUsed
    Listings <- ListingsUsed
    NoTime = NoTime
    NoImage = NoImage
    NoKey = NoKey
    Second = 10
    QueueCapacity = 2
    MaxTime = 1
INVARIANTS
    ActiveIsCurrent
PROPERTIES
    YoungerStays
