SPECIFICATION Spec
CONSTANTS
    Pids = {p1}
    Reports <- ReportsUsed
    Listings <- ListingsUsed
    NoTime = NoTime
    NoImage = NoImage
    NoKey = NoKey
    Second = 10
    QueueCapacity = 1
    MaxTime = 2
PROPERTY PollingRepairs
