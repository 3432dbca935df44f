SPECIFICATION FairSpec
CONSTANTS
    Kinds <- McKinds
    Threads = {t1, t2}
    NoThread = NoThread
    Windows = {w1, w2}
    Desktop = Desktop
    Monitors <- McMonitors
    Points <- McPoints
    Strokes <- McStrokes
    DevEscape = FALSE
    MaxRaised = 2
INVARIANTS
    ToldHookIsLive
    OffIsQuiet
    FocusHeld
    ForeignCleared
PROPERTIES
    EventsStopped
    CallReturns
CHECK_DEADLOCK FALSE
