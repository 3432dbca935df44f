SPECIFICATION FairSpec
CONSTANTS
    Kinds <- McKinds
    Threads = {t1, t2}
    NoThread = NoThread
    Windows = {w1, w2}
    Desktop = Desktop
    Monitors <- McMonitors
    Points <- McPoints
    Strokes <- McStrokes
    DevEscape = FALSE
    MaxRaised = 2
PROPERTY TimedOutAnswers
CHECK_DEADLOCK FALSE
