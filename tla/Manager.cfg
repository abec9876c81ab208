CONSTANTS
    Pages = {"manager", "runs"}
    NF = 3
    NI = 3
    Starts <- MCStarts
    Links <- MCLinks
    Overlap = FALSE
    MaxClicks = 2
    MaxEvents = 1
    MaxLogLines = 2
    MaxClientLogs = 2
    MaxRev = 3
    MaxLines = 4
    MaxRuns = 2
    MaxFaults = 2
SPECIFICATION MCSpec
INVARIANTS
    EveryFolderInTree
    OwnChangesShown
    EveryLineShown
    ConfigFollows
CHECK_DEADLOCK FALSE
