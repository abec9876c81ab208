CONSTANTS
    Pages = {"manager"}
    NF = 3
    NI = 3
    Starts <- MCStarts
    Links <- MCLinks
    Overlap = TRUE
    MaxClicks = 2
    MaxEvents = 1
    MaxLogLines = 2
    MaxClientLogs = 2
    MaxRev = 3
    MaxLines = 4
    MaxRuns = 2
    MaxFaults = 2
SPECIFICATION MCSpec
INVARIANT EveryFolderInTree
CHECK_DEADLOCK FALSE
