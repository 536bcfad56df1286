SPECIFICATION FairSpec
CONSTANTS
    Meetings <- MCMeetings
    DaysAgo <- MCDaysAgo
    Bytes <- MCBytes
    ChunkDays = 2
    Tries = 3
    Cap = 4
    DeleteDownloaded = FALSE
    TrashDownloaded = TRUE
    DeleteSkipped = FALSE
    Faults = {"net", "cloud", "api"}
    MaxCrashes = 1
INVARIANTS
    TypeOK
    FitsCap
    OldestGoFirst
PROPERTIES
    CapEnds
CHECK_DEADLOCK FALSE
