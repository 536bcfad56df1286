SPECIFICATION Spec
CONSTANTS
    Meetings <- MCMeetings
    DaysAgo <- MCDaysAgo
    Bytes <- MCBytes
    ChunkDays = 2
    Tries = 3
    Cap = 6
    DeleteDownloaded = FALSE
    TrashDownloaded = TRUE
    DeleteSkipped = FALSE
    Faults = {}
    MaxCrashes = 0
INVARIANTS
    KeepsRecent
CHECK_DEADLOCK FALSE
