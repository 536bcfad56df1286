SPECIFICATION WebFairSpec
CONSTANTS
    Meetings <- MCMeetings
    Records <- MCRecords
    MeetingOf <- MCMeetingOf
    StartTime <- MCStartTime
    Class <- MCClass
    Size <- MCSize
    Video <- MCRecords
    MeetingTime <- MCMeetingTime
    Life = 1
    Viewers = {"v1", "v2"}
    Capacity = 4
    KeepFreeSpace = 2
    DeleteDownloaded = FALSE
    TrashDownloaded = FALSE
    DeleteSkipped = FALSE
    Faults = {"net"}
    Mismatched = {}
    MaxCrashes = 1
INVARIANTS
    WebTypeOK
    LoneRequestReads
    CheckFlagsOnlyEvicted
PROPERTIES
    LastCatchesUp
