SPECIFICATION InstanceSpec
CONSTANTS
    Meetings <- MCMeetings
    Records <- MCRecords
    MeetingOf <- MCMeetingOf
    StartTime <- MCStartTime
    Class <- MCClass
    Size <- MCSize
    Short <- MCShort
    Capacity = 4
    KeepFreeSpace = 2
    DeleteDownloaded = FALSE
    TrashDownloaded = TRUE
    DeleteSkipped = TRUE
    Faults = {"db", "disk", "net", "api", "cloud"}
    Mismatched = {}
    MaxCrashes = 1
INVARIANTS
    InstanceTypeOK
    RowsLostOnlyByCut
    OkMeansDownloaded
PROPERTIES
    EarlyPurgeOnlyIfUnsaved
    PurgeLosesOnlyNewRows
