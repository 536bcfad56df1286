SPECIFICATION Spec
CONSTANTS
    Meetings <- MCMeetings
    Records <- MCRecords
    MeetingOf <- MCMeetingOf
    StartTime <- MCStartTime
    Class <- MCClass
    Size <- MCSize
    Capacity = 5
    KeepFreeSpace = 1
    DeleteDownloaded = FALSE
    TrashDownloaded = TRUE
    DeleteSkipped = FALSE
    Faults = {"db", "disk", "net", "api", "cloud"}
    Mismatched = {}
    MaxCrashes = 2
INVARIANTS
    RemovalInHand
    NoLoss
    CompleteCopy
    IInv
PROPERTIES
    ArchivedIsFinal
    ImplementsArchive
    ServesCleanup
