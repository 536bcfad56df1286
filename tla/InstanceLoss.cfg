SPECIFICATION InstanceSpec
CONSTANTS
    Meetings <- MCMeetings
    Records <- MCRecords
    MeetingOf <- MCMeetingOf
    StartTime <- MCStartTime
    Class <- MCClass
    Size <- MCSize
    Short <- MCShort
    Capacity = 8
    KeepFreeSpace = 0
    DeleteDownloaded = FALSE
    TrashDownloaded = TRUE
    DeleteSkipped = FALSE
    Faults = {}
    Mismatched = {}
    MaxCrashes = 0
INVARIANTS
    NoLoss
