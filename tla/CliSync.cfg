SPECIFICATION CliFairSpec
CONSTANTS
    Meetings <- MCMeetings
    Records <- MCRecords
    MeetingOf <- MCMeetingOf
    StartTime <- MCStartTime
    Class <- MCClass
    Size <- MCSize
    Capacity = 4
    KeepFreeSpace = 2
    DeleteDownloaded = FALSE
    TrashDownloaded = TRUE
    DeleteSkipped = FALSE
    Faults = {"db", "disk", "net", "api", "cloud"}
    Mismatched = {}
    MaxCrashes = 1
INVARIANTS
    CliTypeOK
    ExitMeansComplete
PROPERTIES
    CommandExits
CHECK_DEADLOCK FALSE
