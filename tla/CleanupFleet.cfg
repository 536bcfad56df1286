SPECIFICATION FairSpec
CONSTANTS
    Meetings <- MCMeetings
    Records <- MCRecords
    MeetingOf <- MCMeetingOf
    StartTime <- MCStartTime
    Class <- MCClass
    DeleteDownloaded = FALSE
    TrashDownloaded = TRUE
    DeleteSkipped = TRUE
    Instances = 2
    Short = {"brief"}
    RetryLimit = 1
    Faults = {"api", "disk", "cloud"}
    MaxCrashes = 1
INVARIANTS
    TypeOK
PROPERTIES
    NoSweepBeforeAllLoaded
    CleanupEnds
CHECK_DEADLOCK FALSE
