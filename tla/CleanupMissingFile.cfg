SPECIFICATION Spec
CONSTANTS
    Meetings <- MCMeetings
    Records <- MCRecords
    MeetingOf <- MCMeetingOf
    StartTime <- MCStartTime
    Class <- MCClass
    DeleteDownloaded = FALSE
    TrashDownloaded = TRUE
    DeleteSkipped = TRUE
    Instances = 2
    Short = {"brief"}
    RetryLimit = 1
    Faults = {}
    MaxCrashes = 0
PROPERTIES
    LoadedMeansPresent
CHECK_DEADLOCK FALSE
