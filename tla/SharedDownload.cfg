SPECIFICATION Spec
CONSTANTS
    Meetings <- MCMeetings
    Records <- MCRecords
    MeetingOf <- MCMeetingOf
    StartTime <- MCStartTime
    Class <- MCClass
    Size <- MCSize
    Workers <- MCWorkers
    DeleteDownloaded = FALSE
    TrashDownloaded = TRUE
    DeleteSkipped = FALSE
    Faults = {"net", "api"}
    MaxCrashes = 1
INVARIANTS
    SharedTypeOK
    DamageNeedsSharing
    FinalUnlessShared
    ReleasedIntactUnlessShared
