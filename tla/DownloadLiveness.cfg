SPECIFICATION FairSpec
CONSTANTS
    Meetings <- MCMeetings
    Records <- MCRecords
    MeetingOf <- MCMeetingOf
    StartTime <- MCPaused
    Class <- MCClass
    Size <- MCSizes
    Capacity = 6
    KeepFreeSpace = 1
    DeleteDownloaded = TRUE
    TrashDownloaded = FALSE
    DeleteSkipped = FALSE
    Faults = {"net", "api", "cloud"}
    Mismatched = {3}
    MaxCrashes = 1
INVARIANTS
    SpaceBeforeFetch
    DownloadedIsOnDisk
PROPERTIES
    OldestEvictedFirst
    ReleasedUnlessMissed
    EveryRecordArchived
    AbandonedIsRequeued
