------------------------- MODULE DownloadJobProofs -------------------------
(***************************************************************************)
(* Theorems about the download job, for every account, drive, set of       *)
(* failures and number of restarts.                                        *)
(***************************************************************************)
EXTENDS DownloadJob, FiniteSetTheorems, TLAPS

USE RecordingsAssumption, FailuresAssumption, DiskAssumption
USE DEF At, Goto, Return, NoRecord, storeVars, localVars, history, jobVars,
        RecMeeting, GetRecords, HasMeeting, GetRecordsByStatus, RecordsOf,
        Statuses, Steps, Downloading, IsFull,
        TypeOK, StoreTypeOK, CloudTypeOK, DiskTypeOK

LEMMA SelectedAreRecords ==
    ASSUME NEW m \in Meetings
    PROVE  Selected(m) \subseteq RecordsOf(m)
BY DEF Selected, Primary, OfClass

\* The part of IInv that speaks of the job, its records and its files, and
\* does not depend on how the rows are written.
JobInv ==
    /\ TypeOK
    /\ ArchivedStatus
    /\ InFlight
    /\ EvictsArchived
    /\ CompleteCopy

\* The status of a downloaded record is final, but for its eviction.
Final ==
    \A r \in Records :
        /\ status[r] = "downloaded" => status'[r] \in {"downloaded", "deleted"}
        /\ status[r] = "deleted" => status'[r] = "deleted"

\* A step that adds no row and drops none, and unmakes no downloaded record.
RowsKept ==
    /\ Final
    /\ saved' = saved
    /\ archived \subseteq archived'
    /\ \A r \in Records : status[r] = "absent" <=> status'[r] = "absent"

LEMMA InitIInv == Init => IInv
BY DEF Init, IInv, EmptyStore, FullCloud, EmptyDisk, WholeMeetings,
       ArchivedStatus, InFlight, EvictsArchived, PurgeDecided, NoLoss,
       CompleteCopy

\* Writes to the status column that add no row, drop none, and neither make
\* nor unmake a downloaded or evicted record; a record they mark as evicted
\* has no file.
Reordered ==
    /\ status' \in [Records -> Statuses \cup {"absent"}]
    /\ \A r \in Records :
        /\ status[r] = "absent" <=> status'[r] = "absent"
        /\ status[r] \in {"downloaded", "deleted"} <=>
              status'[r] \in {"downloaded", "deleted"}
        /\ status'[r] = "downloaded" => status[r] = "downloaded"
        /\ status'[r] = "deleted" => status[r] = "deleted" \/ file[r] = 0

\* Such writes keep what the invariant says of the database.
LEMMA ReorderedKeeps ==
    ASSUME JobInv, Reordered, UNCHANGED <<saved, file, archived>>
    PROVE  RowsKept /\ ArchivedStatus' /\ CompleteCopy'
BY DEF Reordered, RowsKept, Final, JobInv, ArchivedStatus, CompleteCopy

\* UpdateRecord, its error ignored, on a record that is not downloaded.
LEMMA TryUpdateReorders ==
    ASSUME JobInv, NEW r \in Records, NEW s \in {"downloading", "failed"},
           status[r] \notin {"absent", "downloaded", "deleted"},
           TryUpdate(r, s)
    PROVE  Reordered
<1>1. status \in [Records -> Statuses \cup {"absent"}]
    BY DEF JobInv
<1>2. CASE UpdateRecord(r, s)
    BY <1>1, <1>2 DEF UpdateRecord, Reordered
<1>3. CASE UNCHANGED status
    BY <1>1, <1>3 DEF Reordered
<1>4. QED
    BY <1>2, <1>3 DEF TryUpdate

\* The steps of the job and a restart keep JobInv and the rows.
LEMMA JobStep ==
    ASSUME JobInv, DownloadOnce \/ Crash
    PROVE  JobInv' /\ RowsKept
<1> USE DEF JobInv, ArchivedStatus, InFlight, EvictsArchived, CompleteCopy
<1> DEFINE Goal == JobInv' /\ RowsKept
<1>1. ASSUME NEW r \in Records, PickQueued(r) PROVE Goal
    BY <1>1 DEF PickQueued, IsQueuedFirst, RowsKept, Final
<1>2. CASE FindNoQueued
    BY <1>2 DEF FindNoQueued, RowsKept, Final
<1>3. CASE RequeueFailed
    <2>1. Reordered
        BY <1>3 DEF RequeueFailed, ResetFailedRecords, Reordered
    <2>2. RowsKept /\ ArchivedStatus' /\ CompleteCopy'
        BY <1>3, <2>1, ReorderedKeeps DEF RequeueFailed
    <2>3. TypeOK' /\ InFlight' /\ EvictsArchived'
        BY <1>3, <2>1 DEF RequeueFailed, Reordered
    <2>4. QED
        BY <2>2, <2>3
<1>4. CASE GotToken
    BY <1>4 DEF GotToken, RowsKept, Final
<1>5. CASE TokenRefused
    BY <1>5 DEF TokenRefused, RowsKept, Final
<1>6. CASE Claim
    <2>1. Reordered
        BY <1>6, TryUpdateReorders DEF Claim
    <2>2. RowsKept /\ ArchivedStatus' /\ CompleteCopy'
        BY <1>6, <2>1, ReorderedKeeps DEF Claim
    <2>3. TypeOK' /\ InFlight' /\ EvictsArchived'
        BY <1>6, <2>1 DEF Claim, Reordered
    <2>4. QED
        BY <2>2, <2>3
<1>7. CASE Prepare
    BY <1>7 DEF Prepare, RowsKept, Final
<1>8. CASE PrepareFails
    BY <1>8 DEF PrepareFails, RowsKept, Final
<1>9. CASE SpaceIsFree
    BY <1>9 DEF SpaceIsFree, RowsKept, Final
<1>10. CASE ListDownloaded
    BY <1>10 DEF ListDownloaded, RowsKept, Final
<1>11. CASE SpaceFails
    BY <1>11 DEF SpaceFails, RowsKept, Final
<1>12. CASE EvictDone
    BY <1>12 DEF EvictDone, RowsKept, Final
<1>13. ASSUME NEW r \in Records, EvictSkip(r) PROVE Goal
    BY <1>13 DEF EvictSkip, IsNextListed, RowsKept, Final
<1>14. ASSUME NEW r \in Records, EvictRemove(r) PROVE Goal
    BY <1>14 DEF EvictRemove, IsNextListed, RemoveFolder, RowsKept, Final
<1>15. ASSUME NEW r \in Records, EvictFails(r) PROVE Goal
    BY <1>15 DEF EvictFails, IsNextListed, RowsKept, Final
<1>16. CASE EvictMark
    <2>1. victim \in Records /\ status[victim] \in {"downloaded", "deleted"}
            /\ file[victim] = 0
        BY <1>16 DEF EvictMark
    <2>2. status' = [status EXCEPT ![victim] = "deleted"] \/ status' = status
        BY <1>16 DEF EvictMark, TryUpdate, UpdateRecord
    <2>3. Reordered
        BY <2>1, <2>2 DEF Reordered
    <2>4. RowsKept /\ ArchivedStatus' /\ CompleteCopy'
        BY <1>16, <2>3, ReorderedKeeps DEF EvictMark
    <2>5. TypeOK' /\ InFlight' /\ EvictsArchived'
        BY <1>16, <2>3 DEF EvictMark, Reordered
    <2>6. QED
        BY <2>4, <2>5
<1>17. CASE FetchComplete
    BY <1>17 DEF FetchComplete, RowsKept, Final
<1>18. CASE FetchResumed
    BY <1>18 DEF FetchResumed, RowsKept, Final
<1>19. CASE FetchBroken
    BY <1>19 DEF FetchBroken, FillsDrive, Interrupted, RowsKept, Final
<1>20. CASE FetchRefused
    BY <1>20 DEF FetchRefused, RowsKept, Final
<1>21. CASE MarkFailed
    <2>1. Reordered
        BY <1>21, TryUpdateReorders DEF MarkFailed
    <2>2. RowsKept /\ ArchivedStatus' /\ CompleteCopy'
        BY <1>21, <2>1, ReorderedKeeps DEF MarkFailed
    <2>3. TypeOK' /\ InFlight' /\ EvictsArchived'
        BY <1>21, <2>1 DEF MarkFailed, Reordered
    <2>4. QED
        BY <2>2, <2>3
<1>22. CASE MarkDownloaded
    BY <1>22 DEF MarkDownloaded, UpdateRecord, RowsKept, Final
<1>23. CASE MarkFails
    BY <1>23 DEF MarkFails, RowsKept, Final
<1>24. CASE CheckLoaded
    BY <1>24 DEF CheckLoaded, RowsKept, Final
<1>25. CASE CheckLoadedFails
    BY <1>25 DEF CheckLoadedFails, MissRemoval, RowsKept, Final
<1>26. CASE Purge
    BY <1>26 DEF Purge, DeleteMeetingRecordings, DeleteAction, RowsKept, Final
<1>27. CASE PurgeFails
    BY <1>27 DEF PurgeFails, MissRemoval, RowsKept, Final
<1>28. CASE Crash
    <2>1. UNCHANGED <<storeVars, cloud, archived, purged>> /\ Return
            /\ crashes' \in 0..MaxCrashes /\ missed' \subseteq Meetings
        BY <1>28 DEF Crash, MissRemoval
    <2>2. file' = file \/ (rec \in Records /\ ~IsFull(rec)
                             /\ status[rec] \notin {"downloaded", "deleted"}
                             /\ \E k \in Nat : file' = [file EXCEPT ![rec] = k])
        BY <1>28 DEF Crash, Interrupted
    <2>3. QED
        BY <2>1, <2>2 DEF RowsKept, Final
<1>29. QED
    BY <1>1, <1>2, <1>3, <1>4, <1>5, <1>6, <1>7, <1>8, <1>9, <1>10, <1>11,
       <1>12, <1>13, <1>14, <1>15, <1>16, <1>17, <1>18, <1>19, <1>20, <1>21,
       <1>22, <1>23, <1>24, <1>25, <1>26, <1>27, <1>28
    DEF DownloadOnce, DownloadRecord, FreeUpSpace

\* Only CheckLoaded decides to remove a meeting, after it has looked.
LEMMA DecidesToPurge ==
    ASSUME JobInv, DownloadOnce \/ Crash, dpc' = "purge"
    PROVE  /\ At("loaded") /\ CheckLoaded
           /\ MeetingRecordsLoaded(RecMeeting)
           /\ UNCHANGED <<rec, status, archived, purged>>
BY DEF DownloadOnce, DownloadRecord, FreeUpSpace, Crash, PickQueued,
       FindNoQueued, RequeueFailed, GotToken, TokenRefused, Claim, Prepare,
       PrepareFails, SpaceIsFree, ListDownloaded, SpaceFails, EvictDone,
       EvictSkip, EvictRemove, EvictFails, IsNextListed, EvictMark,
       FetchComplete, FetchResumed, FetchBroken, FetchRefused, MarkFailed,
       MarkDownloaded, MarkFails, CheckLoaded, CheckLoadedFails, Purge,
       PurgeFails

\* Only Purge adds to the meetings this job removed.
LEMMA OnlyPurgeReleases ==
    ASSUME JobInv, DownloadOnce \/ Crash, purged' # purged
    PROVE  At("purge") /\ purged' = purged \cup {RecMeeting}
BY DEF DownloadOnce, DownloadRecord, FreeUpSpace, Crash, PickQueued,
       FindNoQueued, RequeueFailed, GotToken, TokenRefused, Claim, Prepare,
       PrepareFails, SpaceIsFree, ListDownloaded, SpaceFails, EvictDone,
       EvictSkip, EvictRemove, EvictFails, EvictMark, FetchComplete,
       FetchResumed, FetchBroken, FetchRefused, MarkFailed, MarkDownloaded,
       MarkFails, CheckLoaded, CheckLoadedFails, Purge, PurgeFails, MissRemoval

LEMMA NextIInv == IInv /\ [Next]_vars => IInv'
<1> SUFFICES ASSUME IInv, [Next]_vars
             PROVE  IInv'
    OBVIOUS
<1> USE DEF IInv
<1>1. CASE DownloadOnce \/ Crash
    <2>1. JobInv' /\ RowsKept
        BY <1>1, JobStep DEF JobInv
    <2>2. WholeMeetings'
        BY <2>1 DEF RowsKept, WholeMeetings
    <2>3. PurgeDecided'
        <3> SUFFICES ASSUME dpc' = "purge" PROVE PurgeDecided'
            BY DEF PurgeDecided
        <3>1. /\ At("loaded") /\ MeetingRecordsLoaded(RecMeeting)
              /\ UNCHANGED <<rec, status, archived>>
            BY <1>1, DecidesToPurge DEF JobInv
        <3>2. /\ RecMeeting \in Meetings
              /\ GetRecords(RecMeeting) = Selected(RecMeeting)
            BY <3>1 DEF InFlight, WholeMeetings
        <3>3. Selected(RecMeeting) \subseteq archived
            BY <3>1, <3>2 DEF MeetingRecordsLoaded, ArchivedStatus
        <3>4. /\ MeetingRecordsLoaded(RecMeeting)'
              /\ DeleteDownloaded \/ TrashDownloaded
            BY <1>1, <3>1, DecidesToPurge
            DEF JobInv, MeetingRecordsLoaded, CheckLoaded
        <3>5. QED
            BY <3>1, <3>3, <3>4 DEF PurgeDecided
    <2>4. NoLoss'
        BY <1>1, <2>1, OnlyPurgeReleases
        DEF JobInv, RowsKept, NoLoss, PurgeDecided
    <2>5. QED
        BY <2>1, <2>2, <2>3, <2>4 DEF JobInv
<1> USE DEF WholeMeetings, ArchivedStatus, InFlight, EvictsArchived,
            PurgeDecided, NoLoss, CompleteCopy
<1>2. ASSUME NEW m \in Meetings, Save(m) PROVE IInv'
    <2>1. At("purge") => RecMeeting # m
        BY <1>2 DEF Save
    <2>2. PurgeDecided'
        BY <1>2, <2>1, SelectedAreRecords DEF Save, MeetingRecordsLoaded
    <2>3. QED
        BY <1>2, <2>2, SelectedAreRecords DEF Save, InsertMeetingRow
<1>3. ASSUME NEW m \in Meetings, TrimCloud(m) PROVE IInv'
    BY <1>3 DEF TrimCloud, MeetingRecordsLoaded
<1>4. CASE UNCHANGED vars
    BY <1>4 DEF vars, MeetingRecordsLoaded
<1>5. QED
    BY <1>1, <1>2, <1>3, <1>4 DEF Next, Environment

-----------------------------------------------------------------------------
\* The inductive invariant holds, for any failures and restarts.
THEOREM IInvCorrect == Spec => []IInv
BY InitIInv, NextIInv, PTL DEF Spec

\* The variables of the job and of its stores keep their types.
THEOREM TypeCorrect == Spec => []TypeOK
<1>1. IInv => TypeOK
    BY DEF IInv
<1>2. QED
    BY IInvCorrect, <1>1, PTL

\* DownloadOnce never has Zoom remove a meeting before each record wanted
\* from it was downloaded in full, for any failures and restarts.
THEOREM NoLossCorrect == Spec => []NoLoss
<1>1. IInv => NoLoss
    BY DEF IInv
<1>2. QED
    BY IInvCorrect, <1>1, PTL

\* The file of a record marked downloaded is complete or missing, never
\* partial, for any failures and restarts.
THEOREM CompleteCopyCorrect == Spec => []CompleteCopy
<1>1. IInv => CompleteCopy
    BY DEF IInv
<1>2. QED
    BY IInvCorrect, <1>1, PTL

-----------------------------------------------------------------------------
\* Steps that leave the history, the status and the complete files alone.
LEMMA SilentStep ==
    ASSUME UNCHANGED <<archived, purged>>,
           \A r \in Records :
              (status'[r] = "downloaded" /\ IsFull(r)') <=>
                 (status[r] = "downloaded" /\ IsFull(r))
    PROVE  UNCHANGED <<archived, LocalCopies, purged>>
BY DEF LocalCopies

\* Archive and the job want the same records.
LEMMA SameSelection ==
    ASSUME NEW m \in Meetings
    PROVE  Promise!Selected(m) = Selected(m)
BY DEF Promise!Selected, Promise!Primary, Promise!OfClass, Promise!RecordsOf,
       Selected, Primary, OfClass

\* Every step of the job is a step of Archive, or none.
LEMMA StepSimulation ==
    IInv /\ [Next]_vars =>
        [Promise!Next]_<<archived, LocalCopies, purged>>
<1> SUFFICES ASSUME IInv, [Next]_vars
             PROVE  \/ Promise!Next
                    \/ UNCHANGED <<archived, LocalCopies, purged>>
    OBVIOUS
<1> USE DEF IInv, WholeMeetings, ArchivedStatus, InFlight, EvictsArchived,
            PurgeDecided, NoLoss, CompleteCopy
<1>1. CASE UNCHANGED <<status, file, archived, purged>>
    BY <1>1, SilentStep
<1>2. CASE FetchComplete \/ FetchResumed \/ FetchBroken \/ Crash
    <2>1. UNCHANGED <<status, archived, purged>>
        BY <1>2 DEF FetchComplete, FetchResumed, FetchBroken, Crash, MissRemoval
    <2>2. file' = file \/ (rec \in Records /\ status[rec] # "downloaded"
                            /\ \E n \in Nat : file' = [file EXCEPT ![rec] = n])
        BY <1>2 DEF FetchComplete, FetchResumed, FetchBroken, FillsDrive,
                    Crash, Interrupted
    <2>3. QED
        BY <2>1, <2>2, SilentStep
<1>3. CASE RequeueFailed
    BY <1>3, SilentStep DEF RequeueFailed, ResetFailedRecords
<1>4. CASE Claim \/ MarkFailed
    <2>1. Reordered /\ UNCHANGED <<file, history>>
        BY <1>4, TryUpdateReorders DEF Claim, MarkFailed, JobInv
    <2>2. status[rec] # "downloaded" /\ rec \in Records
        BY <1>4 DEF Claim, MarkFailed
    <2>3. \A r \in Records : status'[r] = status[r] \/ r = rec
        BY <1>4, <2>2 DEF Claim, MarkFailed, TryUpdate, UpdateRecord
    <2>4. QED
        BY <2>1, <2>2, <2>3, SilentStep DEF Reordered
<1>5. ASSUME NEW r \in Records, EvictRemove(r) PROVE Promise!Next
    <2>1. r \in archived /\ file[r] # 0
        BY <1>5 DEF EvictRemove, IsNextListed
    <2>2. status[r] = "downloaded" /\ IsFull(r)
        BY <2>1
    <2>3. LocalCopies' = LocalCopies \ {r} /\ r \in LocalCopies
        BY <1>5, <2>2 DEF EvictRemove, RemoveFolder, LocalCopies
    <2>4. Promise!Discard(r)
        BY <1>5, <2>3 DEF EvictRemove, Promise!Discard
    <2>5. QED
        BY <2>4 DEF Promise!Next
<1>6. CASE EvictMark
    <2>1. victim \in Records /\ ~IsFull(victim)
        BY <1>6 DEF EvictMark
    <2>2. \A r \in Records : status'[r] = status[r] \/ r = victim
        BY <1>6, <2>1 DEF EvictMark, TryUpdate, UpdateRecord
    <2>3. UNCHANGED <<file, history>>
        BY <1>6 DEF EvictMark
    <2>4. QED
        BY <2>1, <2>2, <2>3, SilentStep
<1>7. CASE MarkDownloaded
    <2>1. rec \in Records \ archived /\ IsFull(rec)
        BY <1>7 DEF MarkDownloaded
    <2>2. MeetingOf[rec] \notin purged
        <3>1. rec \in Selected(RecMeeting)
            BY <1>7 DEF MarkDownloaded
        <3>2. QED
            BY <2>1, <3>1
    <2>3. LocalCopies' = LocalCopies \cup {rec}
        BY <1>7, <2>1 DEF MarkDownloaded, UpdateRecord, LocalCopies
    <2>4. Promise!Obtain(rec)
        BY <1>7, <2>1, <2>2, <2>3 DEF MarkDownloaded, Promise!Obtain
    <2>5. QED
        BY <2>1, <2>4 DEF Promise!Next
<1>8. CASE Purge
    <2>1. RecMeeting \in Meetings
        BY <1>8 DEF Purge
    <2>2. Promise!Selected(RecMeeting) \subseteq archived
        BY <1>8, <2>1, SameSelection DEF Purge
    <2>3. UNCHANGED <<archived, LocalCopies>>
        BY <1>8 DEF Purge, LocalCopies
    <2>4. Promise!Release(RecMeeting)
        BY <1>8, <2>2, <2>3 DEF Purge, Promise!Release
    <2>5. QED
        BY <2>1, <2>4 DEF Promise!Next
<1>9. ASSUME NEW m \in Meetings, Save(m)
      PROVE  UNCHANGED <<archived, LocalCopies, purged>>
    <2>1. UNCHANGED <<file, history>>
        BY <1>9 DEF Save
    <2>2. \A r \in Selected(m) : r \in Records /\ status[r] = "absent"
        BY <1>9, SelectedAreRecords DEF Save
    <2>3. \A r \in Records :
            status'[r] = "downloaded" <=> status[r] = "downloaded"
        BY <1>9, <2>2 DEF Save
    <2>4. QED
        BY <2>1, <2>3, SilentStep
<1>10. CASE UNCHANGED vars
    BY <1>10, <1>1 DEF vars
<1>11. QED
    BY <1>1, <1>2, <1>3, <1>4, <1>5, <1>6, <1>7, <1>8, <1>9, <1>10
    DEF Next, DownloadOnce, DownloadRecord, FreeUpSpace, Environment,
        PickQueued, FindNoQueued, GotToken, TokenRefused, Prepare,
        PrepareFails, SpaceIsFree, ListDownloaded, SpaceFails, EvictDone,
        EvictSkip, EvictFails, FetchRefused, MarkFails, CheckLoaded,
        CheckLoadedFails, PurgeFails, MissRemoval, TrimCloud

\* The download job implements Archive.
THEOREM Refinement == Spec => ImplementsArchive
<1>1. Init => Promise!Init
    BY DEF Init, Promise!Init, LocalCopies, EmptyStore
<1>2. QED
    BY IInvCorrect, StepSimulation, <1>1, PTL
    DEF Spec, ImplementsArchive, Promise!Spec, Promise!archiveVars

-----------------------------------------------------------------------------
\* A downloaded record never goes back to the queue, and an evicted one
\* never comes back: neither retries nor restarts download a record twice.
THEOREM ArchivedIsFinalCorrect == Spec => ArchivedIsFinal
<1>1. ASSUME IInv, [Next]_vars PROVE Final
    <2>1. CASE DownloadOnce \/ Crash
        BY <1>1, <2>1, JobStep DEF IInv, JobInv, RowsKept
    <2>2. ASSUME NEW m \in Meetings, Save(m) PROVE Final
        BY <1>1, <2>2, SelectedAreRecords DEF IInv, WholeMeetings, Save, Final
    <2>3. CASE UNCHANGED status
        BY <2>3 DEF Final
    <2>4. QED
        BY <1>1, <2>1, <2>2, <2>3 DEF Next, Environment, TrimCloud, vars
<1>2. IInv /\ [Next]_vars => [Final]_vars
    BY <1>1
<1>3. QED
    BY IInvCorrect, <1>2, PTL DEF Spec, ArchivedIsFinal, Final

-----------------------------------------------------------------------------
\* freeUpSpace.

\* While it evicts, every downloaded file still on disk is in its list.
StillListed ==
    dpc \in {"evict", "evicted"} =>
        \A r \in GetRecordsByStatus("downloaded") : file[r] # 0 => r \in listed

LEMMA StillListedStep ==
    ASSUME "disk" \notin Faults, IInv, StillListed, [Next]_vars
    PROVE  StillListed'
<1> USE DEF StillListed, MayFail
<1>1. ASSUME NEW m \in Meetings, Save(m) PROVE StillListed'
    BY <1>1, SelectedAreRecords DEF Save
<1>2. ASSUME NEW r \in Records, EvictRemove(r) PROVE StillListed'
    BY <1>2 DEF EvictRemove, IsNextListed, RemoveFolder, IInv
<1>3. CASE EvictMark
    BY <1>3 DEF EvictMark, TryUpdate, UpdateRecord, IInv
<1>4. ASSUME NEW r \in Records, EvictSkip(r) \/ EvictFails(r) PROVE StillListed'
    BY <1>4 DEF EvictSkip, EvictFails, IsNextListed
<1>5. CASE ListDownloaded
    BY <1>5 DEF ListDownloaded
<1>6. CASE UNCHANGED <<dpc, listed, status, file>>
    BY <1>6
<1>7. CASE dpc' \notin {"evict", "evicted"}
    BY <1>7
<1>8. CASE FreeUpSpace
    BY <1>2, <1>3, <1>4, <1>5, <1>7, <1>8
    DEF FreeUpSpace, SpaceIsFree, SpaceFails, EvictDone
<1>9. CASE DownloadRecord
    BY <1>7, <1>8, <1>9
    DEF DownloadRecord, GotToken, TokenRefused, Prepare,
        PrepareFails, FetchComplete, FetchResumed, FetchBroken, FetchRefused,
        MarkFails, Claim, MarkFailed, MarkDownloaded
<1>10. CASE DownloadOnce \/ Crash
    BY <1>7, <1>9, <1>10
    DEF DownloadOnce, PickQueued, FindNoQueued, RequeueFailed, CheckLoaded,
        CheckLoadedFails, Purge, PurgeFails, Crash
<1>11. QED
    BY <1>1, <1>6, <1>10 DEF Next, Environment, TrimCloud, vars

LEMMA StillListedCorrect ==
    ASSUME "disk" \notin Faults
    PROVE  Spec => [](IInv /\ StillListed)
<1>1. Init => StillListed
    BY DEF Init, StillListed
<1>2. IInv /\ StillListed /\ [Next]_vars => StillListed'
    BY StillListedStep
<1>3. QED
    BY <1>1, <1>2, IInvCorrect, PTL DEF Spec

\* A drive that works is filled above the reserve, or holds no downloaded file
\* any more, when grab.Get is called.
THEOREM SpaceBeforeFetchCorrect ==
    ASSUME "disk" \notin Faults, "db" \notin Faults
    PROVE  Spec => []SpaceBeforeFetch
<1>1. Init => SpaceBeforeFetch
    BY DEF Init, SpaceBeforeFetch
<1>2. IInv /\ StillListed /\ SpaceBeforeFetch /\ [Next]_vars =>
        SpaceBeforeFetch'
    <2> SUFFICES ASSUME IInv, StillListed, SpaceBeforeFetch, [Next]_vars,
                        dpc' = "fetch"
                 PROVE  \/ EnoughFree'
                        \/ \A r \in GetRecordsByStatus("downloaded")' :
                              file'[r] = 0
        BY DEF SpaceBeforeFetch
    <2> USE DEF MayFail, EnoughFree, Free
    <2>1. ASSUME NEW m \in Meetings, Save(m)
          PROVE  /\ UNCHANGED <<file, dpc>>
                 /\ \A r \in Records :
                      status'[r] = "downloaded" => status[r] = "downloaded"
        BY <2>1, SelectedAreRecords DEF Save
    <2>2. CASE UNCHANGED <<file, dpc>> /\
              \A r \in Records :
                 status'[r] = "downloaded" => status[r] = "downloaded"
        BY <2>2 DEF SpaceBeforeFetch
    <2>3. CASE SpaceIsFree
        BY <2>3 DEF SpaceIsFree
    <2>4. CASE EvictDone
        BY <2>4 DEF EvictDone, StillListed
    <2>5. QED
        BY <2>1, <2>2, <2>3, <2>4
        DEF Next, DownloadOnce, DownloadRecord, FreeUpSpace, Environment, vars,
            PickQueued, FindNoQueued, GotToken, TokenRefused, Prepare,
            PrepareFails, ListDownloaded, SpaceFails, EvictRemove, EvictMark,
            EvictSkip, EvictFails, FetchComplete, FetchResumed,
            FetchBroken, FetchRefused, MarkFails, CheckLoaded,
            CheckLoadedFails, Purge, PurgeFails, Crash, TrimCloud, Claim,
            MarkFailed, MarkDownloaded, RequeueFailed
<1>3. QED
    BY <1>1, <1>2, StillListedCorrect, PTL DEF Spec

\* On a drive that works the oldest downloaded file goes first, and none goes
\* above the reserve; the database and the process may fail.
THEOREM OldestEvictedFirstCorrect ==
    ASSUME "disk" \notin Faults
    PROVE  Spec => OldestEvictedFirst
<1> DEFINE OldestFirst ==
        \A r \in GetRecordsByStatus("downloaded") :
           file'[r] # file[r] =>
              /\ ~EnoughFree
              /\ \A q \in GetRecordsByStatus("downloaded") :
                   file[q] # 0 => StartTime[r] <= StartTime[q]
<1>1. ASSUME IInv, StillListed, [Next]_vars PROVE OldestFirst
    <2>1. CASE UNCHANGED file
        BY <2>1
    <2>2. ASSUME NEW r \in Records, EvictRemove(r) PROVE OldestFirst
        BY <2>2, <1>1
        DEF EvictRemove, RemoveFolder, IsNextListed, StillListed, IInv
    <2>3. CASE FetchComplete \/ FetchResumed \/ FetchBroken \/ Crash
        <3>1. \/ file' = file
              \/ /\ rec \in Records /\ status[rec] # "downloaded"
                 /\ \E n \in Nat : file' = [file EXCEPT ![rec] = n]
            BY <1>1, <2>3 DEF IInv, InFlight, FetchComplete, FetchResumed,
                              FetchBroken, FillsDrive, Crash, Interrupted
        <3>2. QED
            BY <1>1, <3>1 DEF IInv
    <2>4. QED
        BY <1>1, <2>1, <2>2, <2>3
        DEF Next, DownloadOnce, DownloadRecord, FreeUpSpace, Environment, vars,
            PickQueued, FindNoQueued, GotToken, TokenRefused, Prepare,
            PrepareFails, SpaceIsFree, ListDownloaded, SpaceFails, EvictDone,
            EvictSkip, EvictFails, EvictMark, FetchRefused, MarkFails,
            CheckLoaded, CheckLoadedFails, Purge, PurgeFails, TrimCloud, Claim,
            MarkFailed, MarkDownloaded, RequeueFailed, Save
<1>2. IInv /\ StillListed /\ [Next]_vars => [OldestFirst]_vars
    BY <1>1
<1>3. QED
    BY StillListedCorrect, <1>2, PTL DEF Spec, OldestEvictedFirst

\* No step but a restart between RemoveAll and UpdateRecord adds to the
\* downloaded records without a file, and that one adds a single record.
LEMMA OrphansStep ==
    ASSUME "db" \notin Faults, IInv, [Next]_vars
    PROVE  \/ Orphans' \subseteq Orphans /\ crashes' \in {crashes, crashes + 1}
           \/ /\ crashes' = crashes + 1
              /\ \E r \in Records : Orphans' \subseteq Orphans \cup {r}
<1> DEFINE Kept == Orphans' \subseteq Orphans
<1> USE DEF Orphans, MayFail
<1>1. ASSUME NEW m \in Meetings, Save(m) PROVE Kept /\ crashes' = crashes
    BY <1>1, SelectedAreRecords DEF Save
<1>2. ASSUME NEW r \in Records, EvictRemove(r)
      PROVE  Kept /\ crashes' = crashes
    BY <1>2 DEF EvictRemove, RemoveFolder, IsNextListed, IInv
<1>3. CASE EvictMark
    <2>1. Kept
        BY <1>3 DEF EvictMark, TryUpdate, UpdateRecord, IInv
    <2>2. QED
        BY <1>3, <2>1 DEF EvictMark
<1>4. CASE FetchComplete \/ FetchResumed \/ FetchBroken
    <2>1. Kept
        BY <1>4 DEF FetchComplete, FetchResumed, FetchBroken, Interrupted,
                    FillsDrive, IInv, InFlight
    <2>2. QED
        BY <1>4, <2>1 DEF FetchComplete, FetchResumed, FetchBroken
<1>5. CASE Crash
    <2>1. crashes' = crashes + 1 /\ UNCHANGED status /\ crashes \in Nat
        BY <1>5 DEF Crash, IInv
    <2>2. CASE At("evicted")
        <3>1. victim \in Records /\ file' = file
            BY <1>5, <2>2 DEF Crash, IInv, EvictsArchived
        <3>2. Orphans' \subseteq Orphans \cup {victim}
            BY <2>1, <3>1
        <3>3. QED
            BY <2>1, <3>1, <3>2
    <2>3. CASE ~At("evicted")
        <3>1. \/ file' = file
              \/ /\ rec \in Records /\ status[rec] # "downloaded"
                 /\ \E n \in Nat : file' = [file EXCEPT ![rec] = n]
            BY <1>5 DEF Crash, Interrupted, IInv, InFlight
        <3>2. Kept
            BY <2>1, <2>3, <3>1 DEF IInv
        <3>3. QED
            BY <2>1, <3>2
    <2>4. QED
        BY <2>2, <2>3
<1>6. CASE MarkDownloaded
    <2>1. Kept
        BY <1>6 DEF MarkDownloaded, UpdateRecord, IInv, InFlight
    <2>2. QED
        BY <1>6, <2>1 DEF MarkDownloaded
<1>7. CASE RequeueFailed \/ Claim \/ MarkFailed
    <2>1. Kept
        BY <1>7 DEF RequeueFailed, ResetFailedRecords, Claim, MarkFailed,
                    TryUpdate, UpdateRecord, IInv
    <2>2. QED
        BY <1>7, <2>1 DEF RequeueFailed, Claim, MarkFailed
<1>8. QED
    BY <1>1, <1>2, <1>3, <1>4, <1>5, <1>6, <1>7
    DEF Next, DownloadOnce, DownloadRecord, FreeUpSpace, Environment, vars,
        PickQueued, FindNoQueued, GotToken, TokenRefused, Prepare,
        PrepareFails, SpaceIsFree, ListDownloaded, SpaceFails, EvictDone,
        EvictSkip, EvictFails, FetchRefused, MarkFails, CheckLoaded,
        CheckLoadedFails, Purge, PurgeFails, TrimCloud

\* While the database works there are never more records marked downloaded
\* without their file than there were restarts; the drive may fail.
THEOREM DownloadedIsOnDiskCorrect ==
    ASSUME "db" \notin Faults
    PROVE  Spec => []DownloadedIsOnDisk
<1>1. Init => DownloadedIsOnDisk
    <2>1. Init => Orphans = {} /\ crashes = 0
        BY DEF Init, Orphans, EmptyStore
    <2>2. QED
        BY <2>1, FS_EmptySet DEF DownloadedIsOnDisk
<1>2. IInv /\ IInv' /\ DownloadedIsOnDisk /\ [Next]_vars => DownloadedIsOnDisk'
    <2> SUFFICES ASSUME IInv, IInv', DownloadedIsOnDisk, [Next]_vars
                 PROVE  Cardinality(Orphans') <= crashes'
        BY DEF DownloadedIsOnDisk
    <2>1. Orphans \subseteq Records /\ Orphans' \subseteq Records
        BY DEF Orphans
    <2>2. /\ IsFiniteSet(Orphans) /\ IsFiniteSet(Orphans')
          /\ Cardinality(Orphans) \in Nat /\ Cardinality(Orphans') \in Nat
        BY <2>1, FS_Subset, FS_CardinalityType
    <2>3. crashes \in Nat /\ Cardinality(Orphans) <= crashes
        BY DEF IInv, DownloadedIsOnDisk
    <2>4. CASE Orphans' \subseteq Orphans
        <3>1. Cardinality(Orphans') <= Cardinality(Orphans)
            BY <2>2, <2>4, FS_Subset
        <3>2. crashes' \in {crashes, crashes + 1}
            BY OrphansStep
        <3>3. QED
            BY <2>2, <2>3, <3>1, <3>2
    <2>5. ASSUME NEW r \in Records, Orphans' \subseteq Orphans \cup {r},
                 crashes' = crashes + 1
          PROVE  Cardinality(Orphans') <= crashes'
        <3>1. /\ IsFiniteSet(Orphans \cup {r})
              /\ Cardinality(Orphans \cup {r}) \in
                    {Cardinality(Orphans), Cardinality(Orphans) + 1}
            BY <2>2, FS_AddElement
        <3>2. Cardinality(Orphans') <= Cardinality(Orphans \cup {r})
            BY <2>5, <3>1, FS_Subset
        <3>3. QED
            BY <2>2, <2>3, <2>5, <3>1, <3>2
    <2>6. QED
        BY <2>4, <2>5, OrphansStep
<1>3. QED
    BY <1>1, <1>2, IInvCorrect, PTL DEF Spec

-----------------------------------------------------------------------------
\* The removal of a meeting from Zoom.

\* Only meetings with a wanted record are saved.
SavedAreWanted == \A m \in saved : Selected(m) # {}

\* What a step that is not one of the last two of DownloadOnce, and neither
\* downloads nor saves anything, leaves as it is.
Uninvolved ==
    /\ UNCHANGED <<saved, archived>>
    /\ missed \subseteq missed'
    /\ \A m \in Meetings : cloud'[m] = "present" => cloud[m] = "present"
    /\ \A r \in Records : status[r] = "deleted" => status'[r] = "deleted"

\* A step that ends a call of DownloadOnce at its look at the meeting, or at
\* the request, is counted as missed once the meeting is downloaded in full.
Counted ==
    \/ dpc \notin {"loaded", "purge"}
    \/ Selected(RecMeeting) \subseteq archived => RecMeeting \in missed'

\* The steps of the job before it looks at the meeting, and MarkFails.
LEMMA UninvolvedStep ==
    ASSUME IInv, DownloadOnce \/ Crash \/ \E m \in Meetings : TrimCloud(m)
    PROVE  \/ MarkDownloaded \/ CheckLoaded \/ Purge
           \/ /\ Uninvolved
              /\ UNCHANGED <<dpc, rec>> \/ Counted
<1> SUFFICES ASSUME ~MarkDownloaded, ~CheckLoaded, ~Purge
             PROVE  /\ Uninvolved
                    /\ UNCHANGED <<dpc, rec>> \/ Counted
    OBVIOUS
<1>1. ASSUME DownloadOnce \/ Crash PROVE Final /\ saved' = saved
    BY <1>1, JobStep DEF IInv, JobInv, RowsKept
<1>2. ASSUME DownloadOnce \/ Crash PROVE UNCHANGED <<archived, cloud>>
    BY <1>2
    DEF DownloadOnce, DownloadRecord, FreeUpSpace, Crash, PickQueued,
        FindNoQueued, RequeueFailed, GotToken, TokenRefused, Claim, Prepare,
        PrepareFails, SpaceIsFree, ListDownloaded, SpaceFails, EvictDone,
        EvictSkip, EvictRemove, EvictFails, EvictMark, FetchComplete,
        FetchResumed, FetchBroken, FetchRefused, MarkFailed, MarkFails,
        CheckLoadedFails, PurgeFails, MissRemoval
<1>3. ASSUME DownloadOnce
      PROVE  /\ missed \subseteq missed'
             /\ Counted
    BY <1>3
    DEF DownloadOnce, DownloadRecord, FreeUpSpace, PickQueued,
        FindNoQueued, RequeueFailed, GotToken, TokenRefused, Claim, Prepare,
        PrepareFails, SpaceIsFree, ListDownloaded, SpaceFails, EvictDone,
        EvictSkip, EvictRemove, EvictFails, IsNextListed, EvictMark,
        FetchComplete, FetchResumed, FetchBroken, FetchRefused, MarkFailed,
        MarkFails, CheckLoadedFails, PurgeFails, MissRemoval, Counted
<1>4. ASSUME Crash
      PROVE  /\ missed \subseteq missed'
             /\ Counted
    BY <1>4 DEF Crash, MissRemoval, Counted
<1>5. ASSUME NEW m \in Meetings, TrimCloud(m)
      PROVE  Uninvolved /\ UNCHANGED <<dpc, rec>>
    BY <1>5 DEF TrimCloud, Uninvolved, IInv
<1>6. QED
    BY <1>1, <1>2, <1>3, <1>4, <1>5 DEF Uninvolved, Final

\* A step of that kind keeps the removal in hand.
LEMMA UninvolvedKeeps ==
    ASSUME IInv, RemovalInHand, Uninvolved,
           UNCHANGED <<dpc, rec>> \/ Counted
    PROVE  RemovalInHand'
<1> SUFFICES ASSUME DeleteDownloaded \/ TrashDownloaded,
                    NEW m \in saved',
                    Selected(m) \subseteq archived', cloud'[m] = "present"
             PROVE  \/ dpc' \in {"loaded", "purge"} /\ RecMeeting' = m
                    \/ m \in missed'
                    \/ \E r \in Selected(m) : status'[r] = "deleted"
    BY DEF RemovalInHand
<1>1. m \in saved /\ m \in Meetings /\ cloud[m] = "present"
    BY DEF Uninvolved, IInv
<1>2. \/ dpc \in {"loaded", "purge"} /\ RecMeeting = m
      \/ m \in missed
      \/ \E r \in Selected(m) : status[r] = "deleted"
    BY <1>1 DEF RemovalInHand, Uninvolved
<1>3. Selected(m) \subseteq Records
    BY <1>1, SelectedAreRecords
<1>4. QED
    BY <1>2, <1>3 DEF Uninvolved, Counted

LEMMA RemovalStep ==
    ASSUME IInv, IInv', SavedAreWanted, RemovalInHand, [Next]_vars
    PROVE  SavedAreWanted' /\ RemovalInHand'
<1>1. ASSUME NEW m \in Meetings, Save(m)
      PROVE  SavedAreWanted' /\ RemovalInHand'
    <2>1. /\ saved' = saved \cup {m} /\ Selected(m) # {} /\ m \notin saved
          /\ UNCHANGED <<cloud, dpc, rec, missed, archived>>
        BY <1>1 DEF Save, InsertMeetingRow
    <2>2. \A r \in Selected(m) : r \in Records /\ r \notin archived
        BY <2>1, SelectedAreRecords DEF IInv, WholeMeetings, ArchivedStatus
    <2>3. SavedAreWanted'
        BY <2>1 DEF SavedAreWanted
    <2>4. ~(Selected(m) \subseteq archived')
        BY <2>1, <2>2
    <2>5. \A r \in Records : status[r] = "deleted" => status'[r] = "deleted"
        BY <1>1, <2>2 DEF Save, IInv, ArchivedStatus
    <2>6. \A n \in saved : n \in Meetings /\ Selected(n) \subseteq Records
        BY SelectedAreRecords DEF IInv
    <2>7. RemovalInHand'
        BY <2>1, <2>4, <2>5, <2>6 DEF RemovalInHand
    <2>8. QED
        BY <2>3, <2>7
<1>2. CASE DownloadOnce \/ Crash \/ \E m \in Meetings : TrimCloud(m)
    <2>1. SavedAreWanted'
        BY <1>2, JobStep DEF IInv, JobInv, RowsKept, SavedAreWanted, TrimCloud
    <2>2. CASE MarkDownloaded
        <3>1. /\ UNCHANGED <<saved, cloud, rec, missed>>
              /\ dpc' = "loaded" /\ archived' = archived \cup {rec}
              /\ rec \in Records /\ status[rec] # "deleted"
              /\ \A r \in Records : r # rec => status'[r] = status[r]
            BY <2>2 DEF MarkDownloaded, UpdateRecord, IInv, InFlight
        <3>2. ASSUME NEW m \in saved, m # RecMeeting,
                     Selected(m) \subseteq archived'
              PROVE  Selected(m) \subseteq archived
            BY <3>1, <3>2, SelectedAreRecords DEF IInv
        <3>3. \A m \in saved : Selected(m) \subseteq Records
            BY SelectedAreRecords DEF IInv
        <3>4. dpc \notin {"loaded", "purge"}
            BY <2>2 DEF MarkDownloaded
        <3>5. QED
            BY <2>1, <3>1, <3>2, <3>3, <3>4 DEF RemovalInHand
    <2>3. CASE CheckLoaded
        <3>1. UNCHANGED <<saved, cloud, archived, missed, status>>
            BY <2>3 DEF CheckLoaded
        <3>2. \/ dpc' = "purge" /\ rec' = rec
              \/ ~(DeleteDownloaded \/ TrashDownloaded)
              \/ ~MeetingRecordsLoaded(RecMeeting)
            BY <2>3 DEF CheckLoaded
        <3>3. ASSUME ~MeetingRecordsLoaded(RecMeeting), RecMeeting \in saved,
                     Selected(RecMeeting) \subseteq archived
              PROVE  \E r \in Selected(RecMeeting) : status[r] = "deleted"
            <4>1. PICK r \in Selected(RecMeeting) :
                    r \in Records /\ status[r] # "downloaded"
                BY <3>3 DEF MeetingRecordsLoaded, IInv, WholeMeetings
            <4>2. QED
                BY <3>3, <4>1 DEF IInv, ArchivedStatus
        <3>4. SUFFICES ASSUME DeleteDownloaded \/ TrashDownloaded,
                              NEW m \in saved,
                              Selected(m) \subseteq archived,
                              cloud[m] = "present", m \notin missed
                       PROVE  \/ dpc' \in {"loaded", "purge"} /\ RecMeeting' = m
                              \/ \E r \in Selected(m) : status[r] = "deleted"
            BY <2>1, <3>1 DEF RemovalInHand
        <3>5. CASE RecMeeting = m
            BY <3>2, <3>3, <3>4, <3>5
        <3>6. CASE RecMeeting # m
            BY <3>4, <3>6 DEF RemovalInHand
        <3>7. QED
            BY <3>5, <3>6
    <2>4. CASE Purge
        <3>1. /\ UNCHANGED <<saved, status, archived, missed>>
              /\ RecMeeting \in Meetings
            BY <2>4 DEF Purge, IInv, InFlight
        <3>2. /\ cloud'[RecMeeting] # "present"
              /\ \A m \in Meetings :
                    cloud'[m] = "present" => cloud[m] = "present"
            BY <2>4, <3>1
            DEF Purge, DeleteMeetingRecordings, DeleteAction, IInv
        <3>3. saved \subseteq Meetings
            BY DEF IInv
        <3>4. QED
            BY <2>1, <3>1, <3>2, <3>3 DEF RemovalInHand
    <2>5. QED
        BY <1>2, <2>1, <2>2, <2>3, <2>4, UninvolvedStep, UninvolvedKeeps
<1>3. CASE UNCHANGED vars
    BY <1>3 DEF vars, SavedAreWanted, RemovalInHand
<1>4. QED
    BY <1>1, <1>2, <1>3 DEF Next, Environment

\* The safety half of ReleasedUnlessMissed, for any failures and restarts:
\* the removal of a meeting that was downloaded in full is never forgotten.
THEOREM RemovalInHandCorrect == Spec => []RemovalInHand
<1>1. Init => SavedAreWanted /\ RemovalInHand
    BY DEF Init, EmptyStore, SavedAreWanted, RemovalInHand
<1>2. QED
    BY <1>1, IInvCorrect, RemovalStep, PTL DEF Spec

-----------------------------------------------------------------------------
\* The job seen from the trash command.

\* Cleanup and the job want the same records.
LEMMA SameSelectionSeen ==
    ASSUME NEW m \in Meetings
    PROVE  Seen!Selected(m) = Selected(m)
BY DEF Seen!Selected, Seen!Primary, Seen!OfClass, Seen!RecordsOf,
       Selected, Primary, OfClass

\* The instance of Cleanup as a whole: what changes in it is what changes in
\* the cloud, the statuses and the files.
LEMMA StepIsSeen ==
    ASSUME Seen!InstanceStep \/ UNCHANGED <<cloud, SeenStatus, SeenFile>>
    PROVE  [Seen!Next]_(Seen!vars)
BY DEF Seen!Next, Seen!vars, Seen!fleetVars, Seen!jobVars

\* Functions that agree everywhere, or everywhere but at one point.
LEMMA SameValues ==
    ASSUME NEW S, NEW f, NEW g,
           f = [x \in S |-> f[x]], g = [x \in S |-> g[x]],
           \A x \in S : g[x] = f[x]
    PROVE  g = f
<1>1. [x \in S |-> f[x]] = [x \in S |-> g[x]]
    OBVIOUS
<1>2. QED
    BY <1>1

LEMMA OneValueNew ==
    ASSUME NEW S, NEW f, NEW g,
           f = [x \in S |-> f[x]], g = [x \in S |-> g[x]],
           NEW r \in S, NEW s, \A x \in S : g[x] = IF x = r THEN s ELSE f[x]
    PROVE  g = [f EXCEPT ![r] = s]
OBVIOUS

\* An update of the job's only instance.
LEMMA OnlyInstance ==
    ASSUME NEW f, NEW g, NEW r, NEW s, g = [f EXCEPT ![r] = s]
    PROVE  [i \in 1..1 |-> g] = [[i \in 1..1 |-> f] EXCEPT ![1][r] = s]
<1> DEFINE F == [i \in 1..1 |-> f]
<1>1. F[1] = f /\ 1 \in 1..1 /\ \A i \in 1..1 : i = 1
    OBVIOUS
<1>2. [F EXCEPT ![1][r] = s] =
        [i \in 1..1 |-> IF i = 1 THEN [F[1] EXCEPT ![r] = s] ELSE F[i]]
    OBVIOUS
<1>3. QED
    BY <1>1, <1>2

\* What is seen of one record, before and after a step.
LEMMA SeenValues ==
    /\ SeenStatus = [r \in Records |-> SeenStatus[r]]
    /\ SeenStatus' = [r \in Records |-> SeenStatus'[r]]
    /\ SeenFile = [r \in Records |-> SeenFile[r]]
    /\ SeenFile' = [r \in Records |-> SeenFile'[r]]
    /\ \A r \in Records :
        /\ SeenStatus[r] = IF status[r] \in {"downloading", "failed"}
                           THEN "queued" ELSE status[r]
        /\ SeenStatus'[r] = IF status'[r] \in {"downloading", "failed"}
                            THEN "queued" ELSE status'[r]
        /\ SeenFile[r] = IF file[r] = Size[r] THEN "full"
                         ELSE IF file[r] = 0 THEN "none" ELSE "wrong"
        /\ SeenFile'[r] = IF file'[r] = Size[r] THEN "full"
                          ELSE IF file'[r] = 0 THEN "none" ELSE "wrong"
<1>1. /\ SeenStatus = [r \in Records |-> SeenStatus[r]]
      /\ SeenStatus' = [r \in Records |-> SeenStatus'[r]]
      /\ \A r \in Records :
          /\ SeenStatus[r] = IF status[r] \in {"downloading", "failed"}
                             THEN "queued" ELSE status[r]
          /\ SeenStatus'[r] = IF status'[r] \in {"downloading", "failed"}
                              THEN "queued" ELSE status'[r]
    BY DEF SeenStatus
<1>2. /\ SeenFile = [r \in Records |-> SeenFile[r]]
      /\ SeenFile' = [r \in Records |-> SeenFile'[r]]
    BY DEF SeenFile
<1>3. \A r \in Records :
        /\ SeenFile[r] = IF file[r] = Size[r] THEN "full"
                         ELSE IF file[r] = 0 THEN "none" ELSE "wrong"
        /\ SeenFile'[r] = IF file'[r] = Size[r] THEN "full"
                          ELSE IF file'[r] = 0 THEN "none" ELSE "wrong"
    BY DEF SeenFile
<1>4. QED
    BY <1>1, <1>2, <1>3

LEMMA SetStatusSeen ==
    ASSUME NEW r \in Records, NEW s,
           \A q \in Records :
              SeenStatus'[q] = IF q = r THEN s ELSE SeenStatus[q]
    PROVE  Seen!SetStatus(1, r, s)
<1>1. SeenStatus' = [SeenStatus EXCEPT ![r] = s]
    BY SeenValues, OneValueNew
<1>2. QED
    BY <1>1, OnlyInstance DEF Seen!SetStatus

LEMMA SetFileSeen ==
    ASSUME NEW r \in Records, NEW f,
           \A q \in Records : SeenFile'[q] = IF q = r THEN f ELSE SeenFile[q]
    PROVE  Seen!SetFile(1, r, f)
<1>1. SeenFile' = [SeenFile EXCEPT ![r] = f]
    BY SeenValues, OneValueNew
<1>2. QED
    BY <1>1, OnlyInstance DEF Seen!SetFile

LEMMA StatusUnseen ==
    ASSUME \A r \in Records : SeenStatus'[r] = SeenStatus[r]
    PROVE  SeenStatus' = SeenStatus
BY SeenValues, SameValues

LEMMA FileUnseen ==
    ASSUME UNCHANGED file
    PROVE  SeenFile' = SeenFile
BY DEF SeenFile

\* A transfer of the record under way, whatever it leaves on disk.
LEMMA TransferSeen ==
    ASSUME TypeOK, rec \in Records, SeenStatus[rec] = "queued", InCloud,
           UNCHANGED <<cloud, status>>, ~IsFull(rec),
           \E n \in Nat : file' = [file EXCEPT ![rec] = n]
    PROVE  Seen!Fetch(1, rec)
<1>1. \A q \in Records : q # rec => file'[q] = file[q]
    OBVIOUS
<1>2. SeenFile[rec] # "full"
    BY SeenValues
<1>3. SeenFile'[rec] \in {"none", "wrong", "full"}
    BY SeenValues
<1>4. \A q \in Records :
        SeenFile'[q] = IF q = rec THEN SeenFile'[rec] ELSE SeenFile[q]
    BY <1>1, SeenValues
<1>5. Seen!SetFile(1, rec, SeenFile'[rec])
    BY <1>4, SetFileSeen
<1>6. SeenStatus' = SeenStatus
    BY DEF SeenStatus
<1>7. QED
    BY <1>2, <1>3, <1>5, <1>6
    DEF Seen!Fetch, Seen!Files, Seen!jobVars, InCloud

\* The two steps of an eviction.
LEMMA EvictRemoveSeen ==
    ASSUME IInv, NEW r \in Records, EvictRemove(r)
    PROVE  Seen!RemoveFile(1, r)
<1>1. /\ status[r] = "downloaded" /\ IsFull(r) /\ file[r] # 0
      /\ file' = [file EXCEPT ![r] = 0]
      /\ UNCHANGED <<cloud, status>>
    BY DEF EvictRemove, IsNextListed, RemoveFolder, IInv, EvictsArchived,
           ArchivedStatus, CompleteCopy
<1>2. SeenStatus[r] = "downloaded" /\ SeenFile[r] # "none"
    BY <1>1, SeenValues
<1>3. \A q \in Records : SeenFile'[q] = IF q = r THEN "none" ELSE SeenFile[q]
    <2>1. \A q \in Records : file'[q] = IF q = r THEN 0 ELSE file[q]
        BY <1>1 DEF IInv
    <2>2. QED
        BY <2>1, SeenValues
<1>4. SeenStatus' = SeenStatus
    BY <1>1 DEF SeenStatus
<1>5. QED
    BY <1>1, <1>2, <1>3, <1>4, SetFileSeen DEF Seen!RemoveFile, Seen!jobVars

LEMMA EvictMarkSeen ==
    ASSUME IInv, EvictMark
    PROVE  \/ victim \in Records /\ Seen!MarkDeleted(1, victim)
           \/ UNCHANGED <<cloud, SeenStatus, SeenFile>>
<1>1. /\ victim \in Records /\ file[victim] = 0
      /\ status[victim] \in {"downloaded", "deleted"}
      /\ UNCHANGED <<cloud, file>>
      /\ status' = status \/ status' = [status EXCEPT ![victim] = "deleted"]
    BY DEF EvictMark, TryUpdate, UpdateRecord, IInv, EvictsArchived,
           ArchivedStatus
<1>2. SeenFile' = SeenFile
    BY <1>1, FileUnseen
<1>3. CASE status' = status \/ status[victim] = "deleted"
    <2>1. \A r \in Records : status'[r] = status[r]
        BY <1>1, <1>3 DEF IInv
    <2>2. QED
        BY <1>1, <1>2, <2>1, SeenValues, StatusUnseen
<1>4. CASE status' # status /\ status[victim] = "downloaded"
    <2>1. \A r \in Records :
            status'[r] = IF r = victim THEN "deleted" ELSE status[r]
        BY <1>1, <1>4 DEF IInv
    <2>2. /\ SeenStatus[victim] = "downloaded" /\ SeenFile[victim] = "none"
          /\ \A r \in Records :
              SeenStatus'[r] = IF r = victim THEN "deleted" ELSE SeenStatus[r]
        BY <1>1, <1>4, <2>1, SeenValues
    <2>3. QED
        BY <1>1, <1>2, <2>2, SetStatusSeen DEF Seen!MarkDeleted, Seen!jobVars
<1>5. QED
    BY <1>1, <1>3, <1>4

LEMMA MarkDownloadedSeen ==
    ASSUME IInv, MarkDownloaded
    PROVE  rec \in Records /\ Seen!Obtain(1, rec)
<1>1. /\ rec \in Records /\ IsFull(rec)
      /\ status[rec] \in {"queued", "downloading", "failed"}
      /\ status' = [status EXCEPT ![rec] = "downloaded"]
      /\ UNCHANGED <<cloud, file>>
    BY DEF MarkDownloaded, UpdateRecord, IInv, InFlight
<1>2. \A r \in Records :
        status'[r] = IF r = rec THEN "downloaded" ELSE status[r]
    BY <1>1 DEF IInv
<1>3. /\ SeenStatus[rec] = "queued" /\ SeenFile[rec] = "full"
      /\ \A r \in Records :
          SeenStatus'[r] = IF r = rec THEN "downloaded" ELSE SeenStatus[r]
    BY <1>1, <1>2, SeenValues
<1>4. QED
    BY <1>1, <1>3, SetStatusSeen, FileUnseen DEF Seen!Obtain, Seen!jobVars

LEMMA RecordsSeen ==
    ASSUME TypeOK, NEW m \in Meetings
    PROVE  Seen!RecordsIn(1, m) = GetRecords(m)
<1>1. \A r \in Records : SeenStatus[r] = "absent" <=> status[r] = "absent"
    BY SeenValues
<1>2. 1 \in 1..1
    OBVIOUS
<1>3. QED
    BY <1>1, <1>2 DEF Seen!RecordsIn, Seen!RecordsOf

LEMMA PurgeSeen ==
    ASSUME IInv, Purge
    PROVE  RecMeeting \in Meetings /\ Seen!Purge(1, RecMeeting)
<1>1. /\ rec \in Records /\ RecMeeting \in Meetings
      /\ status[rec] # "absent"
      /\ MeetingRecordsLoaded(RecMeeting)
      /\ DeleteDownloaded \/ TrashDownloaded
      /\ UNCHANGED <<status, file>>
      /\ DeleteMeetingRecordings(RecMeeting, DeleteDownloaded)
    BY DEF Purge, IInv, InFlight, PurgeDecided
<1>2. /\ Seen!RecordsIn(1, RecMeeting) = GetRecords(RecMeeting)
      /\ rec \in GetRecords(RecMeeting)
    BY <1>1, RecordsSeen DEF IInv
<1>3. \A r \in Seen!RecordsIn(1, RecMeeting) :
        [i \in 1..1 |-> SeenStatus][1][r] = "downloaded"
    <2>1. \A r \in GetRecords(RecMeeting) : SeenStatus[r] = "downloaded"
        BY <1>1, SeenValues DEF MeetingRecordsLoaded
    <2>2. [i \in 1..1 |-> SeenStatus][1] = SeenStatus
        OBVIOUS
    <2>3. QED
        BY <1>2, <2>1, <2>2
<1>4. Seen!DeleteMeetingRecordings(RecMeeting, DeleteDownloaded)
    BY <1>1
    DEF DeleteMeetingRecordings, DeleteAction, MayDelete,
        Seen!DeleteMeetingRecordings, Seen!DeleteAction, Seen!MayDelete
<1>5. SeenStatus' = SeenStatus /\ SeenFile' = SeenFile
    BY <1>1 DEF SeenStatus, SeenFile
<1>6. QED
    BY <1>1, <1>2, <1>3, <1>4, <1>5 DEF Seen!Purge, Seen!fleetVars, Seen!jobVars

LEMMA SaveSeen ==
    ASSUME IInv, NEW m \in Meetings, Save(m)
    PROVE  Seen!Store(1, m)
<1>1. /\ cloud[m] = "present" /\ Selected(m) # {}
      /\ UNCHANGED <<cloud, file>>
      /\ GetRecords(m) = {}
      /\ \A r \in Records :
           status'[r] = IF r \in Selected(m) THEN "queued" ELSE status[r]
    BY DEF Save, IInv, WholeMeetings
<1> DEFINE Stored == [r \in Records |-> IF r \in Selected(m) THEN "queued"
                                        ELSE SeenStatus[r]]
<1>2. SeenFile' = SeenFile
    BY <1>1, FileUnseen
<1>3. SeenStatus' = Stored
    <2>1. \A r \in Records : SeenStatus'[r] = Stored[r]
        BY <1>1, SeenValues
    <2>2. Stored = [r \in Records |-> Stored[r]]
        OBVIOUS
    <2> HIDE DEF Stored
    <2>3. QED
        BY <2>1, <2>2, SeenValues, SameValues
<1>4. Seen!RecordsIn(1, m) = {}
    BY <1>1, RecordsSeen DEF IInv
<1>5. [i \in 1..1 |-> SeenStatus'] =
        [[i \in 1..1 |-> SeenStatus] EXCEPT ![1] =
            [r \in Records |-> IF r \in Selected(m) THEN "queued" ELSE @[r]]]
    <2>1. 1 \in 1..1 /\ \A i \in 1..1 : i = 1
        OBVIOUS
    <2>2. QED
        BY <1>3, <2>1
<1>6. \E S \in SUBSET Seen!Selected(m) :
        /\ S # {}
        /\ S = Seen!Selected(m) \/ Seen!MayFail("db")
        /\ [i \in 1..1 |-> SeenStatus'] =
             [[i \in 1..1 |-> SeenStatus] EXCEPT ![1] =
                [r \in Records |-> IF r \in S THEN "queued" ELSE @[r]]]
    <2>1. Seen!Selected(m) = Selected(m)
        BY SameSelectionSeen
    <2> HIDE DEF Stored
    <2>2. WITNESS Seen!Selected(m) \in SUBSET Seen!Selected(m)
    <2>3. QED
        BY <1>1, <1>5, <2>1
<1>7. QED
    BY <1>1, <1>2, <1>4, <1>6 DEF Seen!Store, Seen!jobVars

\* Every step of the job is a step of an instance of Cleanup, or unseen.
LEMMA StepSeen ==
    ASSUME IInv, [Next]_vars
    PROVE  Seen!InstanceStep \/ UNCHANGED <<cloud, SeenStatus, SeenFile>>
<1> DEFINE Unseen == UNCHANGED <<cloud, SeenStatus, SeenFile>>
           Goal == Seen!InstanceStep \/ Unseen
<1>0. 1 \in Seen!Fleet
    BY DEF Seen!Fleet
<1>1. CASE UNCHANGED <<status, file, cloud>>
    BY <1>1 DEF SeenStatus, SeenFile
<1>2. CASE FetchComplete \/ FetchResumed \/ FetchBroken \/ Crash
    <2>1. UNCHANGED <<cloud, status>>
        BY <1>2 DEF FetchComplete, FetchResumed, FetchBroken, Crash
    <2>2. CASE UNCHANGED file
        BY <1>1, <2>1, <2>2
    <2>3. CASE ~UNCHANGED file
        <3>1. /\ At("fetch") /\ InCloud /\ ~IsFull(rec)
              /\ \E n \in Nat : file' = [file EXCEPT ![rec] = n]
            <4>1. CASE FetchComplete
                <5>1. /\ At("fetch") /\ InCloud
                      /\ file' = [file EXCEPT ![rec] = Size[rec]]
                    BY <4>1 DEF FetchComplete
                <5>2. rec \in Records /\ file \in [Records -> Nat]
                    BY <5>1 DEF IInv, InFlight
                <5>3. IsFull(rec) => file' = file
                    BY <5>1, <5>2
                <5>4. Size[rec] \in Nat
                    BY <5>2
                <5>5. QED
                    BY <2>3, <5>1, <5>3, <5>4
            <4>2. CASE FetchResumed
                <5>1. /\ At("fetch") /\ InCloud
                      /\ file[rec] \in 1..(Size[rec] - 1)
                      /\ file' = [file EXCEPT ![rec] = Size[rec]]
                    BY <4>2 DEF FetchResumed
                <5>2. Size[rec] \in Nat
                    BY <5>1 DEF IInv, InFlight
                <5>3. ~IsFull(rec)
                    BY <5>1, <5>2
                <5>4. \E n \in Nat : file' = [file EXCEPT ![rec] = n]
                    BY <5>1, <5>2
                <5>5. QED
                    BY <5>1, <5>3, <5>4
            <4>3. CASE FetchBroken \/ Crash
                BY <2>3, <4>3 DEF FetchBroken, FillsDrive, Crash, Interrupted
            <4>4. QED
                BY <1>2, <4>1, <4>2, <4>3
        <3>2. rec \in Records /\ SeenStatus[rec] = "queued"
            BY <3>1, SeenValues DEF IInv, InFlight
        <3>3. Seen!Fetch(1, rec)
            BY <2>1, <3>1, <3>2, TransferSeen DEF IInv
        <3>4. QED
            BY <1>0, <3>2, <3>3 DEF Seen!InstanceStep
    <2>4. QED
        BY <2>2, <2>3
<1>3. CASE RequeueFailed \/ Claim \/ MarkFailed
    <2>1. UNCHANGED <<cloud, file>>
        BY <1>3 DEF RequeueFailed, Claim, MarkFailed
    <2>2. \A r \in Records :
            \/ status'[r] = status[r]
            \/ /\ status[r] \in {"queued", "downloading", "failed"}
               /\ status'[r] \in {"queued", "downloading", "failed"}
        BY <1>3
        DEF RequeueFailed, ResetFailedRecords, Claim, MarkFailed, TryUpdate,
            UpdateRecord, IInv, InFlight
    <2>3. \A r \in Records : SeenStatus'[r] = SeenStatus[r]
        BY <2>2, SeenValues
    <2>4. QED
        BY <2>1, <2>3, StatusUnseen, FileUnseen
<1>4. ASSUME NEW r \in Records, EvictRemove(r) PROVE Goal
    BY <1>0, <1>4, EvictRemoveSeen DEF Seen!InstanceStep
<1>5. CASE EvictMark
    BY <1>0, <1>5, EvictMarkSeen DEF Seen!InstanceStep
<1>6. CASE MarkDownloaded
    BY <1>0, <1>6, MarkDownloadedSeen DEF Seen!InstanceStep
<1>7. CASE Purge
    BY <1>0, <1>7, PurgeSeen DEF Seen!InstanceStep
<1>8. ASSUME NEW m \in Meetings, Save(m) PROVE Goal
    BY <1>0, <1>8, SaveSeen DEF Seen!InstanceStep
<1>9. ASSUME NEW m \in Meetings, TrimCloud(m) PROVE Goal
    <2>1. SeenStatus' = SeenStatus /\ SeenFile' = SeenFile
        BY <1>9 DEF TrimCloud, SeenStatus, SeenFile
    <2>2. Seen!OthersDelete(m)
        BY <1>9, <2>1
        DEF TrimCloud, MayFail, Seen!OthersDelete, Seen!MayFail,
            Seen!fleetVars, Seen!jobVars
    <2>3. QED
        BY <2>2 DEF Seen!InstanceStep
<1>10. CASE UNCHANGED vars
    BY <1>10, <1>1 DEF vars
<1>11. ASSUME FreeUpSpace PROVE Goal
    <2>1. CASE \E r \in Records : EvictRemove(r)
        BY <1>4, <2>1
    <2>2. CASE ~\E r \in Records : EvictRemove(r)
        <3>1. EvictMark \/ UNCHANGED <<status, file, cloud>>
            BY <1>11, <2>2
            DEF FreeUpSpace, SpaceIsFree, ListDownloaded, SpaceFails,
                EvictDone, EvictSkip, EvictFails
        <3>2. QED
            BY <1>1, <1>5, <3>1
    <2>3. QED
        BY <2>1, <2>2
<1>12. ASSUME DownloadRecord PROVE Goal
    <2>1. \/ FreeUpSpace \/ FetchComplete \/ FetchResumed \/ FetchBroken
          \/ Claim \/ MarkFailed \/ MarkDownloaded
          \/ UNCHANGED <<status, file, cloud>>
        BY <1>12
        DEF DownloadRecord, GotToken, TokenRefused, Prepare, PrepareFails,
            FetchRefused, MarkFails
    <2> HIDE DEF Goal
    <2>2. QED
        BY <1>1, <1>2, <1>3, <1>6, <1>11, <2>1 DEF Goal
<1>13. ASSUME DownloadOnce PROVE Goal
    <2>1. \/ DownloadRecord \/ RequeueFailed \/ Purge
          \/ UNCHANGED <<status, file, cloud>>
        BY <1>13
        DEF DownloadOnce, PickQueued, FindNoQueued, CheckLoaded,
            CheckLoadedFails, PurgeFails
    <2>2. QED
        BY <1>1, <1>3, <1>7, <1>12, <2>1
<1> HIDE DEF Goal
<1>14. Goal
    BY <1>2, <1>8, <1>9, <1>10, <1>13 DEF Next, Environment, Goal
<1>15. QED
    BY <1>14 DEF Goal

\* The download job implements the instance that module Cleanup supposes, so
\* what is proved there of the trash command rests on nothing else than what
\* this job does, for any failures and restarts.
THEOREM ServesCleanupCorrect == Spec => ServesCleanup
<1>1. Init => Seen!Init
    BY DEF Init, EmptyStore, EmptyDisk, FullCloud, SeenStatus, SeenFile,
           Seen!Init, Seen!FullCloud, Seen!Fleet
<1>2. IInv /\ [Next]_vars => [Seen!Next]_(Seen!vars)
    BY StepSeen, StepIsSeen
<1>3. QED
    BY <1>1, <1>2, IInvCorrect, PTL DEF Spec, ServesCleanup, Seen!Spec

=============================================================================
