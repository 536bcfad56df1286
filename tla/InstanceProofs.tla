--------------------------- MODULE InstanceProofs ---------------------------
(***************************************************************************)
(* Theorems about a whole instance, the sync job beside the download job,  *)
(* for every account, drive, set of failures and number of restarts.       *)
(***************************************************************************)
EXTENDS Instance, DownloadJobProofs

USE RecordingsAssumption, FailuresAssumption, DiskAssumption, SyncJobAssumption
USE DEF At, Goto, Return, NoRecord, storeVars, localVars, history, jobVars,
        RecMeeting, GetRecords, HasMeeting, GetRecordsByStatus, RecordsOf,
        Statuses, Steps, Downloading, IsFull,
        TypeOK, StoreTypeOK, CloudTypeOK, DiskTypeOK, syncVars, SyncTypeOK

\* The rows, while SaveMeeting writes them one at a time: a row to come is
\* one of a meeting that has its own row already; a row that is there is one
\* of the records selected from a saved meeting; and no row is lacking but
\* those to come and those of meetings cut short.
SyncInv ==
    /\ SyncTypeOK
    /\ cutShort \subseteq Meetings
    /\ spc # "records" => todo = {}
    /\ \A r \in todo :
         /\ status[r] = "absent"
         /\ MeetingOf[r] \in saved
         /\ r \in Selected(MeetingOf[r])
    /\ \A r \in Records :
         status[r] # "absent" =>
            MeetingOf[r] \in saved /\ r \in Selected(MeetingOf[r])
    /\ \A m \in saved \ cutShort :
         \A r \in Selected(m) \ todo : status[r] # "absent"

\* Once the job has decided to remove a meeting, every row of it that was
\* there when it decided is downloaded.
DecidedRows ==
    At("purge") =>
        \A r \in GetRecords(RecMeeting) : r \in archived \/ status[r] = "queued"

InstanceInv == JobInv /\ SyncInv /\ DecidedRows

LEMMA InitInstance == InstanceInit => InstanceInv
<1> SUFFICES ASSUME InstanceInit PROVE InstanceInv
    OBVIOUS
<1>1. IInv
    BY InitIInv DEF InstanceInit
<1>2. JobInv /\ DecidedRows
    BY <1>1 DEF IInv, JobInv, DecidedRows, InstanceInit, Init
<1>3. SyncInv
    BY DEF InstanceInit, Init, SyncInit, EmptyStore, SyncInv
<1>4. QED
    BY <1>2, <1>3 DEF InstanceInv

\* Steps of the sync job that insert no row of a record.
LEMMA NoNewRecord ==
    ASSUME InstanceInv, UNCHANGED <<status, file, jobVars>>,
           saved \subseteq saved', saved' \subseteq Meetings, CloudTypeOK'
    PROVE  JobInv' /\ DecidedRows'
BY DEF InstanceInv, JobInv, ArchivedStatus, InFlight, EvictsArchived,
       CompleteCopy, DecidedRows

\* SaveMeeting, done or interrupted, takes no row back.
LEMMA StopKeeps ==
    ASSUME InstanceInv, SyncStops, RememberCut, UNCHANGED <<saved, status>>
    PROVE  SyncInv'
BY DEF InstanceInv, JobInv, SyncInv, SyncStops, RememberCut, Saving

LEMMA NextInstance == InstanceInv /\ [InstanceNext]_instanceVars => InstanceInv'
<1> SUFFICES ASSUME InstanceInv, [InstanceNext]_instanceVars
             PROVE  InstanceInv'
    OBVIOUS
<1>1. CASE Sync
    <2>1. UNCHANGED <<file, jobVars>>
        BY <1>1 DEF Sync
    <2>2. CASE \E S \in SUBSET Meetings : GetFeed(S)
        <3>1. UNCHANGED <<storeVars, cloud, todo, cutShort>> /\ spc' = "feed"
                /\ feed' \subseteq Meetings /\ spc = "idle"
            BY <1>1, <2>2 DEF Sync, GetFeed
        <3>2. SyncInv'
            BY <3>1 DEF InstanceInv, SyncInv
        <3>3. QED
            BY <2>1, <3>1, <3>2, NoNewRecord DEF InstanceInv, JobInv
    <2>3. CASE FeedDone \/ SaveFails
        <3>1. SyncStops /\ RememberCut /\ UNCHANGED <<storeVars, cloud>>
            BY <1>1, <2>3 DEF Sync, FeedDone, SaveFails, SyncStops
        <3>2. QED
            BY <2>1, <3>1, NoNewRecord, StopKeeps DEF InstanceInv, JobInv
    <2>4. ASSUME NEW m \in Meetings,
                 SkipShort(m) \/ SkipSaved(m) \/ SkipEmpty(m)
          PROVE  InstanceInv'
        <3>1. /\ UNCHANGED <<storeVars, todo, spc, cutShort>>
              /\ feed' \subseteq Meetings
            BY <1>1, <2>4
            DEF Sync, SkipShort, SkipSaved, SkipEmpty, Visit, InstanceInv, SyncInv
        <3>2. CloudTypeOK'
            BY <2>4
            DEF SkipShort, SkipSaved, SkipEmpty, DropSkipped, InstanceInv,
                JobInv, DeleteMeetingRecordings, DeleteAction
        <3>3. SyncInv'
            BY <3>1 DEF InstanceInv, SyncInv
        <3>4. QED
            BY <2>1, <3>1, <3>2, <3>3, NoNewRecord DEF InstanceInv, JobInv
    <2>5. ASSUME NEW m \in Meetings, InsertMeeting(m) PROVE InstanceInv'
        <3>1. /\ UNCHANGED <<status, cloud, cutShort>>
              /\ saved' = saved \cup {m} /\ m \notin saved
              /\ spc' = "records" /\ todo' = Selected(m) /\ todo = {}
              /\ feed' \subseteq Meetings
            BY <1>1, <2>5
            DEF Sync, InsertMeeting, InsertMeetingRow, Visit, InstanceInv, SyncInv
        <3>2. Selected(m) \subseteq RecordsOf(m)
            BY SelectedAreRecords
        <3>3. SyncInv'
            BY <3>1, <3>2 DEF InstanceInv, SyncInv
        <3>4. QED
            BY <2>1, <3>1, <3>3, NoNewRecord DEF InstanceInv, JobInv
    <2>6. ASSUME NEW r \in Records, InsertRecord(r) PROVE InstanceInv'
        <3>1. /\ UNCHANGED <<saved, cloud, feed, cutShort>>
              /\ status[r] = "absent" /\ r \in todo
              /\ status' = [status EXCEPT ![r] = "queued"]
              /\ todo' = todo \ {r}
              /\ spc' = IF todo = {r} THEN "feed" ELSE "records"
            BY <1>1, <2>6 DEF Sync, InsertRecord, InsertRecordRow
        <3>2. \A q \in Records :
                status'[q] = IF q = r THEN "queued" ELSE status[q]
            BY <3>1 DEF InstanceInv, JobInv
        <3>3. SyncInv'
            BY <3>1, <3>2 DEF InstanceInv, SyncInv
        <3>4. TypeOK'
            BY <2>1, <3>1 DEF InstanceInv, JobInv
        <3>5. r \notin archived
            BY <3>1 DEF InstanceInv, JobInv, ArchivedStatus
        <3>6. ArchivedStatus'
            BY <2>1, <3>2, <3>5 DEF InstanceInv, JobInv, ArchivedStatus
        <3>7. EvictsArchived' /\ CompleteCopy'
            BY <2>1, <3>2 DEF InstanceInv, JobInv, EvictsArchived, CompleteCopy
        <3>8. InFlight'
            <4>1. rec \in Records /\ status[rec] # "absent" => status'[rec] = status[rec]
                BY <3>1, <3>2
            <4>2. QED
                BY <2>1, <3>2, <4>1 DEF InstanceInv, JobInv, InFlight
        <3>9. DecidedRows'
            BY <2>1, <3>2 DEF InstanceInv, DecidedRows
        <3>10. QED
            BY <3>3, <3>4, <3>6, <3>7, <3>8, <3>9 DEF InstanceInv, JobInv
    <2>7. QED
        BY <1>1, <2>2, <2>3, <2>4, <2>5, <2>6 DEF Sync, SyncStep
<1>2. CASE Download \/ Restart
    <2>1. DownloadOnce \/ Crash
        BY <1>2 DEF Download, Restart
    <2>2. JobInv' /\ RowsKept
        BY <2>1, JobStep DEF InstanceInv
    <2>3. SyncInv'
        <3>1. CASE Download
            <4>1. /\ UNCHANGED <<saved, syncVars, cutShort>>
                  /\ \A r \in Records :
                        status[r] = "absent" <=> status'[r] = "absent"
                BY <2>2, <3>1 DEF Download, RowsKept
            <4>2. \A m \in saved : Selected(m) \subseteq Records
                BY SelectedAreRecords DEF InstanceInv, JobInv
            <4>3. QED
                BY <4>1, <4>2 DEF InstanceInv, SyncInv
        <3>2. CASE Restart
            <4>1. UNCHANGED <<saved, status>> /\ SyncStops /\ RememberCut
                BY <3>2 DEF Restart, Crash
            <4>2. QED
                BY <4>1, StopKeeps
        <3>3. QED
            BY <1>2, <3>1, <3>2
    <2>4. DecidedRows'
        BY <2>1, DecidesToPurge
        DEF InstanceInv, JobInv, DecidedRows, MeetingRecordsLoaded, ArchivedStatus
    <2>5. QED
        BY <2>2, <2>3, <2>4 DEF InstanceInv
<1>3. CASE Trim
    <2>1. /\ UNCHANGED <<storeVars, file, jobVars, syncVars, cutShort>>
          /\ CloudTypeOK'
        BY <1>3 DEF Trim, TrimCloud, InstanceInv, JobInv
    <2>2. SyncInv'
        BY <2>1 DEF InstanceInv, SyncInv
    <2>3. QED
        BY <2>1, <2>2, NoNewRecord DEF InstanceInv, JobInv
<1>4. CASE UNCHANGED instanceVars
    <2>1. UNCHANGED <<storeVars, cloud, file, jobVars, syncVars, cutShort>>
        BY <1>4 DEF instanceVars, vars
    <2>2. SyncInv'
        BY <2>1 DEF InstanceInv, SyncInv
    <2>3. QED
        BY <2>1, <2>2, NoNewRecord DEF InstanceInv, JobInv
<1>5. QED
    BY <1>1, <1>2, <1>3, <1>4 DEF InstanceNext

-----------------------------------------------------------------------------
LEMMA InstanceInvCorrect == InstanceSpec => []InstanceInv
<1>1. QED
    BY InitInstance, NextInstance, PTL DEF InstanceSpec

\* The variables of both jobs and of their stores keep their types.
THEOREM InstanceTypeCorrect == InstanceSpec => []InstanceTypeOK
<1>1. InstanceInv => InstanceTypeOK
    BY DEF InstanceInv, JobInv, SyncInv, InstanceTypeOK
<1>2. QED
    BY <1>1, InstanceInvCorrect, PTL

\* A meeting lacks a selected record in the database only while SaveMeeting
\* writes it, or if SaveMeeting was once cut short.
THEOREM RowsLostOnlyByCutCorrect == InstanceSpec => []RowsLostOnlyByCut
<1>1. InstanceInv => RowsLostOnlyByCut
    <2> SUFFICES ASSUME InstanceInv, NEW m \in saved \ cutShort, ~Saving(m)
                 PROVE  GetRecords(m) = Selected(m)
        BY DEF RowsLostOnlyByCut
    <2>1. m \in Meetings
        BY DEF InstanceInv, JobInv
    <2>2. Selected(m) \subseteq RecordsOf(m)
        BY <2>1, SelectedAreRecords
    <2>3. \A r \in Selected(m) : status[r] # "absent"
        BY DEF InstanceInv, SyncInv, Saving
    <2>4. \A r \in RecordsOf(m) : status[r] # "absent" => r \in Selected(m)
        BY DEF InstanceInv, SyncInv
    <2>5. QED
        BY <2>2, <2>3, <2>4
<1>2. QED
    BY <1>1, InstanceInvCorrect, PTL

\* The status page says "OK" only when every record wanted from the saved
\* meetings was downloaded, but for rows that are being written or were cut.
THEOREM OkMeansDownloadedCorrect == InstanceSpec => []OkMeansDownloaded
<1>1. InstanceInv => OkMeansDownloaded
    <2> SUFFICES ASSUME InstanceInv, StatusWord = "OK",
                        NEW m \in saved \ cutShort, ~Saving(m),
                        NEW r \in Selected(m)
                 PROVE  r \in archived
        BY DEF OkMeansDownloaded
    <2>1. m \in Meetings /\ r \in Records
        BY SelectedAreRecords DEF InstanceInv, JobInv
    <2>2. status[r] # "absent"
        BY DEF InstanceInv, SyncInv, Saving
    <2>3. ~Some({"queued", "downloading"}) /\ ~Some({"failed"})
        BY DEF StatusWord
    <2>4. status[r] \in {"downloaded", "deleted"}
        BY <2>1, <2>2, <2>3 DEF Some, InstanceInv, JobInv
    <2>5. QED
        BY <2>1, <2>4 DEF InstanceInv, JobInv, ArchivedStatus
<1>2. QED
    BY <1>1, InstanceInvCorrect, PTL

\* The file of a record marked downloaded is complete or missing, beside the
\* sync job as well.
THEOREM InstanceCompleteCopy == InstanceSpec => []CompleteCopy
<1>1. InstanceInv => CompleteCopy
    BY DEF InstanceInv, JobInv
<1>2. QED
    BY <1>1, InstanceInvCorrect, PTL

\* A downloaded record never goes back to the queue, and an evicted one never
\* comes back, whatever rows the sync job writes in the meantime.
THEOREM InstanceArchivedIsFinal == InstanceSpec => ArchivedIsFinal
<1>1. ASSUME InstanceInv, [InstanceNext]_instanceVars PROVE Final
    <2>1. CASE DownloadOnce \/ Crash
        BY <1>1, <2>1, JobStep DEF InstanceInv, RowsKept
    <2>2. CASE Sync
        <3>1. \A r \in Records : status'[r] = status[r] \/ status[r] = "absent"
            BY <1>1, <2>2
            DEF Sync, SyncStep, GetFeed, FeedDone, SkipShort, SkipSaved,
                SkipEmpty, InsertMeeting, InsertRecord, InsertRecordRow,
                SaveFails, InstanceInv, JobInv
        <3>2. QED
            BY <3>1 DEF Final
    <2>3. CASE UNCHANGED status
        BY <2>3 DEF Final
    <2>4. QED
        BY <1>1, <2>1, <2>2, <2>3
        DEF InstanceNext, Download, Restart, Trim, TrimCloud, instanceVars, vars
<1>2. InstanceInv /\ [InstanceNext]_instanceVars => [Final]_vars
    BY <1>1
<1>3. QED
    BY InstanceInvCorrect, <1>2, PTL DEF InstanceSpec, ArchivedIsFinal, Final

\* The job decides to remove a meeting that it has not downloaded in full
\* only while SaveMeeting writes its records or after it was cut short.
THEOREM EarlyPurgeOnlyIfUnsavedCorrect == InstanceSpec => EarlyPurgeOnlyIfUnsaved
<1> DEFINE P == At("loaded") /\ At("purge")' =>
                  \/ Selected(RecMeeting) \subseteq archived
                  \/ Saving(RecMeeting)
                  \/ RecMeeting \in cutShort
<1>1. InstanceInv /\ [InstanceNext]_instanceVars => [P]_instanceVars
    <2> SUFFICES ASSUME InstanceInv, InstanceNext, At("loaded"), At("purge")',
                        ~Saving(RecMeeting), RecMeeting \notin cutShort,
                        NEW r \in Selected(RecMeeting)
                 PROVE  r \in archived
        OBVIOUS
    <2>1. DownloadOnce \/ Crash
        <3>1. dpc' # dpc
            OBVIOUS
        <3>2. QED
            BY <3>1 DEF InstanceNext, Sync, Trim, TrimCloud, Download, Restart
    <2>2. MeetingRecordsLoaded(RecMeeting)
        BY <2>1, DecidesToPurge DEF InstanceInv
    <2>3. rec \in Records /\ status[rec] # "absent"
        BY DEF InstanceInv, JobInv, InFlight
    <2>4. RecMeeting \in saved /\ RecMeeting \in Meetings
        BY <2>3 DEF InstanceInv, SyncInv
    <2>5. r \in RecordsOf(RecMeeting) /\ status[r] # "absent"
        BY <2>4, SelectedAreRecords DEF InstanceInv, SyncInv, Saving
    <2>6. QED
        BY <2>2, <2>5 DEF MeetingRecordsLoaded, InstanceInv, JobInv, ArchivedStatus
<1>2. QED
    BY <1>1, InstanceInvCorrect, PTL DEF InstanceSpec, EarlyPurgeOnlyIfUnsaved

\* Of the stored records, a removal loses those alone whose rows were written
\* after meetingRecordsLoaded had looked.
THEOREM PurgeLosesOnlyNewRowsCorrect == InstanceSpec => PurgeLosesOnlyNewRows
<1> DEFINE P == \A m \in purged' \ purged : \A r \in GetRecords(m) :
                  r \in archived \/ status[r] = "queued"
<1>1. InstanceInv /\ [InstanceNext]_instanceVars => [P]_instanceVars
    <2> SUFFICES ASSUME InstanceInv, InstanceNext,
                        NEW m \in purged' \ purged, NEW r \in GetRecords(m)
                 PROVE  r \in archived \/ status[r] = "queued"
        OBVIOUS
    <2>1. DownloadOnce \/ Crash
        <3>1. purged' # purged
            OBVIOUS
        <3>2. QED
            BY <3>1 DEF InstanceNext, Sync, Trim, TrimCloud, Download, Restart
    <2>2. At("purge") /\ m = RecMeeting
        BY <2>1, OnlyPurgeReleases DEF InstanceInv
    <2>3. QED
        BY <2>2 DEF InstanceInv, DecidedRows
<1>2. QED
    BY <1>1, InstanceInvCorrect, PTL DEF InstanceSpec, PurgeLosesOnlyNewRows

=============================================================================
