---------------------------- MODULE DownloadJob ----------------------------
(***************************************************************************)
(* The download job of one instance: DownloadOnce, repeated for ever, with *)
(* the eviction of old files (freeUpSpace), the download of one record     *)
(* (DownloadRecord) and the removal of a meeting from Zoom once all its    *)
(* records are downloaded.  A step is one call that another process, or a  *)
(* restart, can see the effect of.  Meetings enter the database whole      *)
(* here; module Instance replaces Save by the steps of the sync job.       *)
(***************************************************************************)
EXTENDS RecordStore, ZoomCloud, Disk, Failures

CONSTANT
    Mismatched      \* records whose file never has the recorded size or type

ASSUME DownloadJobAssumption == Mismatched \subseteq Records

VARIABLES
    dpc,        \* where the job is
    rec,        \* the record it works on, 0 if none
    listed,     \* freeUpSpace: the downloaded records still to visit
    victim,     \* freeUpSpace: the record whose folder was just removed
    crashes,    \* restarts so far
    archived,   \* history: the records that were once marked downloaded
    purged,     \* history: the meetings this job removed from Zoom
    missed      \* history: those it downloaded in full and will not remove

localVars == <<dpc, rec, listed, victim>>
history == <<archived, purged, missed>>
jobVars == <<localVars, crashes, history>>
vars == <<storeVars, cloud, file, jobVars>>

NoRecord == 0

Steps == {"idle", "reset", "token", "claim", "prepare", "space", "evict",
          "evicted", "fetch", "mark", "fail", "loaded", "purge"}

\* Type correctness of the job and of the stores it works on.
TypeOK ==
    /\ StoreTypeOK
    /\ CloudTypeOK
    /\ DiskTypeOK
    /\ dpc \in Steps
    /\ rec \in Records \cup {NoRecord}
    /\ listed \subseteq Records
    /\ victim \in Records \cup {NoRecord}
    /\ crashes \in 0..MaxCrashes
    /\ archived \subseteq Records
    /\ purged \subseteq Meetings
    /\ missed \subseteq Meetings

Init ==
    /\ EmptyStore
    /\ FullCloud
    /\ EmptyDisk
    /\ dpc = "idle"
    /\ rec = NoRecord
    /\ listed = {}
    /\ victim = NoRecord
    /\ crashes = 0
    /\ archived = {}
    /\ purged = {}
    /\ missed = {}

At(step) == dpc = step

Goto(step) ==
    /\ dpc' = step
    /\ UNCHANGED <<rec, listed, victim>>

\* DownloadOnce returns, and its caller will call it again.
Return ==
    /\ dpc' = "idle"
    /\ rec' = NoRecord
    /\ listed' = {}
    /\ victim' = NoRecord

\* UpdateRecord where its caller ignores the error.
TryUpdate(r, s) ==
    \/ UpdateRecord(r, s)
    \/ MayFail("db") /\ UNCHANGED status

RecMeeting == MeetingOf[rec]

-----------------------------------------------------------------------------
\* DownloadOnce: choose the record.

PickQueued(r) ==
    /\ At("idle")
    /\ IsQueuedFirst(r)
    /\ dpc' = "token"
    /\ rec' = r
    /\ UNCHANGED <<listed, victim, storeVars, cloud, file, crashes, history>>

FindNoQueued ==
    /\ At("idle")
    /\ NoQueued
    /\ Goto("reset")
    /\ UNCHANGED <<storeVars, cloud, file, crashes, history>>

RequeueFailed ==
    /\ At("reset")
    /\ \/ ResetFailedRecords
       \/ MayFail("db") /\ UNCHANGED status
    /\ Return
    /\ UNCHANGED <<saved, cloud, file, crashes, history>>

-----------------------------------------------------------------------------
\* DownloadRecord: token, claim, destination folder.

GotToken ==
    /\ At("token")
    /\ Goto("claim")
    /\ UNCHANGED <<storeVars, cloud, file, crashes, history>>

TokenRefused ==
    /\ At("token")
    /\ MayFail("api")
    /\ Return
    /\ UNCHANGED <<storeVars, cloud, file, crashes, history>>

Claim ==
    /\ At("claim")
    /\ TryUpdate(rec, "downloading")
    /\ Goto("prepare")
    /\ UNCHANGED <<saved, cloud, file, crashes, history>>

Prepare ==
    /\ At("prepare")
    /\ Goto("space")
    /\ UNCHANGED <<storeVars, cloud, file, crashes, history>>

\* The record stays "downloading".
PrepareFails ==
    /\ At("prepare")
    /\ MayFail("disk")
    /\ Return
    /\ UNCHANGED <<storeVars, cloud, file, crashes, history>>

-----------------------------------------------------------------------------
\* freeUpSpace.  Its caller logs an error and downloads all the same.

SpaceIsFree ==
    /\ At("space")
    /\ EnoughFree
    /\ Goto("fetch")
    /\ UNCHANGED <<storeVars, cloud, file, crashes, history>>

ListDownloaded ==
    /\ At("space")
    /\ ~EnoughFree
    /\ listed' = GetRecordsByStatus("downloaded")
    /\ dpc' = "evict"
    /\ UNCHANGED <<rec, victim, storeVars, cloud, file, crashes, history>>

SpaceFails ==
    /\ \/ MayFail("disk") /\ dpc \in {"space", "evict"}
       \/ MayFail("db") /\ At("space") /\ ~EnoughFree
    /\ dpc' = "fetch"
    /\ listed' = {}
    /\ UNCHANGED <<rec, victim, storeVars, cloud, file, crashes, history>>

\* Faulty variant: the loop ends after its first round.
EvictOnce ==
    /\ At("evict")
    /\ dpc' = "fetch"
    /\ listed' = {}
    /\ UNCHANGED <<rec, victim, storeVars, cloud, file, crashes, history>>

EvictDone ==
    /\ At("evict")
    /\ listed = {} \/ EnoughFree
    /\ dpc' = "fetch"
    /\ listed' = {}
    /\ UNCHANGED <<rec, victim, storeVars, cloud, file, crashes, history>>

\* Faulty variant: the most recent record goes first.
IsLastListed(r) ==
    /\ At("evict")
    /\ ~EnoughFree
    /\ r \in listed
    /\ \A q \in listed : StartTime[r] >= StartTime[q]

\* The loop visits the listed records by start time.
IsNextListed(r) ==
    /\ At("evict")
    /\ ~EnoughFree
    /\ r \in listed
    /\ \A q \in listed : StartTime[r] <= StartTime[q]

EvictSkip(r) ==
    /\ IsNextListed(r)
    /\ file[r] = 0
    /\ listed' = listed \ {r}
    /\ UNCHANGED <<dpc, rec, victim, storeVars, cloud, file, crashes, history>>

\* Faulty variant: the record keeps its status.
EvictRemoveUnmarked(r) ==
    /\ IsNextListed(r)
    /\ file[r] # 0
    /\ RemoveFolder(r)
    /\ listed' = listed \ {r}
    /\ UNCHANGED <<dpc, rec, victim, storeVars, cloud, crashes, history>>

EvictRemove(r) ==
    /\ IsNextListed(r)
    /\ file[r] # 0
    /\ RemoveFolder(r)
    /\ listed' = listed \ {r}
    /\ victim' = r
    /\ dpc' = "evicted"
    /\ UNCHANGED <<rec, storeVars, cloud, crashes, history>>

EvictFails(r) ==
    /\ IsNextListed(r)
    /\ file[r] # 0
    /\ MayFail("disk")
    /\ listed' = listed \ {r}
    /\ UNCHANGED <<dpc, rec, victim, storeVars, cloud, file, crashes, history>>

\* Faulty variant: an evicted record is queued again.
EvictRequeue ==
    /\ At("evicted")
    /\ TryUpdate(victim, "queued")
    /\ victim' = NoRecord
    /\ dpc' = "evict"
    /\ UNCHANGED <<rec, listed, saved, cloud, file, crashes, history>>

EvictMark ==
    /\ At("evicted")
    /\ TryUpdate(victim, "deleted")
    /\ victim' = NoRecord
    /\ dpc' = "evict"
    /\ UNCHANGED <<rec, listed, saved, cloud, file, crashes, history>>

-----------------------------------------------------------------------------
\* grab.Get and the checks of its response.

InCloud == cloud[RecMeeting] = "present"

\* Status 200.  A complete file left by an earlier try is accepted as it is.
FetchComplete ==
    /\ At("fetch")
    /\ InCloud
    /\ Fits(rec)
    /\ file' = [file EXCEPT ![rec] = Size[rec]]
    /\ Goto(IF rec \in Mismatched THEN "fail" ELSE "mark")
    /\ UNCHANGED <<storeVars, cloud, crashes, history>>

\* A partial file is completed by a range request: its status is 206, and
\* the job takes anything but 200 for a failure.
FetchResumed ==
    /\ At("fetch")
    /\ InCloud
    /\ file[rec] \in 1..(Size[rec] - 1)
    /\ Fits(rec)
    /\ file' = [file EXCEPT ![rec] = Size[rec]]
    /\ Goto("fail")
    /\ UNCHANGED <<storeVars, cloud, crashes, history>>

\* What an interrupted transfer leaves on disk.  It appends to a partial file,
\* or starts over when the server does not resume.
Interrupted(r) ==
    /\ ~IsFull(r)
    /\ \E n \in 0..(Size[r] - 1) :
        /\ n - file[r] <= Free
        /\ file' = [file EXCEPT ![r] = n]

\* The drive is full before the file is complete.
FillsDrive(r) ==
    /\ Interrupted(r)
    /\ file'[r] = file[r] + Free

\* Faulty variant: the error of grab.Get is overlooked.
FetchBrokenUnnoticed ==
    /\ At("fetch")
    /\ InCloud
    /\ \/ MayFail("net") /\ (Interrupted(rec) \/ UNCHANGED file)
       \/ ~Fits(rec) /\ FillsDrive(rec)
    /\ Goto("mark")
    /\ UNCHANGED <<storeVars, cloud, crashes, history>>

FetchBroken ==
    /\ At("fetch")
    /\ InCloud
    /\ \/ MayFail("net") /\ (Interrupted(rec) \/ UNCHANGED file)
       \/ ~Fits(rec) /\ FillsDrive(rec)
    /\ Goto("fail")
    /\ UNCHANGED <<storeVars, cloud, crashes, history>>

\* Any other answer: the recording is gone or Zoom turns the request down.
FetchRefused ==
    /\ At("fetch")
    /\ ~InCloud \/ MayFail("api")
    /\ Goto("fail")
    /\ UNCHANGED <<storeVars, cloud, file, crashes, history>>

MarkFailed ==
    /\ At("fail")
    /\ TryUpdate(rec, "failed")
    /\ Return
    /\ UNCHANGED <<saved, cloud, file, crashes, history>>

MarkDownloaded ==
    /\ At("mark")
    /\ UpdateRecord(rec, "downloaded")
    /\ archived' = archived \cup {rec}
    /\ Goto("loaded")
    /\ UNCHANGED <<saved, cloud, file, crashes, purged, missed>>

\* The error of this update ends DownloadOnce; the file stays on disk.
MarkFails ==
    /\ At("mark")
    /\ MayFail("db")
    /\ Return
    /\ UNCHANGED <<storeVars, cloud, file, crashes, history>>

-----------------------------------------------------------------------------
\* DownloadOnce: remove the meeting from Zoom when all of it is downloaded.

\* Faulty variant: only queued records count as missing.
NoneQueuedOf(m) ==
    \A r \in GetRecords(m) : status[r] # "queued"

\* Faulty variant: the records that were never selected count as missing.
AllRecordsLoaded(m) ==
    \A r \in RecordsOf(m) : status[r] = "downloaded"

MeetingRecordsLoaded(m) ==
    \A r \in GetRecords(m) : status[r] = "downloaded"

CheckLoaded ==
    /\ At("loaded")
    /\ IF MeetingRecordsLoaded(RecMeeting)
             /\ (DeleteDownloaded \/ TrashDownloaded)
       THEN Goto("purge")
       ELSE Return
    /\ UNCHANGED <<storeVars, cloud, file, crashes, history>>

\* A look at the meeting, or the request to remove it, comes to nothing.  If
\* another record is still to come, DownloadOnce looks again after it; if none
\* is, no later call makes up for it.
MissRemoval ==
    /\ missed' = IF Selected(RecMeeting) \subseteq archived
                 THEN missed \cup {RecMeeting}
                 ELSE missed
    /\ UNCHANGED <<archived, purged>>

CheckLoadedFails ==
    /\ At("loaded")
    /\ MayFail("db")
    /\ MissRemoval
    /\ Return
    /\ UNCHANGED <<storeVars, cloud, file, crashes>>

Purge ==
    /\ At("purge")
    /\ DeleteMeetingRecordings(RecMeeting, DeleteDownloaded)
    /\ purged' = purged \cup {RecMeeting}
    /\ Return
    /\ UNCHANGED <<storeVars, file, crashes, archived, missed>>

PurgeFails ==
    /\ At("purge")
    /\ MayFail("api")
    /\ MissRemoval
    /\ Return
    /\ UNCHANGED <<storeVars, cloud, file, crashes>>

-----------------------------------------------------------------------------
\* The process stops at any point and is started again.

Crash ==
    /\ crashes < MaxCrashes
    /\ crashes' = crashes + 1
    /\ Return
    /\ \/ UNCHANGED file
       \/ At("fetch") /\ InCloud /\ Interrupted(rec)
    /\ IF dpc \in {"loaded", "purge"} THEN MissRemoval ELSE UNCHANGED history
    /\ UNCHANGED <<storeVars, cloud>>

-----------------------------------------------------------------------------
\* The environment.

\* Faulty variant: the records are stored without a status.
SaveWithoutStatus(m) ==
    /\ cloud[m] = "present"
    /\ ~HasMeeting(m)
    /\ Selected(m) # {}
    /\ InsertMeetingRow(m)
    /\ status' = [r \in Records |->
                    IF r \in Selected(m) THEN "" ELSE status[r]]
    /\ UNCHANGED <<cloud, file, jobVars>>

\* SyncMeetings saves a meeting of its feed, seen as one step.
Save(m) ==
    /\ cloud[m] = "present"
    /\ ~HasMeeting(m)
    /\ Selected(m) # {}
    /\ InsertMeetingRow(m)
    /\ status' = [r \in Records |->
                    IF r \in Selected(m) THEN "queued" ELSE status[r]]
    /\ UNCHANGED <<cloud, file, jobVars>>

\* Somebody else removes the meeting: cloudcap, another instance, its host.
TrimCloud(m) ==
    /\ MayFail("cloud")
    /\ cloud[m] = "present"
    /\ cloud' = [cloud EXCEPT ![m] = "trash"]
    /\ UNCHANGED <<storeVars, file, jobVars>>

-----------------------------------------------------------------------------
FreeUpSpace ==
    \/ SpaceIsFree
    \/ ListDownloaded
    \/ SpaceFails
    \/ EvictDone
    \/ \E r \in Records : EvictSkip(r) \/ EvictRemove(r) \/ EvictFails(r)
    \/ EvictMark

DownloadRecord ==
    \/ GotToken
    \/ TokenRefused
    \/ Claim
    \/ Prepare
    \/ PrepareFails
    \/ FreeUpSpace
    \/ FetchComplete
    \/ FetchResumed
    \/ FetchBroken
    \/ FetchRefused
    \/ MarkFailed
    \/ MarkDownloaded
    \/ MarkFails

DownloadOnce ==
    \/ \E r \in Records : PickQueued(r)
    \/ FindNoQueued
    \/ RequeueFailed
    \/ DownloadRecord
    \/ CheckLoaded
    \/ CheckLoadedFails
    \/ Purge
    \/ PurgeFails

Environment == \E m \in Meetings : Save(m) \/ TrimCloud(m)

Next == DownloadOnce \/ Crash \/ Environment

Spec == Init /\ [][Next]_vars

-----------------------------------------------------------------------------
\* Fairness.  The job's goroutine keeps running.  A fault is never permanent:
\* Zoom grants a token, completes a transfer of a record, and removes a
\* meeting, when it is asked often enough.  The response that finishes a
\* partial file counts as completed, and so does a transfer that goes on until
\* the drive is full.

DeliversFile(r) ==
    /\ rec = r
    /\ FetchComplete \/ FetchResumed \/ (FetchBroken /\ FillsDrive(r))

Fairness ==
    /\ WF_vars(DownloadOnce)
    /\ SF_vars(GotToken)
    /\ \A r \in Wanted : SF_vars(DeliversFile(r))

FairSpec == Spec /\ Fairness

-----------------------------------------------------------------------------
\* Safety.

\* DownloadOnce has Zoom remove a meeting only when every record wanted from
\* it was downloaded in full, whatever fails or restarts on the way.
NoLoss == \A m \in purged : Selected(m) \subseteq archived

\* A record marked downloaded never has a part of its file on disk: no step
\* of a later download, eviction or restart leaves one.  The file can be
\* missing, when freeUpSpace stops between RemoveAll and UpdateRecord.
CompleteCopy ==
    \A r \in GetRecordsByStatus("downloaded") : IsFull(r) \/ file[r] = 0

\* The records marked downloaded that have lost their file, but for the one
\* that freeUpSpace is about to mark deleted.
Orphans ==
    {r \in GetRecordsByStatus("downloaded") :
        ~IsFull(r) /\ ~(At("evicted") /\ victim = r)}

\* While the database works, only a restart between RemoveAll and UpdateRecord
\* leaves a record downloaded without its file, and it leaves one: there are
\* never more of them than restarts, however often the drive was cleared.
DownloadedIsOnDisk == Cardinality(Orphans) <= crashes

\* When grab.Get is called there is more free space than the configured
\* reserve, or no downloaded file was left to evict.
SpaceBeforeFetch ==
    At("fetch") =>
        \/ EnoughFree
        \/ \A r \in GetRecordsByStatus("downloaded") : file[r] = 0

\* A meeting downloaded in full that is still in Zoom is accounted for, in
\* every state: the job is about to remove it, or missed it after the
\* last record, or one of its records was evicted before the last one arrived.
\* No failure, restart or order of the downloads loses the removal silently.
RemovalInHand ==
    DeleteDownloaded \/ TrashDownloaded =>
        \A m \in saved :
            Selected(m) \subseteq archived /\ cloud[m] = "present" =>
                \/ dpc \in {"loaded", "purge"} /\ RecMeeting = m
                \/ m \in missed
                \/ \E r \in Selected(m) : status[r] = "deleted"

-----------------------------------------------------------------------------
\* Action properties.

\* A record is downloaded once: the retries of ResetFailedRecords, a second
\* download or a restart never take a downloaded record back to the queue,
\* and an evicted one is never brought back.
ArchivedIsFinal ==
    [][\A r \in Records :
         /\ status[r] = "downloaded" => status'[r] \in {"downloaded", "deleted"}
         /\ status[r] = "deleted" => status'[r] = "deleted"]_vars

\* On a drive that works, freeUpSpace deletes the file of a downloaded record
\* only below the reserve, and only when no record that started earlier still
\* has its file.  (A folder that RemoveAll cannot delete is passed over for the
\* next one: with such faults the order does not hold.)
OldestEvictedFirst ==
    [][\A r \in GetRecordsByStatus("downloaded") :
         file'[r] # file[r] =>
            /\ ~EnoughFree
            /\ \A q \in GetRecordsByStatus("downloaded") :
                 file[q] # 0 => StartTime[r] <= StartTime[q]]_vars

-----------------------------------------------------------------------------
\* Liveness, under FairSpec.

\* Even without a single downloaded file the drive has no room for r: files
\* of records that never became "downloaded" fill it.
Crowded(r) ==
    LET hidden == {q \in Records \ {r} : status[q] # "downloaded"}
    IN  Size[r] + MapThenSumSet(LAMBDA q : file[q], hidden) > Capacity

\* Every queued record is downloaded in the end unless Zoom no longer has it,
\* or files that freeUpSpace cannot see (complete or partial files of records
\* that failed) crowd it out.  A record that fails every time and starts
\* earlier does not hold it up: failed records wait until the queue is empty.
EveryRecordArchived ==
    \A r \in Records \ Mismatched :
        status[r] = "queued" ~>
            \/ r \in archived
            \/ cloud[MeetingOf[r]] # "present"
            \/ Crowded(r)

\* A record left "downloading" goes back to the queue: ResetFailedRecords finds
\* it.  A restart leaves one so, and a failed mkdir or update would as well.
AbandonedIsRequeued ==
    \A r \in Records :
        status[r] = "downloading" /\ rec # r ~> status[r] = "queued"

\* A meeting downloaded in full leaves Zoom, unless one of its records was
\* evicted before the last one arrived, or the attempt that follows the last
\* record, of which there is one only, was refused or cut off by a restart.
ReleasedUnlessMissed ==
    \A m \in Meetings :
        m \in saved /\ Selected(m) \subseteq archived ~>
            \/ cloud[m] # "present"
            \/ \E r \in Selected(m) : status[r] = "deleted"
            \/ m \in missed

-----------------------------------------------------------------------------
\* The job keeps the promises of Archive.

LocalCopies == {r \in GetRecordsByStatus("downloaded") : IsFull(r)}

Promise == INSTANCE Archive
    WITH obtained <- archived, local <- LocalCopies, released <- purged

\* Every step of the job is a step of Archive or changes nothing there: a
\* record is obtained once and never after its meeting left Zoom, copies go
\* one at a time, and a meeting is released only when all of it was obtained.
ImplementsArchive == Promise!Spec

-----------------------------------------------------------------------------
\* What the trash command and meetingsLoadedHandler see of the job.

SeenStatus ==
    [r \in Records |->
       IF status[r] \in {"downloading", "failed"} THEN "queued" ELSE status[r]]

SeenFile ==
    [r \in Records |->
       CASE IsFull(r) -> "full"
         [] file[r] = 0 -> "none"
         [] OTHER -> "wrong"]

Seen == INSTANCE Cleanup
    WITH Instances <- 1, Short <- {}, RetryLimit <- 0,
         status <- [i \in 1..1 |-> SeenStatus],
         file <- [i \in 1..1 |-> SeenFile],
         cpc <- "list", day <- {}, asked <- 0, unchecked <- {},
         undeleted <- {}, retry <- 0, swept <- {}

\* The job, with its restarts and failures, is an instance of module Cleanup:
\* it changes nothing that the trash command relies on in another way than the
\* few steps that module has for an instance.
ServesCleanup == Seen!Spec

-----------------------------------------------------------------------------
\* The inductive invariant behind the safety properties.

\* A saved meeting has a row for each of its selected records and no other.
WholeMeetings ==
    \A m \in Meetings :
        GetRecords(m) = IF HasMeeting(m) THEN Selected(m) ELSE {}

\* A record was obtained if and only if its row says so, now or as evicted.
ArchivedStatus ==
    \A r \in Records :
        r \in archived <=> status[r] \in {"downloaded", "deleted"}

Downloading == {"token", "claim", "prepare", "space", "evict", "evicted",
                "fetch", "mark", "fail"}

\* The record under way has a row, and is neither downloaded nor evicted
\* until MarkDownloaded: no eviction ever hits it.
InFlight ==
    /\ dpc \in Downloading \cup {"loaded", "purge"} =>
         rec \in Records /\ status[rec] # "absent"
    /\ dpc \in Downloading => status[rec] \notin {"downloaded", "deleted"}
    /\ At("mark") => IsFull(rec)

\* freeUpSpace touches records that were downloaded, and no other; the file
\* of an evicted record never comes back.
EvictsArchived ==
    /\ listed \subseteq archived
    /\ At("evicted") => victim \in archived /\ file[victim] = 0
    /\ \A r \in GetRecordsByStatus("deleted") : file[r] = 0

\* Once the job has decided to remove a meeting, all of it was downloaded.
PurgeDecided ==
    At("purge") =>
        /\ Selected(RecMeeting) \subseteq archived
        /\ MeetingRecordsLoaded(RecMeeting)
        /\ DeleteDownloaded \/ TrashDownloaded

\* The strengthening of NoLoss and CompleteCopy that every step preserves.
IInv ==
    /\ TypeOK
    /\ WholeMeetings
    /\ ArchivedStatus
    /\ InFlight
    /\ EvictsArchived
    /\ PurgeDecided
    /\ NoLoss
    /\ CompleteCopy

=============================================================================
