--------------------------- MODULE SharedDownload ---------------------------
(***************************************************************************)
(* Several processes that download with one database and one folder: the   *)
(* sync command that cron starts while the previous one still runs, or the *)
(* command beside the service.  Nothing marks a record as taken: the query *)
(* for a queued record and the update to "downloading" are two statements, *)
(* and ResetFailedRecords queues what another process is downloading.      *)
(* The library that downloads looks at the file, asks Zoom, and opens it.  *)
(* All meetings are saved, the drive has room, and the database works.     *)
(* Here the bytes of a file matter: byte n of a recording is the number n. *)
(***************************************************************************)
EXTENDS RecordStore, ZoomCloud, Failures, Integers, Sequences

CONSTANTS
    Workers,    \* the processes
    Size        \* bytes of each record's file

ASSUME SharedAssumption == Size \in [Records -> Nat \ {0}]

VARIABLES
    made,       \* the records whose file exists
    data,       \* the bytes of each file
    pc,         \* where each process is
    rec,        \* the record it works on
    mode,       \* how its transfer writes: see the Plan... definitions
    pos,        \* the bytes of the recording it has behind it
    crashes,    \* restarts so far
    archived,   \* history: the records that were once marked downloaded
    purged,     \* history: the meetings these processes removed from Zoom
    shared      \* history: records that two processes worked on at a time

folderVars == <<made, data>>
workerVars == <<pc, rec, mode, pos>>
history == <<archived, purged, shared>>
vars == <<storeVars, cloud, folderVars, workerVars, crashes, history>>

NoRecord == 0

\* The steps of DownloadRecord.
Hands == {"claim", "look", "open", "copy", "mark", "fail"}

\* Those after the choice between a whole file and the rest of one.
Transfer == {"open", "copy"}

Modes == {"fresh", "anew", "resume"}

SharedTypeOK ==
    /\ StoreTypeOK
    /\ CloudTypeOK
    /\ made \subseteq Records
    /\ data \in [Records -> Seq(Nat)]
    /\ pc \in [Workers -> Hands \cup {"idle", "reset", "loaded", "purge"}]
    /\ rec \in [Workers -> Records \cup {NoRecord}]
    /\ mode \in [Workers -> Modes]
    /\ pos \in [Workers -> Nat]
    /\ crashes \in 0..MaxCrashes
    /\ archived \subseteq Records
    /\ purged \subseteq Meetings
    /\ shared \subseteq Records

\* SyncMeetings has saved every meeting.
Init ==
    /\ saved = Meetings
    /\ status = [r \in Records |-> IF r \in Wanted THEN "queued" ELSE "absent"]
    /\ FullCloud
    /\ made = {}
    /\ data = [r \in Records |-> <<>>]
    /\ pc = [w \in Workers |-> "idle"]
    /\ rec = [w \in Workers |-> NoRecord]
    /\ mode = [w \in Workers |-> "fresh"]
    /\ pos = [w \in Workers |-> 0]
    /\ crashes = 0
    /\ archived = {}
    /\ purged = {}
    /\ shared = {}

At(w, step) == pc[w] = step

Goto(w, step) ==
    /\ pc' = [pc EXCEPT ![w] = step]
    /\ UNCHANGED <<rec, mode, pos>>

\* The transfer is over, and what it knew of the file is forgotten.
CloseFile(w) ==
    /\ mode' = [mode EXCEPT ![w] = "fresh"]
    /\ pos' = [pos EXCEPT ![w] = 0]

\* DownloadOnce returns, and is called again.
Return(w) ==
    /\ pc' = [pc EXCEPT ![w] = "idle"]
    /\ rec' = [rec EXCEPT ![w] = NoRecord]
    /\ CloseFile(w)

\* grab.Get returns.
GetReturns(w, step) ==
    /\ pc' = [pc EXCEPT ![w] = step]
    /\ CloseFile(w)
    /\ UNCHANGED rec

-----------------------------------------------------------------------------
\* DownloadOnce: choose the record.

Pick(w, r) ==
    /\ At(w, "idle")
    /\ IsQueuedFirst(r)
    /\ pc' = [pc EXCEPT ![w] = "claim"]
    /\ rec' = [rec EXCEPT ![w] = r]
    /\ shared' = IF \E v \in Workers \ {w} : pc[v] \in Hands /\ rec[v] = r
                 THEN shared \cup {r} ELSE shared
    /\ UNCHANGED <<storeVars, cloud, folderVars, mode, pos, crashes,
                   archived, purged>>

FindNoQueued(w) ==
    /\ At(w, "idle")
    /\ NoQueued
    /\ Goto(w, "reset")
    /\ UNCHANGED <<storeVars, cloud, folderVars, crashes, history>>

RequeueFailed(w) ==
    /\ At(w, "reset")
    /\ ResetFailedRecords
    /\ Return(w)
    /\ UNCHANGED <<saved, cloud, folderVars, crashes, history>>

TokenRefused(w) ==
    /\ At(w, "claim")
    /\ MayFail("api")
    /\ Return(w)
    /\ UNCHANGED <<storeVars, cloud, folderVars, crashes, history>>

Claim(w) ==
    /\ At(w, "claim")
    /\ UpdateRecord(rec[w], "downloading")
    /\ Goto(w, "look")
    /\ UNCHANGED <<saved, cloud, folderVars, crashes, history>>

-----------------------------------------------------------------------------
\* grab.Get: look at the file and at the size Zoom reports, then transfer.

InCloud(w) == cloud[MeetingOf[rec[w]]] = "present"

Local(w) == data[rec[w]]

\* A file of the right length is taken as it is.
AcceptFile(w) ==
    /\ At(w, "look")
    /\ InCloud(w)
    /\ Len(Local(w)) = Size[rec[w]]
    /\ Goto(w, "mark")
    /\ UNCHANGED <<storeVars, cloud, folderVars, crashes, history>>

\* Without a file, or when Zoom does not answer the question for its name and
\* size, the transfer starts with the first byte and writes each at its place.
PlanFresh(w) ==
    /\ rec[w] \notin made \/ MayFail("api")
    /\ mode' = [mode EXCEPT ![w] = "fresh"]
    /\ pos' = [pos EXCEPT ![w] = 0]

\* Faulty variant: the range of the request is forgotten.
PlanResumeFromStart(w) ==
    /\ rec[w] \in made
    /\ InCloud(w)
    /\ Len(Local(w)) < Size[rec[w]]
    /\ mode' = [mode EXCEPT ![w] = "resume"]
    /\ pos' = [pos EXCEPT ![w] = 0]

\* A shorter file is opened for appending, and Zoom asked for the rest.
PlanResume(w) ==
    /\ rec[w] \in made
    /\ InCloud(w)
    /\ Len(Local(w)) < Size[rec[w]]
    /\ mode' = [mode EXCEPT ![w] = "resume"]
    /\ pos' = [pos EXCEPT ![w] = Len(Local(w))]

\* A server that does not accept ranges: the shorter file is emptied when the
\* transfer begins.
PlanAnew(w) ==
    /\ rec[w] \in made
    /\ InCloud(w)
    /\ Len(Local(w)) < Size[rec[w]]
    /\ mode' = [mode EXCEPT ![w] = "anew"]
    /\ pos' = [pos EXCEPT ![w] = 0]

PlanTransfer(w) ==
    /\ At(w, "look")
    /\ PlanFresh(w) \/ PlanResume(w) \/ PlanAnew(w)
    /\ pc' = [pc EXCEPT ![w] = "open"]
    /\ UNCHANGED <<storeVars, cloud, folderVars, rec, crashes, history>>

\* The file is opened once Zoom has answered.  By now another process may
\* have made it or written more of it: the plan does not change.
OpenFile(w) ==
    /\ At(w, "open")
    /\ InCloud(w)
    /\ made' = made \cup {rec[w]}
    /\ data' = IF mode[w] = "anew" THEN [data EXCEPT ![rec[w]] = <<>>] ELSE data
    /\ Goto(w, "copy")
    /\ UNCHANGED <<storeVars, cloud, crashes, history>>

\* Zoom does not have the recording or turns a request down, or the file is
\* longer than the recording.
OpenFails(w) ==
    /\ \/ pc[w] \in {"look", "open"} /\ (~InCloud(w) \/ MayFail("api"))
       \/ At(w, "look") /\ Len(Local(w)) > Size[rec[w]]
    /\ GetReturns(w, "fail")
    /\ UNCHANGED <<storeVars, cloud, folderVars, crashes, history>>

\* s with byte b at place i; a hole between its end and i reads as zeros.
Put(s, i, b) ==
    [n \in 1..(IF i <= Len(s) THEN Len(s) ELSE i) |->
        IF n = i THEN b ELSE IF n <= Len(s) THEN s[n] ELSE 0]

WriteByte(w) ==
    /\ At(w, "copy")
    /\ pos[w] < Size[rec[w]]
    /\ data' = [data EXCEPT ![rec[w]] =
                  IF mode[w] = "resume" THEN Append(@, pos[w] + 1)
                                        ELSE Put(@, pos[w] + 1, pos[w] + 1)]
    /\ pos' = [pos EXCEPT ![w] = pos[w] + 1]
    /\ UNCHANGED <<storeVars, cloud, made, pc, rec, mode, crashes, history>>

\* A resumed transfer has status 206, which counts as a failure.
CopyDone(w) ==
    /\ At(w, "copy")
    /\ pos[w] = Size[rec[w]]
    /\ GetReturns(w, IF mode[w] = "resume" THEN "fail" ELSE "mark")
    /\ UNCHANGED <<storeVars, cloud, folderVars, crashes, history>>

\* Faulty variant: the error of the transfer is overlooked.
CopyBreaksUnnoticed(w) ==
    /\ At(w, "copy")
    /\ MayFail("net")
    /\ GetReturns(w, "mark")
    /\ UNCHANGED <<storeVars, cloud, folderVars, crashes, history>>

CopyBreaks(w) ==
    /\ At(w, "copy")
    /\ MayFail("net")
    /\ GetReturns(w, "fail")
    /\ UNCHANGED <<storeVars, cloud, folderVars, crashes, history>>

-----------------------------------------------------------------------------
\* What follows the transfer.

MarkFailed(w) ==
    /\ At(w, "fail")
    /\ UpdateRecord(rec[w], "failed")
    /\ Return(w)
    /\ UNCHANGED <<saved, cloud, folderVars, crashes, history>>

MarkDownloaded(w) ==
    /\ At(w, "mark")
    /\ UpdateRecord(rec[w], "downloaded")
    /\ archived' = archived \cup {rec[w]}
    /\ Goto(w, "loaded")
    /\ UNCHANGED <<saved, cloud, folderVars, crashes, purged, shared>>

\* Faulty variant: only queued and failed records count as missing.
NoneFailedOf(m) ==
    \A r \in GetRecords(m) : status[r] \notin {"queued", "failed"}

MeetingRecordsLoaded(m) ==
    \A r \in GetRecords(m) : status[r] = "downloaded"

CheckLoaded(w) ==
    /\ At(w, "loaded")
    /\ IF MeetingRecordsLoaded(MeetingOf[rec[w]])
             /\ (DeleteDownloaded \/ TrashDownloaded)
       THEN Goto(w, "purge")
       ELSE Return(w)
    /\ UNCHANGED <<storeVars, cloud, folderVars, crashes, history>>

Purge(w) ==
    /\ At(w, "purge")
    /\ DeleteMeetingRecordings(MeetingOf[rec[w]], DeleteDownloaded)
    /\ purged' = purged \cup {MeetingOf[rec[w]]}
    /\ Return(w)
    /\ UNCHANGED <<storeVars, folderVars, crashes, archived, shared>>

PurgeFails(w) ==
    /\ At(w, "purge")
    /\ MayFail("api")
    /\ Return(w)
    /\ UNCHANGED <<storeVars, cloud, folderVars, crashes, history>>

\* The process stops at any point and is started again.
Restart(w) ==
    /\ crashes < MaxCrashes
    /\ ~At(w, "idle")
    /\ crashes' = crashes + 1
    /\ Return(w)
    /\ UNCHANGED <<storeVars, cloud, folderVars, history>>

-----------------------------------------------------------------------------
DownloadOnce(w) ==
    \/ \E r \in Records : Pick(w, r)
    \/ FindNoQueued(w)
    \/ RequeueFailed(w)
    \/ TokenRefused(w)
    \/ Claim(w)
    \/ AcceptFile(w)
    \/ PlanTransfer(w)
    \/ OpenFile(w)
    \/ OpenFails(w)
    \/ WriteByte(w)
    \/ CopyDone(w)
    \/ CopyBreaks(w)
    \/ MarkFailed(w)
    \/ MarkDownloaded(w)
    \/ CheckLoaded(w)
    \/ Purge(w)
    \/ PurgeFails(w)

Next == \E w \in Workers : DownloadOnce(w) \/ Restart(w)

Spec == Init /\ [][Next]_vars

-----------------------------------------------------------------------------
\* Safety.

\* The file of r begins as the recording does, and no longer than it.
Prefix(r) ==
    /\ Len(data[r]) <= Size[r]
    /\ \A n \in 1..Len(data[r]) : data[r][n] = n

Intact(r) == Prefix(r) /\ Len(data[r]) = Size[r]

\* A file holds anything but a beginning of its recording only if two
\* processes had the record at the same time: breaks, restarts and resumed
\* transfers of one process after the other damage nothing.
DamageNeedsSharing == \A r \in Records \ shared : Prefix(r)

\* A record that was downloaded stays so, with its file intact, unless two
\* processes had it at the same time.  The slower one may find the meeting
\* gone from Zoom and mark the record as failed.
FinalUnlessShared ==
    \A r \in archived \ shared : status[r] = "downloaded" /\ Intact(r)

\* Of a meeting these processes removed from Zoom, each record was marked
\* downloaded by one of them, and has its file intact unless two processes had
\* it at the same time.  Of a shared record the mark is all there is: a retry
\* accepts a file of the right length, whatever bytes two transfers left in it.
ReleasedIntactUnlessShared ==
    \A m \in purged : \A r \in Selected(m) :
        r \in archived /\ (r \in shared \/ Intact(r))

-----------------------------------------------------------------------------
\* The inductive invariant behind the safety properties.

\* Rows never come or go.
WantedHaveRows == \A r \in Records : status[r] = "absent" <=> r \notin Wanted

\* A process at work has a record with a row, and shares it if another
\* process works on it too.
HandsAreTracked ==
    \A w \in Workers :
        /\ pc[w] \in Hands \cup {"loaded", "purge"} =>
             rec[w] \in Records /\ status[rec[w]] # "absent"
        /\ \A v \in Workers \ {w} :
             pc[w] \in Hands /\ pc[v] \in Hands /\ rec[w] = rec[v] =>
                rec[w] \in shared

\* What a process knows of the file of a record it does not share.
SoleTransfer ==
    \A w \in Workers :
        rec[w] \notin shared =>
            /\ pc[w] \in Transfer => pos[w] <= Len(data[rec[w]])
            /\ pc[w] \in Transfer /\ mode[w] = "resume" =>
                 pos[w] = Len(data[rec[w]])
            /\ At(w, "open") /\ mode[w] # "resume" => pos[w] = 0
            /\ At(w, "mark") => Intact(rec[w])
            /\ pc[w] \in Hands => rec[w] \notin archived

DownloadedWasArchived == GetRecordsByStatus("downloaded") \subseteq archived

NoFileNoData == \A r \in Records \ made : data[r] = <<>>

TransfersHaveFiles == \A w \in Workers : At(w, "copy") => rec[w] \in made

PurgeDecided ==
    \A w \in Workers :
        At(w, "purge") => Selected(MeetingOf[rec[w]]) \subseteq archived

SharedInv ==
    /\ SharedTypeOK
    /\ WantedHaveRows
    /\ HandsAreTracked
    /\ SoleTransfer
    /\ DownloadedWasArchived
    /\ NoFileNoData
    /\ TransfersHaveFiles
    /\ PurgeDecided
    /\ DamageNeedsSharing
    /\ FinalUnlessShared
    /\ ReleasedIntactUnlessShared

=============================================================================
