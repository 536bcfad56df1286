------------------------------ MODULE Cleanup ------------------------------
(***************************************************************************)
(* The trash command of the CLI (CleanupJob): it lists the meetings of a   *)
(* day, asks every instance whether it has loaded them all                 *)
(* (requestMeetingsLoaded, answered by meetingsLoadedHandler one meeting   *)
(* at a time), and removes them from Zoom when all instances agree.        *)
(* Meetings is the set of the meetings of that day.                        *)
(*                                                                         *)
(* The instances go on while they are asked.  An instance is seen here     *)
(* through the status and the file of its records: it stores meetings,     *)
(* fetches and marks records, evicts files in the two steps of             *)
(* freeUpSpace, and removes from Zoom the meetings it has in full.         *)
(* Module DownloadJob shows that the job of an instance does no more.      *)
(***************************************************************************)
EXTENDS Recordings, ZoomCloud, Failures

CONSTANTS
    Instances,      \* how many instances cfg.Commander.Instances names
    Short,          \* the meetings that no instance saves
    RetryLimit      \* how often CleanupJob retries (10 in the code)

ASSUME CleanupAssumption ==
    /\ Instances \in Nat
    /\ Short \subseteq Meetings
    /\ RetryLimit \in Nat

VARIABLES
    status,     \* the status of each record in the database of each instance
    file,       \* its file on the drive of the instance
    cpc,        \* where CleanupJob is
    day,        \* the meetings of the feed
    asked,      \* the instance that is answering, or the last one that did
    unchecked,  \* the meetings the instance has yet to look at
    undeleted,  \* the meetings CleanupJob has yet to remove
    retry,      \* failed requests so far
    swept       \* history: the meetings CleanupJob removed from Zoom

fleetVars == <<status, file>>
jobVars == <<cpc, day, asked, unchecked, undeleted, retry>>
vars == <<cloud, fleetVars, jobVars, swept>>

Fleet == 1..Instances

Files == {"none", "wrong", "full"}

\* Type correctness of the instances and of the job.
TypeOK ==
    /\ CloudTypeOK
    /\ status \in [Fleet -> [Records ->
                     {"absent", "queued", "downloaded", "deleted"}]]
    /\ file \in [Fleet -> [Records -> Files]]
    /\ cpc \in {"list", "wait", "ask", "check", "delete", "done"}
    /\ day \subseteq Meetings
    /\ asked \in 0..Instances
    /\ unchecked \subseteq Meetings
    /\ undeleted \subseteq Meetings
    /\ retry \in 0..(RetryLimit + 1)
    /\ swept \subseteq Meetings

Init ==
    /\ FullCloud
    /\ status = [i \in Fleet |-> [r \in Records |-> "absent"]]
    /\ file = [i \in Fleet |-> [r \in Records |-> "none"]]
    /\ cpc = "list"
    /\ day = {}
    /\ asked = 0
    /\ unchecked = {}
    /\ undeleted = {}
    /\ retry = 0
    /\ swept = {}

-----------------------------------------------------------------------------
\* An instance.  A record that is queued, under way or failed is "queued".

SetStatus(i, r, s) == status' = [status EXCEPT ![i][r] = s]

SetFile(i, r, f) == file' = [file EXCEPT ![i][r] = f]

RecordsIn(i, m) == {r \in RecordsOf(m) : status[i][r] # "absent"}

\* SaveMeeting; with a failing database it may stop after any of its INSERTs.
Store(i, m) ==
    /\ m \notin Short
    /\ cloud[m] = "present"
    /\ RecordsIn(i, m) = {}
    /\ \E S \in SUBSET Selected(m) :
        /\ S # {}
        /\ S = Selected(m) \/ MayFail("db")
        /\ status' = [status EXCEPT ![i] =
                        [r \in Records |-> IF r \in S THEN "queued" ELSE @[r]]]
    /\ UNCHANGED <<cloud, file, jobVars, swept>>

\* A transfer: complete, or broken off with a part of the file or nothing.
Fetch(i, r) ==
    /\ status[i][r] = "queued"
    /\ cloud[MeetingOf[r]] = "present"
    /\ file[i][r] # "full"
    /\ \E f \in Files : SetFile(i, r, f)
    /\ UNCHANGED <<cloud, status, jobVars, swept>>

\* UpdateRecord after a complete transfer; the meeting may be gone by then.
Obtain(i, r) ==
    /\ status[i][r] = "queued"
    /\ file[i][r] = "full"
    /\ SetStatus(i, r, "downloaded")
    /\ UNCHANGED <<cloud, file, jobVars, swept>>

\* DownloadOnce removes a meeting when all its records are downloaded.
Purge(i, m) ==
    /\ DeleteDownloaded \/ TrashDownloaded
    /\ RecordsIn(i, m) # {}
    /\ \A r \in RecordsIn(i, m) : status[i][r] = "downloaded"
    /\ DeleteMeetingRecordings(m, DeleteDownloaded)
    /\ UNCHANGED <<fleetVars, jobVars, swept>>

\* freeUpSpace: RemoveAll, then UpdateRecord; a restart in between leaves a
\* record that is marked downloaded and has no file.
RemoveFile(i, r) ==
    /\ status[i][r] = "downloaded"
    /\ file[i][r] # "none"
    /\ SetFile(i, r, "none")
    /\ UNCHANGED <<cloud, status, jobVars, swept>>

MarkDeleted(i, r) ==
    /\ status[i][r] = "downloaded"
    /\ file[i][r] = "none"
    /\ SetStatus(i, r, "deleted")
    /\ UNCHANGED <<cloud, file, jobVars, swept>>

\* SyncMeetings of any instance, client.delete_skipped.
DropShort(m) ==
    /\ DeleteSkipped
    /\ m \in Short
    /\ cloud[m] = "present"
    /\ DeleteMeetingRecordings(m, DeleteDownloaded)
    /\ UNCHANGED <<fleetVars, jobVars, swept>>

\* Somebody else removes the meeting: cloudcap, its host.
OthersDelete(m) ==
    /\ MayFail("cloud")
    /\ cloud[m] = "present"
    /\ cloud' = [cloud EXCEPT ![m] = "trash"]
    /\ UNCHANGED <<fleetVars, jobVars, swept>>

\* A file that loses bytes by other hands, or was copied over in part.
Damage(i, r) ==
    /\ MayFail("disk")
    /\ file[i][r] = "full"
    /\ SetFile(i, r, "wrong")
    /\ UNCHANGED <<cloud, status, jobVars, swept>>

-----------------------------------------------------------------------------
\* CleanupJob.

Ends ==
    /\ cpc' = "done"
    /\ day' = {}
    /\ asked' = 0
    /\ unchecked' = {}
    /\ undeleted' = {}

Listed == {m \in Meetings : cloud[m] = "present"}

\* The feed of the day.
ListDay ==
    /\ cpc = "list"
    /\ IF Listed = {}
       THEN Ends
       ELSE /\ day' = Listed
            /\ cpc' = "ask"
            /\ UNCHANGED <<asked, unchecked, undeleted>>
    /\ UNCHANGED <<retry, cloud, fleetVars, swept>>

\* The feed fails.  Unlike a request to an instance this is not counted: the
\* job starts over in a minute, for as long as it takes.
FeedFails ==
    /\ cpc = "list"
    /\ MayFail("api")
    /\ cpc' = "wait"
    /\ UNCHANGED <<day, asked, unchecked, undeleted, retry, cloud, fleetVars,
                   swept>>

\* The minute is over.
WaitOver ==
    /\ cpc = "wait"
    /\ cpc' = "list"
    /\ UNCHANGED <<day, asked, unchecked, undeleted, retry, cloud, fleetVars,
                   swept>>

\* POST /meetingsLoaded to the next instance.
Ask ==
    /\ cpc = "ask"
    /\ asked < Instances
    /\ asked' = asked + 1
    /\ unchecked' = day
    /\ cpc' = "check"
    /\ UNCHANGED <<day, undeleted, retry, cloud, fleetVars, swept>>

\* Faulty variant: the failures are not counted.
AskFailsUncounted ==
    /\ \/ cpc = "ask" /\ Instances = 0
       \/ cpc = "check" /\ MayFail("api")
    /\ cpc' = "wait"
    /\ day' = {}
    /\ asked' = 0
    /\ unchecked' = {}
    /\ UNCHANGED <<undeleted, retry, cloud, fleetVars, swept>>

\* Faulty variant: one retry too many.
AskFailsOnceMore ==
    /\ \/ cpc = "ask" /\ Instances = 0
       \/ cpc = "check" /\ MayFail("api")
    /\ retry' = retry + 1
    /\ IF retry > RetryLimit
       THEN Ends
       ELSE /\ cpc' = "wait"
            /\ day' = {}
            /\ asked' = 0
            /\ unchecked' = {}
            /\ UNCHANGED undeleted
    /\ UNCHANGED <<cloud, fleetVars, swept>>

\* The request fails, or no instance is configured: start over in a
\* minute, a few times.
AskFails ==
    /\ \/ cpc = "ask" /\ Instances = 0
       \/ cpc = "check" /\ MayFail("api")
    /\ retry' = retry + 1
    /\ IF retry' > RetryLimit
       THEN Ends
       ELSE /\ cpc' = "wait"
            /\ day' = {}
            /\ asked' = 0
            /\ unchecked' = {}
            /\ UNCHANGED undeleted
    /\ UNCHANGED <<cloud, fleetVars, swept>>

\* Faulty variant: a meeting without records passes.
NoneMissing(i, m) ==
    \A r \in RecordsIn(i, m) :
        status[i][r] = "downloaded" /\ file[i][r] # "wrong"

\* meetingsLoadedHandler, one meeting: a missing file does not matter.
IsLoaded(i, m) ==
    /\ RecordsIn(i, m) # {}
    /\ \A r \in RecordsIn(i, m) :
        status[i][r] = "downloaded" /\ file[i][r] # "wrong"

CheckMeeting(m) ==
    /\ cpc = "check"
    /\ m \in unchecked
    /\ IsLoaded(asked, m)
    /\ unchecked' = unchecked \ {m}
    /\ UNCHANGED <<cpc, day, asked, undeleted, retry, cloud, fleetVars, swept>>

\* The first meeting that is not loaded: "pending", and the job gives up.
AnswerPending ==
    /\ cpc = "check"
    /\ \E m \in unchecked : ~IsLoaded(asked, m)
    /\ Ends
    /\ UNCHANGED <<retry, cloud, fleetVars, swept>>

AnswerOk ==
    /\ cpc = "check"
    /\ unchecked = {}
    /\ IF asked = Instances
       THEN cpc' = "delete" /\ undeleted' = day
       ELSE cpc' = "ask" /\ UNCHANGED undeleted
    /\ UNCHANGED <<day, asked, unchecked, retry, cloud, fleetVars, swept>>

DeleteNext(m) ==
    /\ cpc = "delete"
    /\ m \in undeleted
    /\ undeleted' = undeleted \ {m}
    /\ \/ /\ DeleteMeetingRecordings(m, DeleteDownloaded)
          /\ swept' = swept \cup {m}
       \/ /\ MayFail("api") \/ ~MayDelete
          /\ UNCHANGED <<cloud, swept>>
    /\ UNCHANGED <<cpc, day, asked, unchecked, retry, fleetVars>>

DeletedAll ==
    /\ cpc = "delete"
    /\ undeleted = {}
    /\ Ends
    /\ UNCHANGED <<retry, cloud, fleetVars, swept>>

\* SIGTERM: the job returns at its next look at ctx.Done(), which it takes
\* between the pages of the feed, in its waits, after a failed request, and
\* before each removal.
Interrupt ==
    /\ MaxCrashes > 0
    /\ cpc \in {"list", "wait", "delete"} \/ (cpc = "check" /\ MayFail("api"))
    /\ Ends
    /\ UNCHANGED <<retry, cloud, fleetVars, swept>>

-----------------------------------------------------------------------------
InstanceStep ==
    \/ \E m \in Meetings : DropShort(m) \/ OthersDelete(m)
    \/ \E i \in Fleet :
        \/ \E m \in Meetings : Store(i, m) \/ Purge(i, m)
        \/ \E r \in Records :
            \/ Fetch(i, r)
            \/ Obtain(i, r)
            \/ RemoveFile(i, r)
            \/ MarkDeleted(i, r)
            \/ Damage(i, r)

CleanupStep ==
    \/ ListDay
    \/ FeedFails
    \/ WaitOver
    \/ Ask
    \/ AskFails
    \/ \E m \in Meetings : CheckMeeting(m) \/ DeleteNext(m)
    \/ AnswerPending
    \/ AnswerOk
    \/ DeletedAll

Next == InstanceStep \/ CleanupStep \/ Interrupt

Spec == Init /\ [][Next]_vars

FairSpec == Spec /\ WF_vars(CleanupStep)

-----------------------------------------------------------------------------
Archived(i) == {r \in Records : status[i][r] \in {"downloaded", "deleted"}}

\* While every SaveMeeting is whole, CleanupJob removes no meeting from Zoom
\* before each instance has downloaded every wanted record of every meeting
\* of the day, although the answers are minutes old when it deletes.
NoSweepBeforeAllLoaded ==
    [][swept' # swept =>
         \A i \in Fleet, m \in day : Selected(m) \subseteq Archived(i)]_vars

\* CleanupJob ends whatever the instances answer or fail to answer, unless
\* from some point on the feed does nothing but fail: that retry alone has no
\* limit.
CleanupEnds == <>(cpc = "done") \/ <>[](cpc \in {"list", "wait"})

\* "Check all the instances for consistency": an instance passes a meeting
\* only if all the files it downloaded of that meeting are on its drive.
LoadedMeansPresent ==
    [][\A m \in unchecked \ unchecked' : cpc' = "check" =>
         \A r \in RecordsIn(asked, m) : file[asked][r] = "full"]_vars

=============================================================================
