--------------------------- MODULE CliSyncProofs ---------------------------
(***************************************************************************)
(* Theorems about the sync command, for every account, drive, set of       *)
(* failures and number of restarts.  Each of its steps is a step of the    *)
(* download job or changes nothing there, so the invariant of that job     *)
(* holds here too.                                                         *)
(***************************************************************************)
EXTENDS CliSync, DownloadJobProofs

USE RecordingsAssumption, FailuresAssumption, DiskAssumption
USE DEF At, Goto, Return, NoRecord, storeVars, localVars, history, jobVars,
        RecMeeting, GetRecords, HasMeeting, GetRecordsByStatus, RecordsOf,
        Statuses, Steps, Downloading, cliVars

\* No record is failed or under way but the one the job works on.
NoneLeftBehind ==
    \A r \in Records :
        status[r] \in {"failed", "downloading"} =>
            r = rec /\ dpc \in Downloading

\* What the command knows of the database: nothing is queued when it resets
\* the failed records, and since it last did so with success no call has
\* failed that left a record behind.
CommandInv ==
    /\ phase \in {"save", "download", "exited"}
    /\ lastError \in {"nil", "empty", "error"}
    /\ phase = "save" => dpc = "idle" /\ lastError = "nil"
    /\ At("reset") => NoQueued
    /\ lastError = "empty" => NoneLeftBehind \/ phase = "exited"
    /\ ExitMeansComplete

LEMMA CommandStepIsJobStep ==
    ASSUME [CliNext]_commandVars
    PROVE  [Next]_vars
<1>1. CASE SaveMeetings
    BY <1>1 DEF SaveMeetings, Next, Environment
<1>2. CASE SaveDone
    BY <1>2 DEF SaveDone
<1>3. CASE Loop
    BY <1>3
    DEF Loop, MeetEmpty, Continues, ReturnsNil, ReturnsEmpty, ReturnsError,
        GetFails, Next, DownloadOnce, DownloadRecord
<1>4. CASE StartAgain
    BY <1>4 DEF StartAgain, Next
<1>5. ASSUME NEW m \in Meetings, TrimCloud(m)
      PROVE  [Next]_vars
    BY <1>5 DEF Next, Environment
<1>6. CASE UNCHANGED commandVars
    BY <1>6 DEF commandVars
<1>7. QED
    BY <1>1, <1>2, <1>3, <1>4, <1>5, <1>6 DEF CliNext

\* The command calls DownloadOnce again, and no call has failed.
LEMMA ContinuesKeeps ==
    ASSUME IInv, CommandInv, phase = "download", Continues \/ ReturnsNil,
           UNCHANGED cliVars
    PROVE  CommandInv'
<1> USE DEF CommandInv, ExitMeansComplete, NoQueued, NoneLeftBehind
<1>0. /\ status \in [Records -> Statuses \cup {"absent"}]
      /\ dpc \in Downloading \cup {"loaded", "purge"} => rec \in Records
    BY DEF IInv, TypeOK, StoreTypeOK, InFlight
<1>1. ASSUME NEW r \in Records, PickQueued(r) PROVE CommandInv'
    BY <1>1 DEF PickQueued
<1>2. CASE FindNoQueued
    BY <1>2 DEF FindNoQueued
<1>3. CASE GotToken \/ Prepare
    BY <1>3 DEF GotToken, Prepare
<1>4. CASE Claim
    <2>1. \A r \in Records : r # rec => status'[r] = status[r]
        BY <1>0, <1>4 DEF Claim, TryUpdate, UpdateRecord
    <2>2. QED
        BY <1>4, <2>1 DEF Claim
<1>5. CASE SpaceIsFree \/ ListDownloaded \/ SpaceFails \/ EvictDone
    BY <1>5 DEF SpaceIsFree, ListDownloaded, SpaceFails, EvictDone
<1>6. ASSUME NEW r \in Records, EvictSkip(r) \/ EvictRemove(r) \/ EvictFails(r)
      PROVE  CommandInv'
    BY <1>6 DEF EvictSkip, EvictRemove, EvictFails, IsNextListed
<1>7. CASE EvictMark
    <2>1. \A r \in Records : status'[r] \in {status[r], "deleted"}
        BY <1>0, <1>7 DEF EvictMark, TryUpdate, UpdateRecord
    <2>2. QED
        BY <1>7, <2>1 DEF EvictMark
<1>8. CASE FetchComplete \/ FetchResumed \/ FetchBroken \/ FetchRefused
    BY <1>8 DEF FetchComplete, FetchResumed, FetchBroken, FetchRefused
<1>9. CASE MarkDownloaded
    <2>1. /\ status'[rec] = "downloaded"
          /\ \A r \in Records : r # rec => status'[r] = status[r]
        BY <1>0, <1>9 DEF MarkDownloaded, UpdateRecord
    <2>2. QED
        BY <1>9, <2>1 DEF MarkDownloaded
<1>10. CASE ReturnsNil
    <2>1. UNCHANGED status /\ dpc' \in {"idle", "purge"}
            /\ dpc \in {"loaded", "purge"}
        BY <1>10 DEF ReturnsNil, CheckLoaded, CheckLoadedFails, Purge
    <2>2. QED
        BY <2>1
<1>11. QED
    BY <1>1, <1>2, <1>3, <1>4, <1>5, <1>6, <1>7, <1>8, <1>9, <1>10
    DEF Continues, FreeUpSpace

LEMMA CommandInvStep ==
    ASSUME IInv, CommandInv, [CliNext]_commandVars
    PROVE  CommandInv'
<1> USE DEF CommandInv, ExitMeansComplete, NoQueued, NoneLeftBehind
<1>0. status \in [Records -> Statuses \cup {"absent"}]
    BY DEF IInv, TypeOK, StoreTypeOK
<1>1. CASE SaveMeetings
    BY <1>1 DEF SaveMeetings, Save
<1>2. CASE SaveDone
    BY <1>2 DEF SaveDone, vars
<1>3. CASE Loop
    <2>1. CASE phase = "download" /\ (Continues \/ ReturnsNil) /\ UNCHANGED cliVars
        BY <2>1, ContinuesKeeps
    <2>2. CASE phase = "download" /\ ReturnsError /\ lastError' = "error"
                 /\ UNCHANGED phase
        <3>1. dpc' = "idle"
            BY <2>2 DEF ReturnsError, GetFails, vars, RequeueFailed,
                        TokenRefused, PrepareFails, MarkFailed, MarkFails,
                        PurgeFails
        <3>2. QED
            BY <2>2, <3>1
    <2>3. CASE MeetEmpty
        <3>1. /\ phase = "download" /\ At("reset") /\ dpc' = "idle"
              /\ lastError' = "empty"
              /\ phase' = IF lastError = "empty" THEN "exited" ELSE "download"
            BY <2>3 DEF MeetEmpty, ReturnsEmpty, RequeueFailed
        <3>2. \A r \in Records :
                /\ status'[r] \notin {"failed", "downloading"}
                /\ \/ status'[r] = status[r]
                   \/ status[r] \in {"failed", "downloading"}
            BY <1>0, <2>3 DEF MeetEmpty, ReturnsEmpty, ResetFailedRecords
        <3>3. ASSUME lastError = "empty", NEW r \in Records
              PROVE  status'[r] \in {"absent", "downloaded", "deleted"}
            BY <1>0, <3>1, <3>2, <3>3
        <3>4. QED
            BY <3>1, <3>2, <3>3
    <2>4. QED
        BY <1>3, <2>1, <2>2, <2>3 DEF Loop
<1>4. CASE StartAgain
    BY <1>4 DEF StartAgain, Crash
<1>5. ASSUME NEW m \in Meetings, TrimCloud(m), UNCHANGED cliVars
      PROVE  CommandInv'
    BY <1>5 DEF TrimCloud
<1>6. CASE UNCHANGED commandVars
    BY <1>6 DEF commandVars, vars
<1>7. QED
    BY <1>1, <1>2, <1>3, <1>4, <1>5, <1>6 DEF CliNext

LEMMA CliInvCorrect == CliSpec => [](IInv /\ CommandInv)
<1>1. CliInit => IInv /\ CommandInv
    <2>1. CliInit => IInv
        BY InitIInv DEF CliInit
    <2>2. CliInit => CommandInv
        BY DEF CliInit, Init, CommandInv, ExitMeansComplete
    <2>3. QED
        BY <2>1, <2>2
<1>2. IInv /\ CommandInv /\ [CliNext]_commandVars => IInv' /\ CommandInv'
    BY NextIInv, CommandStepIsJobStep, CommandInvStep
<1>3. QED
    BY <1>1, <1>2, PTL DEF CliSpec

\* The variables of the command and of the job under it keep their types.
THEOREM CliTypeCorrect == CliSpec => []CliTypeOK
<1>1. IInv /\ CommandInv => CliTypeOK
    BY DEF IInv, CommandInv, CliTypeOK
<1>2. QED
    BY <1>1, CliInvCorrect, PTL

\* The command exits only when nothing is left queued, failed or under way,
\* whatever failed, in the database too, and however often it was stopped.
THEOREM ExitMeansCompleteCorrect == CliSpec => []ExitMeansComplete
<1>1. CommandInv => ExitMeansComplete
    BY DEF CommandInv
<1>2. QED
    BY <1>1, CliInvCorrect, PTL

\* Each step of the command is a step of the download job, so what is proved
\* of that job holds of the command: it too has Zoom remove a meeting only
\* when every record wanted from it was downloaded in full.
THEOREM CommandRefinesJob == CliSpec => Spec
<1>1. CliInit => Init
    BY DEF CliInit
<1>2. [CliNext]_commandVars => [Next]_vars
    BY CommandStepIsJobStep
<1>3. QED
    BY <1>1, <1>2, PTL DEF CliSpec, Spec

=============================================================================
