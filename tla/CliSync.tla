------------------------------ MODULE CliSync ------------------------------
(***************************************************************************)
(* The sync command of the CLI: it saves the meetings of a day once, then  *)
(* calls DownloadOnce until the queue is empty twice with no error in      *)
(* between (Commander.Run).  DownloadOnce is the one of DownloadJob; what  *)
(* it returns is "nil", "empty" (ErrNoQueuedRecords) or "error".           *)
(***************************************************************************)
EXTENDS DownloadJob

VARIABLES
    phase,      \* "save", "download" or "exited"
    lastError   \* the last error of DownloadOnce, "nil" before the first

cliVars == <<phase, lastError>>
commandVars == <<vars, cliVars>>

\* Type correctness of the command.
CliTypeOK ==
    /\ TypeOK
    /\ phase \in {"save", "download", "exited"}
    /\ lastError \in {"nil", "empty", "error"}

CliInit ==
    /\ Init
    /\ phase = "save"
    /\ lastError = "nil"

\* SyncMeetings, here with whole meetings and in any number.
SaveMeetings ==
    /\ phase = "save"
    /\ \E m \in Meetings : Save(m)
    /\ UNCHANGED cliVars

SaveDone ==
    /\ phase = "save"
    /\ phase' = "download"
    /\ UNCHANGED <<vars, lastError>>

-----------------------------------------------------------------------------
\* The steps of DownloadOnce, by what they make it return.

Continues ==
    \/ \E r \in Records : PickQueued(r)
    \/ FindNoQueued
    \/ GotToken
    \/ Claim
    \/ Prepare
    \/ FreeUpSpace
    \/ FetchComplete
    \/ FetchResumed
    \/ FetchBroken
    \/ FetchRefused
    \/ MarkDownloaded

ReturnsNil == CheckLoaded \/ CheckLoadedFails \/ Purge

ReturnsEmpty == RequeueFailed /\ ResetFailedRecords

\* The query for the next queued record fails.
GetFails ==
    /\ At("idle")
    /\ MayFail("db")
    /\ UNCHANGED vars

ReturnsError ==
    \/ GetFails
    \/ RequeueFailed /\ MayFail("db") /\ UNCHANGED status
    \/ TokenRefused
    \/ PrepareFails
    \/ MarkFailed
    \/ MarkFails
    \/ PurgeFails

\* Faulty variant: an empty queue is forgotten.
MeetEmptyForgetful ==
    /\ phase = "download"
    /\ ReturnsEmpty
    /\ lastError' = "nil"
    /\ phase' = IF lastError = "empty" THEN "exited" ELSE "download"

\* Two empty queues with no error in between: the command is done.
MeetEmpty ==
    /\ phase = "download"
    /\ ReturnsEmpty
    /\ lastError' = "empty"
    /\ phase' = IF lastError = "empty" THEN "exited" ELSE "download"

\* A call that succeeds does not clear lastError.
Loop ==
    \/ /\ phase = "download"
       /\ Continues \/ ReturnsNil
       /\ UNCHANGED cliVars
    \/ /\ phase = "download"
       /\ ReturnsError
       /\ lastError' = "error"
       /\ UNCHANGED phase
    \/ MeetEmpty

\* Cron starts the command again after it was stopped, or the day after.
StartAgain ==
    /\ Crash
    /\ phase' = "save"
    /\ lastError' = "nil"

CliNext ==
    \/ SaveMeetings
    \/ SaveDone
    \/ Loop
    \/ StartAgain
    \/ UNCHANGED cliVars /\ \E m \in Meetings : TrimCloud(m)

CliSpec == CliInit /\ [][CliNext]_commandVars

\* The process keeps running and no call fails for ever; in particular the
\* database does not fail each time that the queue was empty before: neither
\* the query for the next record nor the reset of the failed ones.
CliFairSpec ==
    /\ CliSpec
    /\ WF_commandVars(Loop \/ SaveDone)
    /\ SF_commandVars(Loop /\ GotToken)
    /\ SF_commandVars(Loop /\ Prepare)
    /\ SF_commandVars(Loop /\ MarkDownloaded)
    /\ SF_commandVars(Loop /\ FindNoQueued /\ lastError = "empty")
    /\ SF_commandVars(MeetEmpty /\ lastError = "empty")
    /\ SF_commandVars(MeetEmpty /\ lastError # "empty")
    /\ \A r \in Wanted : SF_commandVars(Loop /\ DeliversFile(r))

-----------------------------------------------------------------------------
\* The command exits with success only when no record is left queued, failed
\* or under way, although one error value stands for a whole pass of the
\* queue and failed updates of the database go unseen.
ExitMeansComplete ==
    phase = "exited" =>
        \A r \in Records : status[r] \in {"absent", "downloaded", "deleted"}

\* When each record can be downloaded, the command exits (cron does not
\* start it while it still runs), unless somebody else removes a meeting.
CommandExits ==
    phase = "save" ~>
        \/ phase = "exited"
        \/ \E m \in Meetings \ purged : cloud[m] # "present"

=============================================================================
