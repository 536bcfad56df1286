------------------------------ MODULE Instance ------------------------------
(***************************************************************************)
(* One running service: the sync job and the download job, two goroutines  *)
(* that share the database and nothing else, in one process that may stop  *)
(* and be started again (Restart=always in the systemd unit).              *)
(***************************************************************************)
EXTENDS DownloadJob, SyncJob

VARIABLE
    cutShort    \* history: the meetings whose SaveMeeting never finished

instanceVars == <<vars, syncVars, cutShort>>

\* Type correctness of the instance.
InstanceTypeOK ==
    /\ TypeOK
    /\ SyncTypeOK
    /\ cutShort \subseteq Meetings

InstanceInit ==
    /\ Init
    /\ SyncInit
    /\ cutShort = {}

\* SaveMeeting has yet to write records of m.
Saving(m) == todo \cap Selected(m) # {}

RememberCut ==
    cutShort' = cutShort \cup {m \in Meetings : Saving(m)}

Sync ==
    /\ SyncStep
    /\ IF spc' = "idle" THEN RememberCut ELSE UNCHANGED cutShort
    /\ UNCHANGED <<file, jobVars>>

Download == DownloadOnce /\ UNCHANGED <<syncVars, cutShort>>

Restart == Crash /\ SyncStops /\ RememberCut

Trim ==
    /\ \E m \in Meetings : TrimCloud(m)
    /\ UNCHANGED <<syncVars, cutShort>>

InstanceNext == Sync \/ Download \/ Restart \/ Trim

InstanceSpec == InstanceInit /\ [][InstanceNext]_instanceVars

-----------------------------------------------------------------------------
\* Whatever fails, DownloadOnce decides to remove a meeting that it has not
\* downloaded in full for one of two reasons only: SaveMeeting is writing the
\* records of that very meeting, or once stopped before it had written them.
EarlyPurgeOnlyIfUnsaved ==
    [][At("loaded") /\ At("purge")' =>
         \/ Selected(RecMeeting) \subseteq archived
         \/ Saving(RecMeeting)
         \/ RecMeeting \in cutShort]_instanceVars

\* The records of a meeting are all written or SaveMeeting was cut short: a
\* failed statement, a restart or the other job lose no row in another way.
RowsLostOnlyByCut ==
    \A m \in saved \ cutShort : Saving(m) \/ GetRecords(m) = Selected(m)

\* The status page says "OK" only "when everything is downloaded and nothing
\* has failed": each record wanted from a saved meeting was downloaded, but for
\* the rows that SaveMeeting is writing or was cut short of writing.
OkMeansDownloaded ==
    StatusWord = "OK" =>
        \A m \in saved \ cutShort : Saving(m) \/ Selected(m) \subseteq archived

\* Whatever fails and whenever the process restarts, the removal of a meeting
\* never takes along a record whose download failed, was given up or is under
\* way: of the stored records it loses those alone that the sync job wrote
\* after meetingRecordsLoaded had looked.
PurgeLosesOnlyNewRows ==
    [][\A m \in purged' \ purged : \A r \in GetRecords(m) :
         r \in archived \/ status[r] = "queued"]_instanceVars

=============================================================================
