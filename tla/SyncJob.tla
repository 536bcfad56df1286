------------------------------ MODULE SyncJob ------------------------------
(***************************************************************************)
(* The sync job of one instance: SyncMeetings over the feed of a day, for  *)
(* ever.  SaveMeeting writes the meeting row and then one row per record,  *)
(* each in a statement of its own; a step is one such statement, or one    *)
(* call to Zoom.                                                           *)
(***************************************************************************)
EXTENDS RecordStore, ZoomCloud, Failures

CONSTANT
    Short       \* the meetings shorter than syncable.min_duration

ASSUME SyncJobAssumption == Short \subseteq Meetings

VARIABLES
    spc,        \* where the job is
    feed,       \* the meetings of the feed still to visit
    todo        \* SaveMeeting: the records it has yet to write

syncVars == <<spc, feed, todo>>

SyncTypeOK ==
    /\ spc \in {"idle", "feed", "records"}
    /\ feed \subseteq Meetings
    /\ todo \subseteq Records

SyncInit ==
    /\ spc = "idle"
    /\ feed = {}
    /\ todo = {}

\* SyncMeetings ends, or the process does.
SyncStops ==
    /\ spc' = "idle"
    /\ feed' = {}
    /\ todo' = {}

-----------------------------------------------------------------------------
\* The feed lists recordings of a day that Zoom still has, in any order.
GetFeed(listedMeetings) ==
    /\ spc = "idle"
    /\ listedMeetings # {}
    /\ \A m \in listedMeetings : cloud[m] = "present"
    /\ spc' = "feed"
    /\ feed' = listedMeetings
    /\ UNCHANGED <<todo, storeVars, cloud>>

FeedDone ==
    /\ spc = "feed"
    /\ feed = {}
    /\ SyncStops
    /\ UNCHANGED <<storeVars, cloud>>

Visit(m) ==
    /\ spc = "feed"
    /\ m \in feed
    /\ feed' = feed \ {m}

\* client.delete_skipped: remove what is not going to be saved.
DropSkipped(m) ==
    IF DeleteSkipped
    THEN \/ DeleteMeetingRecordings(m, DeleteDownloaded)
         \/ MayFail("api") /\ UNCHANGED cloud
    ELSE UNCHANGED cloud

SkipShort(m) ==
    /\ Visit(m)
    /\ m \in Short
    /\ DropSkipped(m)
    /\ UNCHANGED <<spc, todo, storeVars>>

SkipSaved(m) ==
    /\ Visit(m)
    /\ m \notin Short
    /\ HasMeeting(m)
    /\ UNCHANGED <<spc, todo, storeVars, cloud>>

SkipEmpty(m) ==
    /\ Visit(m)
    /\ m \notin Short
    /\ ~HasMeeting(m)
    /\ Selected(m) = {}
    /\ DropSkipped(m)
    /\ UNCHANGED <<spc, todo, storeVars>>

-----------------------------------------------------------------------------
\* SaveMeeting.

\* Faulty variant: the optional records are left out.
InsertMeetingPrimary(m) ==
    /\ Visit(m)
    /\ m \notin Short
    /\ ~HasMeeting(m)
    /\ Primary(m) # {}
    /\ InsertMeetingRow(m)
    /\ spc' = "records"
    /\ todo' = Primary(m)
    /\ UNCHANGED <<status, cloud>>

InsertMeeting(m) ==
    /\ Visit(m)
    /\ m \notin Short
    /\ ~HasMeeting(m)
    /\ Selected(m) # {}
    /\ InsertMeetingRow(m)
    /\ spc' = "records"
    /\ todo' = Selected(m)
    /\ UNCHANGED <<status, cloud>>

\* The optional records come after the others.
InsertRecord(r) ==
    /\ spc = "records"
    /\ r \in todo
    /\ r \in Primary(MeetingOf[r]) \/ todo \cap Primary(MeetingOf[r]) = {}
    /\ InsertRecordRow(r)
    /\ todo' = todo \ {r}
    /\ spc' = IF todo = {r} THEN "feed" ELSE "records"
    /\ UNCHANGED <<feed, saved, cloud>>

\* An error of GetMeeting or of an INSERT ends SyncMeetings; the rows that
\* SaveMeeting has written stay.
SaveFails ==
    /\ MayFail("db")
    /\ spc = "records" \/ \E m \in feed : m \notin Short
    /\ SyncStops
    /\ UNCHANGED <<storeVars, cloud>>

SyncStep ==
    \/ \E listedMeetings \in SUBSET Meetings : GetFeed(listedMeetings)
    \/ FeedDone
    \/ \E m \in Meetings :
        SkipShort(m) \/ SkipSaved(m) \/ SkipEmpty(m) \/ InsertMeeting(m)
    \/ \E r \in Records : InsertRecord(r)
    \/ SaveFails

=============================================================================
