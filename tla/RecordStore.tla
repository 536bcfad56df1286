---------------------------- MODULE RecordStore ----------------------------
(***************************************************************************)
(* The SQLite database of an instance (storage/sqlite): the rows of table  *)
(* meetings and the status column of table records.  Every operator is one *)
(* SQL statement, which SQLite runs atomically; nothing groups statements  *)
(* into a transaction.                                                     *)
(***************************************************************************)
EXTENDS Recordings

VARIABLES
    saved,      \* the meetings that have a row
    status      \* the status of every record, "absent" when it has no row

storeVars == <<saved, status>>

Statuses == {"queued", "downloading", "downloaded", "failed", "deleted"}

StoreTypeOK ==
    /\ saved \subseteq Meetings
    /\ status \in [Records -> Statuses \cup {"absent"}]

EmptyStore ==
    /\ saved = {}
    /\ status = [r \in Records |-> "absent"]

-----------------------------------------------------------------------------
\* Queries.

HasMeeting(m) == m \in saved

GetRecords(m) == {r \in RecordsOf(m) : status[r] # "absent"}

GetRecordsByStatus(s) == {r \in Records : status[r] = s}

\* Faulty variant: failed records are looked at along with the queued ones.
IsPendingFirst(r) ==
    LET pending == {q \in Records : status[q] \in {"queued", "failed"}}
    IN  r \in pending /\ \A q \in pending : ~Before(q, r)

\* r is the row that "ORDER BY startTime, id LIMIT 1" returns.
IsQueuedFirst(r) ==
    /\ r \in GetRecordsByStatus("queued")
    /\ \A q \in GetRecordsByStatus("queued") : ~Before(q, r)

NoQueued == GetRecordsByStatus("queued") = {}

Some(statuses) == \E r \in Records : status[r] \in statuses

\* Faulty variant: a record that is being downloaded does not count.
StatusWordOfQueue ==
    CASE Some({"queued"}) -> "LOADING"
      [] ~Some({"queued"}) /\ Some({"failed"}) -> "FAILED"
      [] OTHER -> "OK"

\* The word of the status page, from the statuses that Stats counts.
StatusWord ==
    CASE Some({"queued", "downloading"}) -> "LOADING"
      [] ~Some({"queued", "downloading"}) /\ Some({"failed"}) -> "FAILED"
      [] OTHER -> "OK"

-----------------------------------------------------------------------------
\* Updates.

InsertMeetingRow(m) == saved' = saved \cup {m}

\* Faulty variant: saveRecord without its default status.
InsertRecordWithoutStatus(r) ==
    /\ status[r] = "absent"
    /\ status' = [status EXCEPT ![r] = ""]

InsertRecordRow(r) ==
    /\ status[r] = "absent"
    /\ status' = [status EXCEPT ![r] = "queued"]

UpdateRecord(r, s) == status' = [status EXCEPT ![r] = s]

\* Faulty variant: UPDATE without the condition on the status.
ResetAllRecords ==
    status' = [r \in Records |->
                 IF status[r] = "absent" THEN "absent" ELSE "queued"]

\* Faulty variant: the records left "downloading" are forgotten.
ResetOnlyFailed ==
    status' = [r \in Records |->
                 IF status[r] = "failed" THEN "queued" ELSE status[r]]

ResetFailedRecords ==
    status' = [r \in Records |->
                 IF status[r] \in {"failed", "downloading"}
                 THEN "queued" ELSE status[r]]

=============================================================================
