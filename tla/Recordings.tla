----------------------------- MODULE Recordings -----------------------------
(***************************************************************************)
(* The recordings of one Zoom account: meetings, the files Zoom produced   *)
(* for each of them, and the choice of the files this service wants.       *)
(* Record identifiers are numbers, so that "ORDER BY startTime, id" is a   *)
(* comparison of numbers.                                                  *)
(***************************************************************************)
EXTENDS Account, Naturals

CONSTANTS
    Records,    \* the recording files of all the meetings
    MeetingOf,  \* the meeting a file belongs to (Record.MeetingId)
    StartTime,  \* when the file starts (Record.StartTime)
    Class       \* the configured list that names the file's type, or "other"

Classes == {"important", "alternative", "optional", "other"}

ASSUME RecordingsAssumption ==
    /\ Records \subseteq Nat \ {0}
    /\ IsFiniteSet(Records)
    /\ MeetingOf \in [Records -> Meetings]
    /\ StartTime \in [Records -> Nat]
    /\ Class \in [Records -> Classes]

RecordsOf(m) == {r \in Records : MeetingOf[r] = m}

OfClass(m, c) == {r \in RecordsOf(m) : Class[r] = c}

\* The important files, or the alternative ones of a meeting without any.
Primary(m) ==
    IF OfClass(m, "important") # {}
    THEN OfClass(m, "important")
    ELSE OfClass(m, "alternative")

\* What SyncMeetings keeps of meeting.Records before it saves the meeting.
Selected(m) == Primary(m) \cup OfClass(m, "optional")

Wanted == UNION {Selected(m) : m \in Meetings}

\* The order of GetQueuedRecord: by start time, then by id.
Before(q, r) ==
    \/ StartTime[q] < StartTime[r]
    \/ StartTime[q] = StartTime[r] /\ q < r

=============================================================================
