------------------------------ MODULE CloudCap ------------------------------
(***************************************************************************)
(* The cloudcap command of the CLI (DeleteRecordingsOverCapacity): it      *)
(* lists all meetings of the account in chunks of days going back from     *)
(* today (GetAllMeetings), sorts them, and removes from Zoom all that come *)
(* after the first cap bytes.  The first and the last day of a chunk both  *)
(* belong to it, so a meeting on a common day of two chunks is listed      *)
(* twice: the list is a bag.                                               *)
(***************************************************************************)
EXTENDS ZoomCloud, Failures, Integers, FiniteSetsExt

CONSTANTS
    DaysAgo,        \* how many days ago each meeting took place
    Bytes,          \* the size of its records in Zoom
    ChunkDays,      \* the days from the start of a chunk to its end (30)
    Tries,          \* how often GetAllMeetingsWithRetry tries (10)
    Cap             \* client.cloud_capacity_hard_limit

ASSUME CloudCapAssumption ==
    /\ DaysAgo \in [Meetings -> Nat]
    /\ Bytes \in [Meetings -> Nat]
    /\ ChunkDays \in Nat \ {0}
    /\ Tries \in Nat \ {0}
    /\ Cap \in Nat \ {0}       \* the command refuses 0

VARIABLES
    cpc,        \* where the command is
    chunk,      \* the chunks listed so far
    empty,      \* how many of the last of them were empty
    failed,     \* tries of GetAllMeetings that failed
    listed,     \* how often each meeting is in the list
    unvisited,  \* the part of the list that the loop has yet to visit
    used,       \* the bytes of the visited part
    trimmed,    \* history: the meetings the command removed from Zoom
    refused     \* history: the meetings it asked Zoom to remove in vain

capVars == <<cpc, chunk, empty, failed, listed, unvisited, used,
             trimmed, refused>>
vars == <<cloud, capVars>>
outcome == <<trimmed, refused>>

Nothing == [m \in Meetings |-> 0]

BytesOf(S) == MapThenSumSet(LAMBDA m : Bytes[m], S)

\* Type correctness: no meeting is listed more than twice.
TypeOK ==
    /\ CloudTypeOK
    /\ cpc \in {"list", "trim", "done", "failed"}
    /\ chunk \in Nat
    /\ empty \in 0..2
    /\ failed \in 0..Tries
    /\ listed \in [Meetings -> 0..2]
    /\ unvisited \in [Meetings -> 0..2]
    /\ used \in Nat
    /\ trimmed \subseteq Meetings
    /\ refused \subseteq Meetings

Init ==
    /\ FullCloud
    /\ cpc = "list"
    /\ chunk = 0
    /\ empty = 0
    /\ failed = 0
    /\ listed = Nothing
    /\ unvisited = Nothing
    /\ used = 0
    /\ trimmed = {}
    /\ refused = {}

-----------------------------------------------------------------------------
\* GetAllMeetings.

\* The chunk after n others, both ends included.
InChunk(m, n) ==
    /\ cloud[m] = "present"
    /\ DaysAgo[m] \in (n * ChunkDays)..((n + 1) * ChunkDays)

ListChunk ==
    /\ cpc = "list"
    /\ empty < 2
    /\ listed' = [m \in Meetings |->
                    IF InChunk(m, chunk) THEN listed[m] + 1 ELSE listed[m]]
    /\ empty' = IF \E m \in Meetings : InChunk(m, chunk) THEN 0 ELSE empty + 1
    /\ chunk' = chunk + 1
    /\ UNCHANGED <<cpc, failed, unvisited, used, outcome, cloud>>

\* Faulty variant: the next try adds to the list of the failed one.
ListFailsKeepsList ==
    /\ cpc = "list"
    /\ empty < 2
    /\ MayFail("net")
    /\ failed' = failed + 1
    /\ cpc' = IF failed' = Tries THEN "failed" ELSE "list"
    /\ chunk' = 0
    /\ empty' = 0
    /\ UNCHANGED <<listed, unvisited, used, outcome, cloud>>

\* Faulty variant: the tries are not counted.
ListFailsUncounted ==
    /\ cpc = "list"
    /\ empty < 2
    /\ MayFail("net")
    /\ chunk' = 0
    /\ empty' = 0
    /\ listed' = Nothing
    /\ UNCHANGED <<cpc, failed, unvisited, used, outcome, cloud>>

\* A request fails: the next try starts from today again.
ListFails ==
    /\ cpc = "list"
    /\ empty < 2
    /\ MayFail("net")
    /\ failed' = failed + 1
    /\ cpc' = IF failed' = Tries THEN "failed" ELSE "list"
    /\ chunk' = 0
    /\ empty' = 0
    /\ listed' = Nothing
    /\ UNCHANGED <<unvisited, used, outcome, cloud>>

\* Two empty chunks in a row: there is nothing earlier.
ListEnds ==
    /\ cpc = "list"
    /\ empty = 2
    /\ cpc' = "trim"
    /\ unvisited' = listed
    /\ UNCHANGED <<chunk, empty, failed, listed, used, outcome, cloud>>

-----------------------------------------------------------------------------
\* The loop over the sorted list.

\* Faulty variant: the oldest meeting goes first.
IsOldest(m) ==
    /\ unvisited[m] > 0
    /\ \A n \in Meetings : unvisited[n] > 0 => DaysAgo[m] >= DaysAgo[n]

IsNewest(m) ==
    /\ unvisited[m] > 0
    /\ \A n \in Meetings : unvisited[n] > 0 => DaysAgo[m] <= DaysAgo[n]

\* Faulty variant: the size of a meeting is added after the comparison.
TrimLate(m) ==
    /\ cpc = "trim"
    /\ IsNewest(m)
    /\ unvisited' = [unvisited EXCEPT ![m] = @ - 1]
    /\ used' = used + Bytes[m]
    /\ IF used <= Cap
       THEN UNCHANGED <<cloud, outcome>>
       ELSE /\ DeleteMeetingRecordings(m, TRUE)
            /\ trimmed' = trimmed \cup {m}
            /\ UNCHANGED refused
    /\ UNCHANGED <<cpc, chunk, empty, failed, listed>>

Trim(m) ==
    /\ cpc = "trim"
    /\ IsNewest(m)
    /\ unvisited' = [unvisited EXCEPT ![m] = @ - 1]
    /\ used' = used + Bytes[m]
    /\ IF used' <= Cap
       THEN UNCHANGED <<cloud, outcome>>
       ELSE \/ /\ DeleteMeetingRecordings(m, TRUE)
               /\ trimmed' = trimmed \cup {m}
               /\ UNCHANGED refused
            \/ /\ MayFail("api") \/ ~MayDelete
               /\ refused' = refused \cup {m}
               /\ UNCHANGED <<cloud, trimmed>>
    /\ UNCHANGED <<cpc, chunk, empty, failed, listed>>

TrimEnds ==
    /\ cpc = "trim"
    /\ unvisited = Nothing
    /\ cpc' = "done"
    /\ UNCHANGED <<chunk, empty, failed, listed, unvisited, used, outcome, cloud>>

\* SIGTERM: the command returns at its next look at ctx.Done().
Interrupt ==
    /\ MaxCrashes > 0
    /\ cpc \in {"list", "trim"}
    /\ cpc' = "failed"
    /\ UNCHANGED <<chunk, empty, failed, listed, unvisited, used, outcome, cloud>>

\* An instance removes what it has downloaded, at any time.
OthersDelete(m) ==
    /\ MayFail("cloud")
    /\ cloud[m] = "present"
    /\ cloud' = [cloud EXCEPT ![m] = "trash"]
    /\ UNCHANGED capVars

-----------------------------------------------------------------------------
CapStep ==
    \/ ListChunk
    \/ ListFails
    \/ ListEnds
    \/ \E m \in Meetings : Trim(m)
    \/ TrimEnds

Next == CapStep \/ Interrupt \/ \E m \in Meetings : OthersDelete(m)

Spec == Init /\ [][Next]_vars

FairSpec == Spec /\ WF_vars(CapStep)

-----------------------------------------------------------------------------
Present == {m \in Meetings : cloud[m] = "present"}

\* The listed recordings that the command may have left in Zoom on purpose.
Left == {m \in Present : listed[m] > 0} \ refused

\* When the command is done, the listed recordings left in Zoom fit in the
\* limit, but for those that Zoom would not remove, whatever the instances
\* removed and the listing had to start over in the meantime.  (Recordings
\* older than two empty chunks are never listed.)
FitsCap == cpc = "done" => BytesOf(Left) <= Cap

\* The recordings removed are the oldest: none of them, even when the command
\* is stopped half way, is more recent than a listed meeting that was
\* visited and stays.
OldestGoFirst ==
    \A m \in trimmed, n \in Left :
        unvisited[n] = 0 => DaysAgo[n] <= DaysAgo[m]

\* The command ends, with a result or after Tries failures.
CapEnds == <>(cpc \in {"done", "failed"})

\* It "leaves Client.CloudCapacityHardLimit bytes of the most recent
\* recordings": a meeting goes only if the recordings since its day exceed
\* the limit.
KeepsRecent ==
    \A m \in trimmed :
        BytesOf({n \in Meetings : DaysAgo[n] <= DaysAgo[m]}) > Cap

=============================================================================
