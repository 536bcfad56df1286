------------------------------- MODULE WebApi -------------------------------
(***************************************************************************)
(* Two requests of the HTTP API beside the download job of the instance:   *)
(* /status (statusHandler), with the meeting it keeps in the cache of      *)
(* package mcache, and /check (CheckConsistency), which is also the check  *)
(* command of the CLI.  Every request is a goroutine of its own.  A look   *)
(* into the cache is one critical section; Get and Set consist of two      *)
(* each.  The other value of the cache, the report of Zoom, is looked up   *)
(* in the same way, and is not distinguished from the next report.         *)
(***************************************************************************)
EXTENDS DownloadJob

CONSTANTS
    Viewers,        \* the requests that can be under way at a time
    Video,          \* the records whose file extension is MP4
    MeetingTime,    \* when each meeting started
    Life            \* how many ticks the cached meeting is kept

ASSUME WebApiAssumption ==
    /\ Video \subseteq Records
    /\ MeetingTime \in [Meetings -> Nat]
    /\ Life \in Nat \ {0}

VARIABLES
    item,       \* the cached last meeting
    left,       \* the ticks left to it, -1 when it has expired
    hpc,        \* where each request is
    got,        \* the meeting it has listed
    unchecked,  \* /check: the listed records it has yet to look at
    flagged,    \* history: the records that /check complained about
    met         \* history: has another /status been there at the same time?

cacheVars == <<item, left>>
requestVars == <<hpc, got, unchecked, met>>
webVars == <<cacheVars, requestVars, flagged>>
allVars == <<vars, webVars>>

NoItem == "none"

WebTypeOK ==
    /\ TypeOK
    /\ item \in Meetings \cup {NoItem}
    /\ left \in -1..Life
    /\ hpc \in [Viewers -> {"idle", "has", "drop", "read", "fetch", "set",
                            "write", "report", "check"}]
    /\ got \in [Viewers -> Meetings \cup {NoItem}]
    /\ unchecked \in [Viewers -> SUBSET Records]
    /\ flagged \in [{"missing", "wrong"} -> SUBSET Records]
    /\ met \in [Viewers -> BOOLEAN]

EachViewer(x) == [v \in Viewers |-> x]

WebInit ==
    /\ Init
    /\ item = NoItem
    /\ left = -1
    /\ hpc = EachViewer("idle")
    /\ got = EachViewer(NoItem)
    /\ unchecked = EachViewer({})
    /\ met = EachViewer(FALSE)
    /\ flagged = [kind \in {"missing", "wrong"} |-> {}]

Is(v, step) == hpc[v] = step

\* v is a /status request under way.
Viewing(v) == hpc[v] \notin {"idle", "check"}

Advance(v, step) ==
    /\ hpc' = [hpc EXCEPT ![v] = step]
    /\ UNCHANGED <<unchecked, met, flagged, vars>>

\* The request is answered, or given up with an error or a panic.
Finish(v) ==
    /\ hpc' = [hpc EXCEPT ![v] = "idle"]
    /\ got' = [got EXCEPT ![v] = NoItem]
    /\ unchecked' = [unchecked EXCEPT ![v] = {}]
    /\ met' = [met EXCEPT ![v] = FALSE]
    /\ UNCHANGED <<flagged, cacheVars, vars>>

-----------------------------------------------------------------------------
\* /status.  A request whose Stats fails is answered at once, as if unasked.

Request(v) ==
    /\ Is(v, "idle")
    /\ hpc' = [hpc EXCEPT ![v] = "has"]
    /\ met' = [u \in Viewers |->
                 IF u = v THEN \E w \in Viewers \ {v} : Viewing(w)
                          ELSE met[u] \/ Viewing(u)]
    /\ UNCHANGED <<got, unchecked, cacheVars, flagged, vars>>

Cached == item # NoItem

\* Faulty variant: every look at the entry prolongs its life.
HasEntryProlonged(v) ==
    /\ Is(v, "has")
    /\ Cached
    /\ left >= 0
    /\ left' = Life
    /\ Advance(v, "read")
    /\ UNCHANGED <<got, item>>

\* Cache.Has: the entry is there and has not expired.
HasEntry(v) ==
    /\ Is(v, "has")
    /\ Cached
    /\ left >= 0
    /\ Advance(v, "read")
    /\ UNCHANGED <<got, cacheVars>>

HasExpired(v) ==
    /\ Is(v, "has")
    /\ Cached
    /\ left < 0
    /\ Advance(v, "drop")
    /\ UNCHANGED <<got, cacheVars>>

HasNothing(v) ==
    /\ Is(v, "has")
    /\ ~Cached
    /\ Advance(v, "fetch")
    /\ UNCHANGED <<got, cacheVars>>

\* Faulty variant: Has reports an entry that it has just deleted.
DropAndRead(v) ==
    /\ Is(v, "drop")
    /\ item' = NoItem
    /\ left' = -1
    /\ Advance(v, "read")
    /\ UNCHANGED got

\* Has deletes the entry, which another request may have renewed by now.
Drop(v) ==
    /\ Is(v, "drop")
    /\ item' = NoItem
    /\ left' = -1
    /\ Advance(v, "fetch")
    /\ UNCHANGED got

\* Cache.Get reads the entry that Has saw.
Read(v) ==
    /\ Is(v, "read")
    /\ Cached
    /\ Advance(v, "report")
    /\ UNCHANGED <<got, cacheVars>>

\* The entry is gone: the type assertion on nil panics.
ReadNothing(v) ==
    /\ Is(v, "read")
    /\ ~Cached
    /\ Finish(v)

\* ListMeetings: the meetings with a downloaded video, newest first.
Watchable ==
    {m \in Meetings : \E r \in RecordsOf(m) \cap Video : status[r] = "downloaded"}

IsNewest(m) ==
    /\ m \in Watchable
    /\ \A n \in Watchable : MeetingTime[n] <= MeetingTime[m]

FetchLast(v, m) ==
    /\ Is(v, "fetch")
    /\ IsNewest(m)
    /\ got' = [got EXCEPT ![v] = m]
    /\ Advance(v, "set")
    /\ UNCHANGED cacheVars

\* meetingsLoaded[0] of an empty list panics; an error is answered with 500.
FetchNothing(v) ==
    /\ Is(v, "fetch")
    /\ Watchable = {} \/ MayFail("db")
    /\ Finish(v)

\* Cache.Set refuses to replace an entry that lives; nobody looks at the error.
SetRefused(v) ==
    /\ Is(v, "set")
    /\ Cached
    /\ left > 0
    /\ Advance(v, "report")
    /\ UNCHANGED <<got, cacheVars>>

SetAllowed(v) ==
    /\ Is(v, "set")
    /\ ~Cached \/ left <= 0
    /\ Advance(v, "write")
    /\ UNCHANGED <<got, cacheVars>>

Write(v) ==
    /\ Is(v, "write")
    /\ item' = got[v]
    /\ left' = Life
    /\ Advance(v, "report")
    /\ UNCHANGED got

\* The report of Zoom, the sizes of the drive, and the answer; without the
\* report the answer is an error.
Answer(v) ==
    /\ Is(v, "report")
    /\ Finish(v)

-----------------------------------------------------------------------------
\* /check, and the check command.

Check(v) ==
    /\ Is(v, "idle")
    /\ hpc' = [hpc EXCEPT ![v] = "check"]
    /\ unchecked' = [unchecked EXCEPT ![v] = GetRecordsByStatus("downloaded")]
    /\ UNCHANGED <<got, met, cacheVars, flagged, vars>>

Complain(kind, r) == flagged' = [flagged EXCEPT ![kind] = @ \cup {r}]

\* A file is looked at three times, for its presence and for its size.  The
\* complaint is logged, and errors.Join drops it from the result.
CheckFile(v, r) ==
    /\ Is(v, "check")
    /\ r \in unchecked[v]
    /\ \A q \in unchecked[v] : StartTime[r] <= StartTime[q]
    /\ unchecked' = [unchecked EXCEPT ![v] = @ \ {r}]
    /\ \/ file[r] = 0 /\ Complain("missing", r)
       \/ file[r] \notin {0, Size[r]} /\ Complain("wrong", r)
       \/ IsFull(r) /\ UNCHANGED flagged
    /\ UNCHANGED <<hpc, got, met, cacheVars, vars>>

CheckEnds(v) ==
    /\ Is(v, "check")
    /\ unchecked[v] = {}
    /\ Finish(v)

-----------------------------------------------------------------------------
Tick ==
    /\ left >= 0
    /\ left' = left - 1
    /\ UNCHANGED <<item, requestVars, flagged, vars>>

\* The process starts again, with an empty cache and no request.
Restart ==
    /\ Crash
    /\ item' = NoItem
    /\ left' = -1
    /\ hpc' = EachViewer("idle")
    /\ got' = EachViewer(NoItem)
    /\ unchecked' = EachViewer({})
    /\ met' = EachViewer(FALSE)
    /\ UNCHANGED flagged

Status(v) ==
    \/ HasEntry(v)
    \/ HasExpired(v)
    \/ HasNothing(v)
    \/ Drop(v)
    \/ Read(v)
    \/ ReadNothing(v)
    \/ \E m \in Meetings : FetchLast(v, m)
    \/ FetchNothing(v)
    \/ SetRefused(v)
    \/ SetAllowed(v)
    \/ Write(v)
    \/ Answer(v)

Serve(v) ==
    \/ Status(v)
    \/ \E r \in Records : CheckFile(v, r)
    \/ CheckEnds(v)

Work == DownloadOnce \/ Environment

WebNext ==
    \/ \E v \in Viewers : Request(v) \/ Check(v) \/ Serve(v)
    \/ Tick
    \/ Work /\ UNCHANGED webVars
    \/ Restart

WebSpec == WebInit /\ [][WebNext]_allVars

\* Time passes, and the goroutine of a request keeps running.
WebFairSpec ==
    /\ WebSpec
    /\ WF_allVars(Tick)
    /\ \A v \in Viewers : WF_allVars(Serve(v))

-----------------------------------------------------------------------------
\* A request that no other /status overlaps never finds the entry gone that
\* Has saw a moment ago; one that is overlapped may, and then panics.
LoneRequestReads ==
    \A v \in Viewers : Is(v, "read") /\ ~Cached => met[v]

\* /check beside the running download job never takes an unfinished download
\* or a retry for a damaged file, and what it calls missing was evicted for
\* good: no retry, restart or failed update brings the file back.
CheckFlagsOnlyEvicted ==
    /\ flagged["wrong"] = {}
    /\ \A r \in flagged["missing"] : r \in archived /\ file[r] = 0

\* The last meeting on the status page catches up with the list: however the
\* requests overtake each other, once the newest meeting of the list remains
\* the same, no other one stays in the cache for good.
LastCatchesUp ==
    \A m \in Meetings :
        <>[]IsNewest(m) => <>[](item \in {m, NoItem} \/ left < 0)

=============================================================================
