---------------------------- MODULE WebApiProofs ----------------------------
(***************************************************************************)
(* Theorems about the requests beside the download job, for any number of  *)
(* requests, every account, drive, set of failures and number of restarts. *)
(***************************************************************************)
EXTENDS WebApi, DownloadJobProofs

USE RecordingsAssumption, FailuresAssumption, DiskAssumption, WebApiAssumption
USE DEF At, NoRecord, GetRecordsByStatus, Statuses, IsFull, NoItem, EachViewer,
        Is, Cached, cacheVars, requestVars, webVars

\* The types of the requests and of the cache.
RequestTypes ==
    /\ item \in Meetings \cup {NoItem}
    /\ left \in -1..Life
    /\ hpc \in [Viewers -> {"idle", "has", "drop", "read", "fetch", "set",
                            "write", "report", "check"}]
    /\ got \in [Viewers -> Meetings \cup {NoItem}]
    /\ unchecked \in [Viewers -> SUBSET Records]
    /\ flagged \in [{"missing", "wrong"} -> SUBSET Records]
    /\ met \in [Viewers -> BOOLEAN]

\* A /status request that has met no other is alone, and nobody else deletes
\* the entry that Has showed it.
Alone ==
    \A v \in Viewers :
        Viewing(v) /\ ~met[v] =>
            /\ \A u \in Viewers \ {v} : ~Viewing(u)
            /\ Is(v, "read") => Cached

\* /check looks at records that were downloaded once.
ChecksArchived == \A v \in Viewers : unchecked[v] \subseteq archived

WebInv ==
    /\ IInv
    /\ RequestTypes
    /\ Alone
    /\ ChecksArchived
    /\ CheckFlagsOnlyEvicted

\* The file of a record that was downloaded and evicted never comes back.
LEMMA GoneStays ==
    ASSUME IInv, [Next]_vars, NEW r \in archived, file[r] = 0
    PROVE  r \in archived' /\ file'[r] = 0
<1> USE DEF IInv, ArchivedStatus, InFlight, TypeOK, DiskTypeOK, Downloading,
            localVars, history, jobVars, storeVars, Goto, Return
<1>1. r \in Records /\ status[r] \in {"downloaded", "deleted"}
    OBVIOUS
<1>2. CASE FetchComplete \/ FetchResumed \/ FetchBroken \/ Crash
    <2>1. file' = file \/ (rec \in Records /\ rec # r
                            /\ \E n \in Nat : file' = [file EXCEPT ![rec] = n])
        BY <1>1, <1>2
        DEF FetchComplete, FetchResumed, FetchBroken, FillsDrive, Crash, Interrupted
    <2>2. archived' = archived
        BY <1>2
        DEF FetchComplete, FetchResumed, FetchBroken, Crash, MissRemoval
    <2>3. QED
        BY <1>1, <2>1, <2>2
<1>3. ASSUME NEW q \in Records, EvictRemove(q) PROVE r \in archived' /\ file'[r] = 0
    BY <1>1, <1>3 DEF EvictRemove, RemoveFolder
<1>4. CASE file' = file /\ archived \subseteq archived'
    BY <1>4
<1>5. QED
    BY <1>2, <1>3, <1>4
    DEF Next, DownloadOnce, DownloadRecord, FreeUpSpace, Environment, vars,
        PickQueued, FindNoQueued, GotToken, TokenRefused, Prepare,
        PrepareFails, SpaceIsFree, ListDownloaded, SpaceFails, EvictDone,
        EvictSkip, EvictFails, EvictMark, FetchRefused, MarkFails,
        CheckLoaded, CheckLoadedFails, MissRemoval, Purge, PurgeFails,
        TrimCloud, Claim, MarkFailed, MarkDownloaded, RequeueFailed, Save

LEMMA ArchivedGrows ==
    ASSUME IInv, [Next]_vars
    PROVE  archived \subseteq archived'
<1>1. CASE DownloadOnce \/ Crash
    BY <1>1, JobStep DEF IInv, JobInv, RowsKept
<1>2. QED
    BY <1>1 DEF Next, Environment, Save, TrimCloud, vars, jobVars, history

\* What a step of the job or of its environment leaves of the requests.
LEMMA JobBesideRequests ==
    ASSUME WebInv, [Next]_vars, UNCHANGED webVars
    PROVE  WebInv'
<1>1. IInv'
    BY NextIInv DEF WebInv
<1>2. RequestTypes' /\ Alone'
    BY DEF WebInv, RequestTypes, Alone, Viewing
<1>3. ChecksArchived'
    BY ArchivedGrows DEF WebInv, ChecksArchived
<1>4. CheckFlagsOnlyEvicted'
    BY GoneStays DEF WebInv, CheckFlagsOnlyEvicted
<1>5. QED
    BY <1>1, <1>2, <1>3, <1>4 DEF WebInv

\* A step of a request leaves what the job knows alone.
LEMMA RequestBesideJob ==
    ASSUME WebInv, UNCHANGED vars
    PROVE  IInv'
BY NextIInv DEF WebInv

LEMMA NextWeb == WebInv /\ [WebNext]_allVars => WebInv'
<1> SUFFICES ASSUME WebInv, [WebNext]_allVars
             PROVE  WebInv'
    OBVIOUS
<1>1. ASSUME NEW v \in Viewers, Request(v) PROVE WebInv'
    <2>1. IInv' /\ UNCHANGED <<got, unchecked, item, left, flagged, vars>>
        BY <1>1, RequestBesideJob DEF Request
    <2>2. RequestTypes'
        BY <1>1, <2>1 DEF Request, WebInv, RequestTypes
    <2>3. Alone'
        BY <1>1, <2>1 DEF Request, WebInv, RequestTypes, Alone, Viewing
    <2>4. ChecksArchived' /\ CheckFlagsOnlyEvicted'
        BY <2>1 DEF WebInv, ChecksArchived, CheckFlagsOnlyEvicted, vars, jobVars,
                    history
    <2>5. QED
        BY <2>1, <2>2, <2>3, <2>4 DEF WebInv
<1>2. ASSUME NEW v \in Viewers, Status(v) PROVE WebInv'
    <2>0. /\ Viewing(v)
          /\ \/ Finish(v)
             \/ \E step \in {"read", "drop", "fetch", "report", "set", "write"} :
                   Advance(v, step)
        <3>1. CASE \E m \in Meetings : FetchLast(v, m)
            BY <3>1 DEF FetchLast, Viewing
        <3>2. CASE HasEntry(v) \/ HasExpired(v) \/ HasNothing(v) \/ Drop(v)
            BY <3>2 DEF HasEntry, HasExpired, HasNothing, Drop, Viewing
        <3>3. CASE Read(v) \/ SetRefused(v) \/ SetAllowed(v) \/ Write(v)
            BY <3>3 DEF Read, SetRefused, SetAllowed, Write, Viewing
        <3>4. CASE ReadNothing(v) \/ FetchNothing(v) \/ Answer(v)
            BY <3>4 DEF ReadNothing, FetchNothing, Answer, Viewing
        <3>5. QED
            BY <1>2, <3>1, <3>2, <3>3, <3>4 DEF Status
    <2>1. UNCHANGED flagged /\ UNCHANGED vars
        BY <2>0 DEF Advance, Finish
    <2>9. \A u \in Viewers : unchecked'[u] \subseteq unchecked[u]
        BY <2>0 DEF Advance, Finish, WebInv, RequestTypes
    <2>2. IInv'
        BY <2>1, RequestBesideJob
    <2>3. RequestTypes'
        <3>1. /\ hpc' \in [Viewers -> {"idle", "has", "drop", "read", "fetch",
                                       "set", "write", "report", "check"}]
              /\ unchecked' \in [Viewers -> SUBSET Records]
              /\ flagged' \in [{"missing", "wrong"} -> SUBSET Records]
              /\ met' \in [Viewers -> BOOLEAN]
            BY <2>0 DEF Advance, Finish, WebInv, RequestTypes
        <3>2. CASE \E m \in Meetings : FetchLast(v, m)
            BY <3>1, <3>2 DEF FetchLast, WebInv, RequestTypes
        <3>3. CASE HasEntry(v) \/ HasExpired(v) \/ HasNothing(v) \/ Drop(v)
            BY <3>1, <3>3 DEF HasEntry, HasExpired, HasNothing, Drop, WebInv,
                              RequestTypes
        <3>4. CASE Read(v) \/ SetRefused(v) \/ SetAllowed(v) \/ Write(v)
            BY <3>1, <3>4 DEF Read, SetRefused, SetAllowed, Write, WebInv,
                              RequestTypes
        <3>5. CASE ReadNothing(v) \/ FetchNothing(v) \/ Answer(v)
            BY <3>1, <3>5 DEF ReadNothing, FetchNothing, Answer, Finish, WebInv,
                              RequestTypes
        <3>6. QED
            BY <1>2, <3>2, <3>3, <3>4, <3>5 DEF Status
    <2>4. \A u \in Viewers \ {v} : hpc'[u] = hpc[u] /\ met'[u] = met[u]
        BY <1>2
        DEF Status, HasEntry, HasExpired, HasNothing, Drop, Read, ReadNothing,
            FetchLast, FetchNothing, SetRefused, SetAllowed, Write, Answer,
            Advance, Finish, WebInv, RequestTypes
    <2>5. /\ hpc'[v] = "read" => Cached'
          /\ Viewing(v)' => met'[v] = met[v]
        BY <1>2
        DEF Status, HasEntry, HasExpired, HasNothing, Drop, Read, ReadNothing,
            FetchLast, FetchNothing, SetRefused, SetAllowed, Write, Answer,
            Advance, Finish, WebInv, RequestTypes, Viewing
    <2>6. Alone'
        BY <2>0, <2>4, <2>5 DEF WebInv, Alone, Viewing
    <2>7. ChecksArchived'
        BY <2>9, ArchivedGrows, <2>1 DEF WebInv, ChecksArchived
    <2>8. CheckFlagsOnlyEvicted'
        BY <2>1 DEF WebInv, CheckFlagsOnlyEvicted, vars, jobVars, history,
                    localVars, storeVars
    <2>10. QED
        BY <2>2, <2>3, <2>6, <2>7, <2>8 DEF WebInv
<1>3. ASSUME NEW v \in Viewers,
             Check(v) \/ CheckEnds(v) \/ \E r \in Records : CheckFile(v, r)
      PROVE  WebInv'
    <2>1. UNCHANGED <<cacheVars, vars>> /\ IInv'
        BY <1>3, RequestBesideJob DEF Check, CheckEnds, CheckFile, Finish
    <2>2. RequestTypes'
        <3>1. CASE Check(v)
            BY <3>1 DEF Check, WebInv, RequestTypes
        <3>2. CASE CheckEnds(v)
            BY <3>2 DEF CheckEnds, Finish, WebInv, RequestTypes
        <3>3. ASSUME NEW r \in Records, CheckFile(v, r) PROVE RequestTypes'
            <4>1. flagged' \in [{"missing", "wrong"} -> SUBSET Records]
                BY <3>3 DEF CheckFile, Complain, WebInv, RequestTypes
            <4>2. QED
                BY <3>3, <4>1 DEF CheckFile, WebInv, RequestTypes
        <3>4. QED
            BY <1>3, <3>1, <3>2, <3>3
    <2>3. Alone'
        BY <1>3 DEF Check, CheckEnds, CheckFile, Finish, WebInv, RequestTypes,
                    Alone, Viewing
    <2>4. ChecksArchived'
        <3>1. GetRecordsByStatus("downloaded") \subseteq archived
            BY DEF WebInv, IInv, ArchivedStatus
        <3>2. \A u \in Viewers :
                unchecked'[u] \subseteq unchecked[u]
                  \/ unchecked'[u] = GetRecordsByStatus("downloaded")
            BY <1>3 DEF Check, CheckEnds, CheckFile, Finish, WebInv, RequestTypes
        <3>3. archived \subseteq archived'
            BY <2>1, ArchivedGrows DEF WebInv
        <3>4. QED
            BY <3>1, <3>2, <3>3 DEF WebInv, ChecksArchived
    <2>5. CheckFlagsOnlyEvicted'
        <3>1. CASE UNCHANGED flagged
            BY <2>1, <3>1 DEF WebInv, CheckFlagsOnlyEvicted, vars, jobVars, history
        <3>2. ASSUME NEW r \in Records, CheckFile(v, r)
              PROVE  CheckFlagsOnlyEvicted'
            <4>1. r \in archived
                BY <3>2 DEF CheckFile, WebInv, ChecksArchived
            <4>2. IsFull(r) \/ file[r] = 0
                BY <4>1 DEF WebInv, IInv, ArchivedStatus, CompleteCopy,
                            EvictsArchived
            <4>3. Size[r] # 0 /\ ~(file[r] \notin {0, Size[r]})
                BY <4>2
            <4>4. CASE IsFull(r)
                BY <2>1, <3>1, <3>2, <4>3, <4>4 DEF CheckFile
            <4>5. CASE file[r] = 0
                <5>1. flagged' = [flagged EXCEPT !["missing"] = @ \cup {r}]
                    BY <3>2, <4>3, <4>5 DEF CheckFile, Complain
                <5>2. QED
                    BY <2>1, <4>1, <4>5, <5>1
                    DEF WebInv, RequestTypes, CheckFlagsOnlyEvicted, vars,
                        jobVars, history
            <4>6. QED
                BY <4>2, <4>4, <4>5
        <3>3. QED
            BY <1>3, <3>1, <3>2 DEF Check, CheckEnds, Finish
    <2>6. QED
        BY <2>1, <2>2, <2>3, <2>4, <2>5 DEF WebInv
<1>4. CASE Tick
    <2>1. UNCHANGED vars /\ IInv'
        BY <1>4, RequestBesideJob DEF Tick
    <2>2. QED
        BY <1>4, <2>1
        DEF Tick, WebInv, RequestTypes, Alone, Viewing, ChecksArchived,
            CheckFlagsOnlyEvicted, vars, jobVars, history
<1>5. CASE Work /\ UNCHANGED webVars
    BY <1>5, JobBesideRequests DEF Work, Next
<1>6. CASE Restart
    <2>1. Crash /\ [Next]_vars
        BY <1>6 DEF Restart, Next
    <2>2. IInv'
        BY <2>1, NextIInv DEF WebInv
    <2>3. RequestTypes' /\ Alone' /\ ChecksArchived'
        BY <1>6 DEF Restart, WebInv, RequestTypes, Alone, ChecksArchived, Viewing
    <2>4. CheckFlagsOnlyEvicted'
        BY <1>6, <2>1, GoneStays DEF Restart, WebInv, CheckFlagsOnlyEvicted
    <2>5. QED
        BY <2>2, <2>3, <2>4 DEF WebInv
<1>7. CASE UNCHANGED allVars
    BY <1>7, JobBesideRequests DEF allVars
<1>8. QED
    BY <1>1, <1>2, <1>3, <1>4, <1>5, <1>6, <1>7 DEF WebNext, Serve

LEMMA WebInvCorrect == WebSpec => []WebInv
<1>1. WebInit => WebInv
    <2> SUFFICES ASSUME WebInit PROVE WebInv
        OBVIOUS
    <2>1. IInv
        BY InitIInv DEF WebInit
    <2>2. RequestTypes /\ Alone /\ ChecksArchived /\ CheckFlagsOnlyEvicted
        BY DEF WebInit, RequestTypes, Alone, ChecksArchived,
               CheckFlagsOnlyEvicted, Viewing
    <2>3. QED
        BY <2>1, <2>2 DEF WebInv
<1>2. QED
    BY <1>1, NextWeb, PTL DEF WebSpec

\* The cache, the requests and the stores keep their types.
THEOREM WebTypeCorrect == WebSpec => []WebTypeOK
<1>1. WebInv => WebTypeOK
    BY DEF WebInv, IInv, RequestTypes, WebTypeOK
<1>2. QED
    BY <1>1, WebInvCorrect, PTL

\* A /status request that overlaps no other never reads an entry that is gone.
THEOREM LoneRequestReadsCorrect == WebSpec => []LoneRequestReads
<1>1. WebInv => LoneRequestReads
    BY DEF WebInv, Alone, LoneRequestReads, Viewing
<1>2. QED
    BY <1>1, WebInvCorrect, PTL

\* /check calls no file damaged, and calls a file missing only if it was
\* evicted for good, for any number of requests, failures and restarts.
THEOREM CheckFlagsOnlyEvictedCorrect == WebSpec => []CheckFlagsOnlyEvicted
<1>1. WebInv => CheckFlagsOnlyEvicted
    BY DEF WebInv
<1>2. QED
    BY <1>1, WebInvCorrect, PTL

=============================================================================
