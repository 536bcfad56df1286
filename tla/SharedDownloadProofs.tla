------------------------ MODULE SharedDownloadProofs ------------------------
(***************************************************************************)
(* Theorems about processes that share a database and a folder, for any    *)
(* number of them, any account and any number of restarts.                 *)
(***************************************************************************)
EXTENDS SharedDownload, SequenceTheorems, TLAPS

USE RecordingsAssumption, FailuresAssumption, SharedAssumption
USE DEF At, NoRecord, storeVars, folderVars, workerVars, history, Hands,
        Transfer, GetRecords, GetRecordsByStatus, RecordsOf, Statuses,
        SharedTypeOK, StoreTypeOK, CloudTypeOK, Modes, CloseFile

\* The parts of SharedInv that speak of the database and of the decisions.
StoreInv ==
    /\ WantedHaveRows
    /\ DownloadedWasArchived
    /\ PurgeDecided

\* The parts that speak of the records in hand and their files.
FileInv ==
    /\ HandsAreTracked
    /\ SoleTransfer
    /\ NoFileNoData
    /\ TransfersHaveFiles
    /\ DamageNeedsSharing
    /\ FinalUnlessShared

LEMMA SelectedAreWanted ==
    ASSUME NEW m \in Meetings
    PROVE  Selected(m) \subseteq RecordsOf(m) \cap Wanted
BY DEF Selected, Primary, OfClass, Wanted

\* A sequence grows by one byte at its end.
LEMMA AppendFacts ==
    ASSUME NEW s \in Seq(Nat), NEW b \in Nat
    PROVE  /\ Append(s, b) \in Seq(Nat)
           /\ Len(Append(s, b)) = Len(s) + 1
           /\ \A n \in 1..Len(s) : Append(s, b)[n] = s[n]
           /\ Append(s, b)[Len(s) + 1] = b
           /\ Len(s) \in Nat
OBVIOUS

LEMMA LengthIsNatural ==
    ASSUME NEW s \in Seq(Nat)
    PROVE  Len(s) \in Nat
OBVIOUS

LEMMA PutType ==
    ASSUME NEW s \in Seq(Nat), NEW i \in Nat \ {0}, NEW b \in Nat
    PROVE  Put(s, i, b) \in Seq(Nat)
<1> DEFINE k == IF i <= Len(s) THEN Len(s) ELSE i
<1>1. k \in Nat /\ Len(s) \in Nat /\ \A n \in 1..Len(s) : s[n] \in Nat
    BY LengthIsNatural
<1>2. Put(s, i, b) \in [1..k -> Nat]
    BY <1>1 DEF Put
<1> HIDE DEF k
<1>3. Put(s, i, b) \in UNION {[1..n -> Nat] : n \in Nat}
    BY <1>1, <1>2
<1>4. QED
    BY <1>3, SeqDef

\* A transfer that has the record for itself writes a byte of the beginning of
\* the file again, or the next one.
LEMMA NextByte ==
    ASSUME NEW s \in Seq(Nat), NEW size \in Nat, Len(s) <= size,
           \A n \in 1..Len(s) : s[n] = n,
           NEW p \in Nat, p <= Len(s), p < size
    PROVE  /\ LET t == Put(s, p + 1, p + 1)
              IN  /\ p + 1 <= Len(t) /\ Len(t) <= size
                  /\ \A n \in 1..Len(t) : t[n] = n
           /\ p = Len(s) =>
                LET t == Append(s, p + 1)
                IN  /\ Len(t) = p + 1 /\ Len(t) <= size
                    /\ \A n \in 1..Len(t) : t[n] = n
<1> DEFINE k == IF p + 1 <= Len(s) THEN Len(s) ELSE p + 1
<1>1. k \in Nat /\ k <= size /\ p + 1 <= k /\ Len(s) \in Nat
    BY LengthIsNatural
<1>2. Put(s, p + 1, p + 1) =
        [n \in 1..k |-> IF n = p + 1 THEN p + 1
                        ELSE IF n <= Len(s) THEN s[n] ELSE 0]
    BY DEF Put
<1>3. Len(Put(s, p + 1, p + 1)) = k
    BY <1>1, <1>2
<1>4. \A n \in 1..k : Put(s, p + 1, p + 1)[n] = n
    BY <1>1, <1>2
<1>5. QED
    BY <1>1, <1>3, <1>4, AppendFacts

LEMMA InitShared == Init => SharedInv
<1> SUFFICES ASSUME Init PROVE SharedInv
    OBVIOUS
<1>1. SharedTypeOK
    BY DEF Init, FullCloud
<1>2. StoreInv /\ ReleasedIntactUnlessShared
    BY DEF Init, StoreInv, WantedHaveRows, DownloadedWasArchived, PurgeDecided,
           ReleasedIntactUnlessShared
<1>3. FileInv
    BY DEF Init, FileInv, HandsAreTracked, SoleTransfer, NoFileNoData,
           TransfersHaveFiles, DamageNeedsSharing, FinalUnlessShared, Prefix
<1>4. QED
    BY <1>1, <1>2, <1>3 DEF SharedInv, StoreInv, FileInv

\* A step of one process that leaves the database, the cloud, the folder and
\* the history alone, and takes the process away from its record or on to a
\* step whose condition holds.
LEMMA QuietStep ==
    ASSUME SharedInv, NEW w \in Workers,
           UNCHANGED <<storeVars, cloud, folderVars, history>>,
           UNCHANGED <<mode, pos>> \/ CloseFile(w),
           crashes' \in 0..MaxCrashes,
           NEW step \in Hands \cup {"idle", "reset", "loaded", "purge"},
           pc' = [pc EXCEPT ![w] = step],
           \/ rec' = rec
           \/ rec' = [rec EXCEPT ![w] = NoRecord] /\ step = "idle",
           step \in Hands => pc[w] \in Hands,
           step \in {"loaded", "purge"} => pc[w] = "loaded",
           step # "open", step # "copy",
           step = "mark" /\ rec[w] \notin shared => Intact(rec[w]),
           step = "purge" => Selected(MeetingOf[rec[w]]) \subseteq archived
    PROVE  SharedInv'
<1>0. /\ mode' \in [Workers -> Modes] /\ pos' \in [Workers -> Nat]
      /\ \A v \in Workers \ {w} : mode'[v] = mode[v] /\ pos'[v] = pos[v]
    <2>1. CASE UNCHANGED <<mode, pos>>
        BY <2>1 DEF SharedInv
    <2>2. CASE CloseFile(w)
        BY <2>2 DEF SharedInv
    <2>3. QED
        BY <2>1, <2>2
<1>1. SharedTypeOK'
    BY <1>0 DEF SharedInv
<1>2. StoreInv' /\ ReleasedIntactUnlessShared'
    <2>1. WantedHaveRows' /\ DownloadedWasArchived'
        BY DEF SharedInv, WantedHaveRows, DownloadedWasArchived
    <2>2. PurgeDecided'
        BY DEF SharedInv, PurgeDecided
    <2>3. ReleasedIntactUnlessShared'
        BY DEF SharedInv, ReleasedIntactUnlessShared, Intact, Prefix
    <2>4. QED
        BY <2>1, <2>2, <2>3 DEF StoreInv
<1>3. FileInv'
    <2>1. HandsAreTracked'
        BY DEF SharedInv, HandsAreTracked
    <2>2. /\ NoFileNoData'
          /\ TransfersHaveFiles'
          /\ DamageNeedsSharing'
          /\ FinalUnlessShared'
        BY
        DEF SharedInv, NoFileNoData, TransfersHaveFiles, DamageNeedsSharing,
            FinalUnlessShared,
               Intact, Prefix
    <2>3. SoleTransfer'
        BY <1>0 DEF SharedInv, SoleTransfer, Intact, Prefix
    <2>4. QED
        BY <2>1, <2>2, <2>3 DEF FileInv
<1>4. QED
    BY <1>1, <1>2, <1>3 DEF SharedInv, StoreInv, FileInv

LEMMA NextShared == SharedInv /\ [Next]_vars => SharedInv'
<1> SUFFICES ASSUME SharedInv, [Next]_vars
             PROVE  SharedInv'
    OBVIOUS
<1>1. ASSUME NEW w \in Workers, NEW r \in Records, Pick(w, r) PROVE SharedInv'
    <2>1. SharedTypeOK'
        BY <1>1 DEF SharedInv, HandsAreTracked, Pick, IsQueuedFirst
    <2>2. StoreInv'
        BY <1>1
        DEF SharedInv, WantedHaveRows, DownloadedWasArchived, PurgeDecided,
                    HandsAreTracked, StoreInv, Pick, IsQueuedFirst
    <2>3. HandsAreTracked'
        BY <1>1 DEF SharedInv, HandsAreTracked, Pick, IsQueuedFirst
    <2>4. SoleTransfer'
        BY <1>1
        DEF SharedInv, HandsAreTracked, SoleTransfer, FinalUnlessShared,
                    Intact, Prefix, Pick, IsQueuedFirst
    <2>5. /\ NoFileNoData'
          /\ TransfersHaveFiles'
          /\ DamageNeedsSharing'
          /\ FinalUnlessShared'
        BY <1>1
        DEF SharedInv, HandsAreTracked, SoleTransfer, NoFileNoData,
            TransfersHaveFiles,
                    DamageNeedsSharing, FinalUnlessShared, Intact, Prefix,
                    Pick, IsQueuedFirst
    <2>6. ReleasedIntactUnlessShared'
        BY <1>1
        DEF SharedInv, ReleasedIntactUnlessShared, Intact, Prefix, Pick,
            IsQueuedFirst
    <2>7. QED
        BY <2>1, <2>2, <2>3, <2>4, <2>5, <2>6 DEF SharedInv, StoreInv
<1>2. ASSUME NEW w \in Workers, FindNoQueued(w) PROVE SharedInv'
    BY <1>2, QuietStep DEF SharedInv, FindNoQueued, Goto
<1>3. ASSUME NEW w \in Workers, TokenRefused(w) PROVE SharedInv'
    BY <1>3, QuietStep DEF SharedInv, TokenRefused, Return
<1>4. ASSUME NEW w \in Workers, AcceptFile(w) PROVE SharedInv'
    BY <1>4, QuietStep
    DEF SharedInv, AcceptFile, Goto, Local, DamageNeedsSharing,
        HandsAreTracked, Intact
<1>5. ASSUME NEW w \in Workers, OpenFails(w) PROVE SharedInv'
    BY <1>5, QuietStep DEF SharedInv, OpenFails, GetReturns
<1>6. ASSUME NEW w \in Workers, CopyDone(w) PROVE SharedInv'
    <2>1. rec[w] \in Records
        BY <1>6 DEF CopyDone, SharedInv, HandsAreTracked
    <2>2. rec[w] \notin shared => Intact(rec[w])
        <3>1. Len(data[rec[w]]) \in Nat
            BY <2>1, LengthIsNatural DEF SharedInv
        <3>2. QED
            <4> SUFFICES ASSUME rec[w] \notin shared PROVE Intact(rec[w])
                OBVIOUS
            <4>1. pc[w] = "copy" /\ pos[w] = Size[rec[w]]
                BY <1>6 DEF CopyDone
            <4>2. pos[w] <= Len(data[rec[w]])
                BY <4>1 DEF SharedInv, SoleTransfer
            <4>3. Prefix(rec[w])
                BY <2>1 DEF SharedInv, DamageNeedsSharing
            <4>4. Len(data[rec[w]]) = Size[rec[w]]
                <5>1. Len(data[rec[w]]) <= Size[rec[w]]
                    BY <4>3 DEF Prefix
                <5>2. Size[rec[w]] \in Nat
                    BY <2>1
                <5>3. QED
                    BY <3>1, <4>1, <4>2, <5>1, <5>2
            <4>5. QED
                BY <4>3, <4>4 DEF Intact
    <2>3. CASE mode[w] # "resume"
        BY <1>6, <2>2, <2>3, QuietStep DEF SharedInv, CopyDone, GetReturns
    <2>4. CASE mode[w] = "resume"
        BY <1>6, <2>4, QuietStep DEF SharedInv, CopyDone, GetReturns
    <2>5. QED
        BY <2>3, <2>4
<1>7. ASSUME NEW w \in Workers, CopyBreaks(w) PROVE SharedInv'
    BY <1>7, QuietStep DEF SharedInv, CopyBreaks, GetReturns
<1>8. ASSUME NEW w \in Workers, PurgeFails(w) PROVE SharedInv'
    BY <1>8, QuietStep DEF SharedInv, PurgeFails, Return
<1>9. ASSUME NEW w \in Workers, Restart(w) PROVE SharedInv'
    <2>1. crashes' \in 0..MaxCrashes
        BY <1>9 DEF SharedInv, Restart
    <2>2. QED
        BY <1>9, <2>1, QuietStep DEF SharedInv, Restart, Return
<1>10. ASSUME NEW w \in Workers, RequeueFailed(w) PROVE SharedInv'
    <2>1. SharedTypeOK'
        BY <1>10
        DEF SharedInv, HandsAreTracked, RequeueFailed, ResetFailedRecords,
            Return
    <2>2. StoreInv'
        BY <1>10
        DEF SharedInv, WantedHaveRows, DownloadedWasArchived, PurgeDecided,
                    HandsAreTracked, StoreInv, RequeueFailed, ResetFailedRecords, Return
    <2>3. HandsAreTracked'
        BY <1>10
        DEF SharedInv, HandsAreTracked, RequeueFailed, ResetFailedRecords,
            Return
    <2>4. SoleTransfer'
        BY <1>10
        DEF SharedInv, HandsAreTracked, SoleTransfer, FinalUnlessShared,
                    Intact, Prefix, RequeueFailed, ResetFailedRecords, Return
    <2>5. /\ NoFileNoData'
          /\ TransfersHaveFiles'
          /\ DamageNeedsSharing'
          /\ FinalUnlessShared'
        BY <1>10
        DEF SharedInv, HandsAreTracked, SoleTransfer, NoFileNoData,
            TransfersHaveFiles,
                    DamageNeedsSharing, FinalUnlessShared, Intact, Prefix,
                    RequeueFailed, ResetFailedRecords, Return
    <2>6. ReleasedIntactUnlessShared'
        BY <1>10
        DEF SharedInv, ReleasedIntactUnlessShared, Intact, Prefix, RequeueFailed,
            ResetFailedRecords, Return
    <2>7. QED
        BY <2>1, <2>2, <2>3, <2>4, <2>5, <2>6 DEF SharedInv, StoreInv
<1>11. ASSUME NEW w \in Workers, Claim(w) PROVE SharedInv'
    <2>1. SharedTypeOK'
        BY <1>11 DEF SharedInv, HandsAreTracked, Claim, UpdateRecord, Goto
    <2>2. StoreInv'
        BY <1>11
        DEF SharedInv, WantedHaveRows, DownloadedWasArchived, PurgeDecided,
                    HandsAreTracked, StoreInv, Claim, UpdateRecord, Goto
    <2>3. HandsAreTracked'
        BY <1>11 DEF SharedInv, HandsAreTracked, Claim, UpdateRecord, Goto
    <2>4. SoleTransfer'
        BY <1>11
        DEF SharedInv, HandsAreTracked, SoleTransfer, FinalUnlessShared,
                    Intact, Prefix, Claim, UpdateRecord, Goto
    <2>5. /\ NoFileNoData'
          /\ TransfersHaveFiles'
          /\ DamageNeedsSharing'
          /\ FinalUnlessShared'
        BY <1>11
        DEF SharedInv, HandsAreTracked, SoleTransfer, NoFileNoData,
            TransfersHaveFiles,
                    DamageNeedsSharing, FinalUnlessShared, Intact, Prefix,
                    Claim, UpdateRecord, Goto
    <2>6. ReleasedIntactUnlessShared'
        BY <1>11
        DEF SharedInv, ReleasedIntactUnlessShared, Intact, Prefix, Claim,
            UpdateRecord, Goto
    <2>7. QED
        BY <2>1, <2>2, <2>3, <2>4, <2>5, <2>6 DEF SharedInv, StoreInv
<1>12. ASSUME NEW w \in Workers, MarkFailed(w) PROVE SharedInv'
    <2>1. SharedTypeOK'
        BY <1>12
        DEF SharedInv, HandsAreTracked, MarkFailed, UpdateRecord, Return
    <2>2. StoreInv'
        BY <1>12
        DEF SharedInv, WantedHaveRows, DownloadedWasArchived, PurgeDecided,
                    HandsAreTracked, StoreInv, MarkFailed, UpdateRecord, Return
    <2>3. HandsAreTracked'
        BY <1>12
        DEF SharedInv, HandsAreTracked, MarkFailed, UpdateRecord, Return
    <2>4. SoleTransfer'
        BY <1>12
        DEF SharedInv, HandsAreTracked, SoleTransfer, FinalUnlessShared,
                    Intact, Prefix, MarkFailed, UpdateRecord, Return
    <2>5. /\ NoFileNoData'
          /\ TransfersHaveFiles'
          /\ DamageNeedsSharing'
          /\ FinalUnlessShared'
        BY <1>12
        DEF SharedInv, HandsAreTracked, SoleTransfer, NoFileNoData,
            TransfersHaveFiles,
                    DamageNeedsSharing, FinalUnlessShared, Intact, Prefix,
                    MarkFailed, UpdateRecord, Return
    <2>6. ReleasedIntactUnlessShared'
        BY <1>12
        DEF SharedInv, ReleasedIntactUnlessShared, Intact, Prefix, MarkFailed,
            UpdateRecord, Return
    <2>7. QED
        BY <2>1, <2>2, <2>3, <2>4, <2>5, <2>6 DEF SharedInv, StoreInv
<1>13. ASSUME NEW w \in Workers, MarkDownloaded(w) PROVE SharedInv'
    <2>1. SharedTypeOK'
        BY <1>13
        DEF SharedInv, HandsAreTracked, MarkDownloaded, UpdateRecord, Goto
    <2>2. StoreInv'
        BY <1>13
        DEF SharedInv, WantedHaveRows, DownloadedWasArchived, PurgeDecided,
                    HandsAreTracked, StoreInv, MarkDownloaded, UpdateRecord, Goto
    <2>3. HandsAreTracked'
        BY <1>13
        DEF SharedInv, HandsAreTracked, MarkDownloaded, UpdateRecord, Goto
    <2>4. SoleTransfer'
        BY <1>13
        DEF SharedInv, HandsAreTracked, SoleTransfer, FinalUnlessShared,
                    Intact, Prefix, MarkDownloaded, UpdateRecord, Goto
    <2>5. /\ NoFileNoData'
          /\ TransfersHaveFiles'
          /\ DamageNeedsSharing'
          /\ FinalUnlessShared'
        BY <1>13
        DEF SharedInv, HandsAreTracked, SoleTransfer, NoFileNoData,
            TransfersHaveFiles,
                    DamageNeedsSharing, FinalUnlessShared, Intact, Prefix,
                    MarkDownloaded, UpdateRecord, Goto
    <2>6. ReleasedIntactUnlessShared'
        BY <1>13
        DEF SharedInv, ReleasedIntactUnlessShared, Intact, Prefix, MarkDownloaded,
            UpdateRecord, Goto
    <2>7. QED
        BY <2>1, <2>2, <2>3, <2>4, <2>5, <2>6 DEF SharedInv, StoreInv
<1>14. ASSUME NEW w \in Workers, PlanTransfer(w) PROVE SharedInv'
    <2> DEFINE r == rec[w]
    <2>1. r \in Records /\ data[r] \in Seq(Nat) /\ Len(data[r]) \in Nat
        <3>1. r \in Records
            BY <1>14 DEF PlanTransfer, SharedInv, HandsAreTracked
        <3>2. data \in [Records -> Seq(Nat)]
            BY DEF SharedInv
        <3>3. QED
            BY <3>1, <3>2, LengthIsNatural
    <2>2. /\ UNCHANGED <<storeVars, cloud, folderVars, rec, crashes, history>>
          /\ pc[w] = "look" /\ pc' = [pc EXCEPT ![w] = "open"]
          /\ \E k \in Modes, n \in 0..Len(data[r]) :
               /\ mode' = [mode EXCEPT ![w] = k]
               /\ pos' = [pos EXCEPT ![w] = n]
               /\ n = IF k = "resume" THEN Len(data[r]) ELSE 0
        <3>1. CASE PlanFresh(w) \/ PlanAnew(w)
            BY <1>14, <2>1, <3>1
            DEF PlanTransfer, PlanFresh, PlanAnew, Modes
        <3>2. CASE PlanResume(w)
            <4>1. /\ mode' = [mode EXCEPT ![w] = "resume"]
                  /\ pos' = [pos EXCEPT ![w] = Len(data[r])]
                BY <3>2 DEF PlanResume, Local
            <4>2. "resume" \in Modes /\ Len(data[r]) \in 0..Len(data[r])
                BY <2>1
            <4>3. QED
                BY <1>14, <4>1, <4>2 DEF PlanTransfer
        <3>3. QED
            BY <1>14, <3>1, <3>2 DEF PlanTransfer
    <2> HIDE DEF r
    <2>3. SharedTypeOK'
        <3>1. pos' \in [Workers -> Nat] /\ mode' \in [Workers -> Modes]
            BY <2>1, <2>2 DEF SharedInv
        <3>2. QED
            BY <2>2, <3>1 DEF SharedInv
    <2>4. StoreInv'
        BY <2>2
        DEF SharedInv, WantedHaveRows, DownloadedWasArchived, PurgeDecided,
            StoreInv
    <2>5. HandsAreTracked'
        BY <2>2 DEF SharedInv, HandsAreTracked
    <2>6. SoleTransfer'
        BY <2>1, <2>2 DEF SharedInv, SoleTransfer, Intact, Prefix, r
    <2>7. /\ NoFileNoData' /\ TransfersHaveFiles'
          /\ DamageNeedsSharing' /\ FinalUnlessShared'
        BY <2>2
        DEF SharedInv, NoFileNoData, TransfersHaveFiles, DamageNeedsSharing,
            FinalUnlessShared, Intact, Prefix
    <2>8. ReleasedIntactUnlessShared'
        BY <2>2 DEF SharedInv, ReleasedIntactUnlessShared, Intact, Prefix
    <2>9. QED
        BY <2>3, <2>4, <2>5, <2>6, <2>7, <2>8 DEF SharedInv, StoreInv
<1>15. ASSUME NEW w \in Workers, OpenFile(w) PROVE SharedInv'
    <2>1. /\ UNCHANGED <<storeVars, cloud, rec, mode, pos, crashes, history>>
          /\ pc[w] = "open" /\ pc' = [pc EXCEPT ![w] = "copy"]
          /\ made' \in SUBSET Records /\ made \subseteq made'
          /\ rec[w] \in made' /\ rec[w] \in Records
        BY <1>15 DEF OpenFile, Goto, SharedInv, HandsAreTracked
    <2>2. /\ data' \in [Records -> Seq(Nat)]
          /\ \A q \in Records \ {rec[w]} : data'[q] = data[q]
          /\ IF mode[w] = "anew" THEN data'[rec[w]] = <<>>
                                 ELSE data'[rec[w]] = data[rec[w]]
        BY <1>15, <2>1 DEF OpenFile, SharedInv
    <2>3. rec[w] \notin shared => rec[w] \notin archived
        BY <2>1 DEF SharedInv, SoleTransfer
    <2>4. SharedTypeOK'
        BY <2>1, <2>2 DEF SharedInv
    <2>5. StoreInv'
        BY <2>1
        DEF SharedInv, WantedHaveRows, DownloadedWasArchived, PurgeDecided,
            StoreInv
    <2>6. HandsAreTracked' /\ TransfersHaveFiles'
        BY <2>1 DEF SharedInv, HandsAreTracked, TransfersHaveFiles
    <2>7. SoleTransfer'
        <3> SUFFICES ASSUME NEW v \in Workers, rec[v] \notin shared
                     PROVE  /\ pc'[v] \in Transfer =>
                                 pos[v] <= Len(data'[rec[v]])
                            /\ pc'[v] \in Transfer /\ mode[v] = "resume" =>
                                 pos[v] = Len(data'[rec[v]])
                            /\ pc'[v] = "open" /\ mode[v] # "resume" =>
                                 pos[v] = 0
                            /\ pc'[v] = "mark" => Intact(rec[v])'
                            /\ pc'[v] \in Hands => rec[v] \notin archived
            BY <2>1 DEF SoleTransfer, Intact, Prefix
        <3>1. CASE v = w
            <4>1. CASE mode[w] = "anew"
                <5>1. pos[w] = 0
                    BY <2>1, <3>1, <4>1 DEF SharedInv, SoleTransfer
                <5>2. Len(data'[rec[w]]) = 0
                    BY <2>2, <4>1
                <5>3. pc'[w] = "copy"
                    BY <2>1 DEF SharedInv
                <5>4. QED
                    BY <2>3, <3>1, <4>1, <5>1, <5>2, <5>3
            <4>2. CASE mode[w] # "anew"
                BY <2>1, <2>2, <2>3, <3>1, <4>2 DEF SharedInv, SoleTransfer
            <4>3. QED
                BY <4>1, <4>2
        <3>2. CASE v # w
            <4>1. pc[v] \in Hands => rec[v] \in Records /\ rec[v] # rec[w]
                BY <2>1, <3>2 DEF SharedInv, HandsAreTracked
            <4>2. pc[v] \in Hands => data'[rec[v]] = data[rec[v]]
                BY <2>2, <4>1
            <4>3. QED
                BY <2>1, <3>2, <4>2 DEF SharedInv, SoleTransfer, Intact, Prefix
        <3>3. QED
            BY <3>1, <3>2
    <2>8. NoFileNoData'
        BY <2>1, <2>2 DEF SharedInv, NoFileNoData
    <2>9. DamageNeedsSharing'
        <3> SUFFICES ASSUME NEW q \in Records, q \notin shared
                     PROVE  Prefix(q)'
            BY <2>1 DEF DamageNeedsSharing
        <3>1. Prefix(q)
            BY DEF SharedInv, DamageNeedsSharing
        <3>2. CASE data'[q] = data[q]
            BY <3>1, <3>2 DEF Prefix
        <3>3. CASE data'[q] = <<>>
            BY <3>3 DEF Prefix
        <3>4. QED
            BY <2>2, <3>2, <3>3
    <2>10. FinalUnlessShared'
        BY <2>1, <2>2, <2>3 DEF SharedInv, FinalUnlessShared, Intact, Prefix
    <2>11. ReleasedIntactUnlessShared'
        <3> SUFFICES ASSUME NEW m \in purged, NEW q \in Selected(m)
                     PROVE  q \in archived /\ (q \in shared \/ Intact(q)')
            BY <2>1 DEF ReleasedIntactUnlessShared
        <3>1. q \in archived /\ (q \in shared \/ Intact(q)) /\ q \in Records
            BY DEF SharedInv, ReleasedIntactUnlessShared
        <3>2. q \notin shared => q # rec[w]
            BY <2>3, <3>1
        <3>3. QED
            BY <2>2, <3>1, <3>2 DEF Intact, Prefix
    <2>12. QED
        BY <2>4, <2>5, <2>6, <2>7, <2>8, <2>9, <2>10, <2>11
        DEF SharedInv, StoreInv
<1>16. ASSUME NEW w \in Workers, WriteByte(w) PROVE SharedInv'
    <2> DEFINE r == rec[w]
               t == IF mode[w] = "resume"
                    THEN Append(data[r], pos[w] + 1)
                    ELSE Put(data[r], pos[w] + 1, pos[w] + 1)
    <2>1. /\ r \in Records /\ data[r] \in Seq(Nat) /\ Len(data[r]) \in Nat
          /\ pos[w] \in Nat /\ Size[r] \in Nat /\ pos[w] < Size[r]
          /\ pc[w] = "copy"
        <3>1. r \in Records /\ pc[w] = "copy" /\ pos[w] < Size[r]
            BY <1>16 DEF WriteByte, SharedInv, HandsAreTracked
        <3>2. data \in [Records -> Seq(Nat)] /\ pos \in [Workers -> Nat]
            BY DEF SharedInv
        <3>3. QED
            BY <3>1, <3>2, LengthIsNatural
    <2>2. t \in Seq(Nat)
        <3>1. pos[w] + 1 \in Nat \ {0}
            BY <2>1
        <3>2. QED
            BY <2>1, <3>1, PutType, AppendFacts
    <2>3. /\ UNCHANGED <<storeVars, cloud, made, pc, rec, mode, crashes, history>>
          /\ data' = [data EXCEPT ![r] = t]
          /\ pos' = [pos EXCEPT ![w] = pos[w] + 1]
        BY <1>16 DEF WriteByte
    <2>4. ASSUME r \notin shared
          PROVE  /\ pos[w] + 1 <= Len(t)
                 /\ mode[w] = "resume" => Len(t) = pos[w] + 1
                 /\ Len(t) <= Size[r]
                 /\ \A n \in 1..Len(t) : t[n] = n
        <3>1. /\ pos[w] <= Len(data[r]) /\ Len(data[r]) <= Size[r]
              /\ mode[w] = "resume" => pos[w] = Len(data[r])
              /\ \A n \in 1..Len(data[r]) : data[r][n] = n
            BY <2>1, <2>4
            DEF SharedInv, SoleTransfer, DamageNeedsSharing, Prefix
        <3>2. CASE mode[w] = "resume"
            BY <2>1, <3>1, <3>2, NextByte
        <3>3. CASE mode[w] # "resume"
            BY <2>1, <3>1, <3>3, NextByte
        <3>4. QED
            BY <3>2, <3>3
    <2>5. r \notin shared => r \notin archived
        BY <2>1 DEF SharedInv, SoleTransfer
    <2>6. r \in made
        BY <2>1 DEF SharedInv, TransfersHaveFiles
    <2> HIDE DEF r, t
    <2>7. SharedTypeOK'
        <3>1. pos' \in [Workers -> Nat]
            BY <2>1, <2>3 DEF SharedInv
        <3>2. data' \in [Records -> Seq(Nat)]
            BY <2>1, <2>2, <2>3 DEF SharedInv
        <3>3. QED
            BY <2>3, <3>1, <3>2 DEF SharedInv
    <2>8. StoreInv'
        BY <2>3
        DEF SharedInv, WantedHaveRows, DownloadedWasArchived, PurgeDecided,
                    StoreInv
    <2>9. HandsAreTracked' /\ TransfersHaveFiles'
        BY <2>3 DEF SharedInv, HandsAreTracked, TransfersHaveFiles
    <2>10. data'[r] = t /\ \A q \in Records \ {r} : data'[q] = data[q]
        BY <2>1, <2>3 DEF SharedInv
    <2>11. SoleTransfer'
        <3> SUFFICES ASSUME NEW v \in Workers, rec[v] \notin shared
                     PROVE  /\ pc[v] \in Transfer =>
                                 pos'[v] <= Len(data'[rec[v]])
                            /\ pc[v] \in Transfer /\ mode[v] = "resume" =>
                                 pos'[v] = Len(data'[rec[v]])
                            /\ pc[v] = "open" /\ mode[v] # "resume" =>
                                 pos'[v] = 0
                            /\ pc[v] = "mark" => Intact(rec[v])'
                            /\ pc[v] \in Hands => rec[v] \notin archived
            BY <2>3 DEF SoleTransfer, Intact, Prefix
        <3>1. CASE v = w
            BY <2>1, <2>3, <2>4, <2>5, <2>10, <3>1 DEF SharedInv, r
        <3>2. CASE v # w
            <4>1. pc[v] \in Hands => rec[v] \in Records /\ rec[v] # r
                BY <2>1, <3>2 DEF SharedInv, HandsAreTracked, r
            <4>2. QED
                BY <2>1, <2>3, <2>10, <3>2, <4>1
                DEF SharedInv, SoleTransfer, Intact, Prefix
        <3>3. QED
            BY <3>1, <3>2
    <2>12. NoFileNoData'
        BY <2>3, <2>6, <2>10 DEF SharedInv, NoFileNoData
    <2>13. DamageNeedsSharing'
        BY <2>3, <2>4, <2>10 DEF SharedInv, DamageNeedsSharing, Prefix
    <2>14. FinalUnlessShared'
        BY <2>3, <2>5, <2>10 DEF SharedInv, FinalUnlessShared, Intact, Prefix
    <2>15. ReleasedIntactUnlessShared'
        <3> SUFFICES ASSUME NEW m \in purged, NEW q \in Selected(m)
                     PROVE  q \in archived /\ (q \in shared \/ Intact(q)')
            BY <2>3 DEF ReleasedIntactUnlessShared
        <3>1. q \in archived /\ (q \in shared \/ Intact(q)) /\ q \in Records
            BY DEF SharedInv, ReleasedIntactUnlessShared
        <3>2. q \notin shared => q # r
            BY <2>5, <3>1
        <3>3. QED
            BY <2>10, <3>1, <3>2 DEF Intact, Prefix
    <2>16. QED
        BY <2>7, <2>8, <2>9, <2>11, <2>12, <2>13, <2>14, <2>15
        DEF SharedInv, StoreInv
<1>17. ASSUME NEW w \in Workers, CheckLoaded(w) PROVE SharedInv'
    <2>1. rec[w] \in Records /\ MeetingOf[rec[w]] \in Meetings
        BY <1>17 DEF CheckLoaded, SharedInv, HandsAreTracked
    <2>2. CASE MeetingRecordsLoaded(MeetingOf[rec[w]])
                 /\ (DeleteDownloaded \/ TrashDownloaded)
        <3>1. Selected(MeetingOf[rec[w]]) \subseteq archived
            BY <2>1, <2>2, SelectedAreWanted
            DEF MeetingRecordsLoaded, SharedInv, WantedHaveRows,
                DownloadedWasArchived
        <3>2. QED
            BY <1>17, <2>2, <3>1, QuietStep DEF SharedInv, CheckLoaded, Goto
    <2>3. CASE ~(MeetingRecordsLoaded(MeetingOf[rec[w]])
                   /\ (DeleteDownloaded \/ TrashDownloaded))
        BY <1>17, <2>3, QuietStep DEF SharedInv, CheckLoaded, Return
    <2>4. QED
        BY <2>2, <2>3
<1>18. ASSUME NEW w \in Workers, Purge(w) PROVE SharedInv'
    <2> DEFINE m == MeetingOf[rec[w]]
    <2>1. rec[w] \in Records /\ m \in Meetings
        BY <1>18 DEF Purge, SharedInv, HandsAreTracked
    <2>2. /\ UNCHANGED <<storeVars, folderVars, crashes, archived, shared>>
          /\ mode' = [mode EXCEPT ![w] = "fresh"]
          /\ pos' = [pos EXCEPT ![w] = 0]
          /\ pc' = [pc EXCEPT ![w] = "idle"]
          /\ rec' = [rec EXCEPT ![w] = NoRecord]
          /\ purged' = purged \cup {m}
        BY <1>18 DEF Purge, Return
    <2>3. CloudTypeOK'
        BY <1>18, <2>1
        DEF Purge, DeleteMeetingRecordings, DeleteAction, SharedInv
    <2>4. Selected(m) \subseteq archived
        BY <1>18 DEF Purge, SharedInv, PurgeDecided
    <2>5. \A q \in Selected(m) : q \in shared \/ Intact(q)
        BY <2>4 DEF SharedInv, FinalUnlessShared
    <2> HIDE DEF m
    <2>6. SharedTypeOK'
        BY <2>1, <2>2, <2>3 DEF SharedInv
    <2>7. StoreInv'
        BY <2>2
        DEF SharedInv, WantedHaveRows, DownloadedWasArchived, PurgeDecided,
                    StoreInv
    <2>8. FileInv'
        BY <2>2 DEF SharedInv, FileInv, HandsAreTracked, TransfersHaveFiles,
                    SoleTransfer, NoFileNoData, DamageNeedsSharing,
                    FinalUnlessShared, Intact, Prefix
    <2>9. ReleasedIntactUnlessShared'
        BY <2>2, <2>4, <2>5 DEF SharedInv, ReleasedIntactUnlessShared, Intact, Prefix
    <2>10. QED
        BY <2>6, <2>7, <2>8, <2>9 DEF SharedInv, StoreInv, FileInv
<1>19. CASE UNCHANGED vars
    BY <1>19
    DEF vars, SharedInv, WantedHaveRows, HandsAreTracked, SoleTransfer,
              DownloadedWasArchived, NoFileNoData, TransfersHaveFiles,
              PurgeDecided,
              DamageNeedsSharing, FinalUnlessShared, ReleasedIntactUnlessShared,
              Intact, Prefix
<1>20. QED
    BY <1>1, <1>2, <1>3, <1>4, <1>5, <1>6, <1>7, <1>8, <1>9, <1>10, <1>11,
       <1>12, <1>13, <1>14, <1>15, <1>16, <1>17, <1>18, <1>19
    DEF Next, DownloadOnce

-----------------------------------------------------------------------------
\* What the processes know of each other's records and files, in every
\* reachable state: the inductive invariant itself.
THEOREM SharedInvCorrect == Spec => []SharedInv
<1>1. QED
    BY InitShared, NextShared, PTL DEF Spec

\* The database, the files byte by byte and what each process works on keep
\* their types, whatever the number of processes.
THEOREM SharedTypeCorrect == Spec => []SharedTypeOK
<1>1. SharedInv => SharedTypeOK
    BY DEF SharedInv
<1>2. QED
    BY <1>1, SharedInvCorrect, PTL

\* Broken transfers, restarts and resumed downloads never damage a file that
\* one process at a time works on, whatever the number of processes.
THEOREM DamageNeedsSharingCorrect == Spec => []DamageNeedsSharing
<1>1. SharedInv => DamageNeedsSharing
    BY DEF SharedInv
<1>2. QED
    BY <1>1, SharedInvCorrect, PTL

\* The status "downloaded" of a record is final and its file stays intact
\* unless two processes had the record at a time.
THEOREM FinalUnlessSharedCorrect == Spec => []FinalUnlessShared
<1>1. SharedInv => FinalUnlessShared
    BY DEF SharedInv
<1>2. QED
    BY <1>1, SharedInvCorrect, PTL

\* No meeting leaves Zoom before each of its selected records was marked
\* downloaded by one of the processes, and those that no two processes had at
\* a time are on the drive byte for byte.
THEOREM ReleasedIntactUnlessSharedCorrect == Spec => []ReleasedIntactUnlessShared
<1>1. SharedInv => ReleasedIntactUnlessShared
    BY DEF SharedInv
<1>2. QED
    BY <1>1, SharedInvCorrect, PTL

=============================================================================
