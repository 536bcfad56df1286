--------------------------- MODULE CleanupProofs ---------------------------
(***************************************************************************)
(* Theorems about the trash command, for every day, every number of        *)
(* instances and every number of retries.                                  *)
(***************************************************************************)
EXTENDS Cleanup, FiniteSetTheorems, TLAPS

USE CleanupAssumption, RecordingsAssumption, ZoomCloudAssumption,
    FailuresAssumption
USE DEF fleetVars, jobVars, CloudTypeOK, Fleet, Files

LEMMA SelectedAreOfMeeting ==
    ASSUME NEW m \in Meetings
    PROVE  Selected(m) \subseteq {r \in Records : MeetingOf[r] = m}
BY DEF Selected, Primary, OfClass, RecordsOf

\* A job that goes on has failed no more often than it may.
RetriesLeft == cpc # "done" => retry <= RetryLimit

TypeInv == TypeOK /\ RetriesLeft

LEMMA InstanceStepTypes ==
    ASSUME TypeInv, InstanceStep
    PROVE  TypeInv'
<1> USE DEF TypeInv, TypeOK, RetriesLeft
<1>1. ASSUME NEW m \in Meetings, DropShort(m)
      PROVE  TypeInv'
    BY <1>1 DEF DropShort, DeleteMeetingRecordings, DeleteAction
<1>2. ASSUME NEW i \in Fleet, NEW m \in Meetings, Store(i, m)
      PROVE  TypeInv'
    BY <1>2 DEF Store
<1>3. ASSUME NEW i \in Fleet, NEW r \in Records,
             Obtain(i, r) \/ MarkDeleted(i, r)
      PROVE  TypeInv'
    <2>1. /\ \E s \in {"downloaded", "deleted"} : SetStatus(i, r, s)
          /\ UNCHANGED <<cloud, file, jobVars, swept>>
        BY <1>3 DEF Obtain, MarkDeleted
    <2>2. QED
        BY <2>1 DEF SetStatus
<1>4. ASSUME NEW i \in Fleet, NEW r \in Records,
             Fetch(i, r) \/ RemoveFile(i, r) \/ Damage(i, r)
      PROVE  TypeInv'
    <2>1. /\ \E f \in Files : SetFile(i, r, f)
          /\ UNCHANGED <<cloud, status, jobVars, swept>>
        BY <1>4 DEF Fetch, RemoveFile, Damage
    <2>2. QED
        BY <2>1 DEF SetFile
<1>5. ASSUME NEW m \in Meetings,
             OthersDelete(m) \/ \E i \in Fleet : Purge(i, m)
      PROVE  TypeInv'
    BY <1>5 DEF OthersDelete, Purge, DeleteMeetingRecordings, DeleteAction
<1>6. QED
    BY <1>1, <1>2, <1>3, <1>4, <1>5 DEF InstanceStep

LEMMA CleanupStepTypes ==
    ASSUME TypeInv, CleanupStep \/ Interrupt
    PROVE  TypeInv'
<1> USE DEF TypeInv, TypeOK, RetriesLeft
<1>1. CASE ListDay
    BY <1>1 DEF ListDay, Listed, Ends
<1>2. CASE Ask \/ FeedFails \/ WaitOver
    BY <1>2 DEF Ask, FeedFails, WaitOver
<1>3. CASE AskFails
    <2>1. /\ retry' = retry + 1
          /\ UNCHANGED <<cloud, fleetVars, swept>>
        BY <1>3 DEF AskFails
    <2>2. retry' \in 0..(RetryLimit + 1)
        BY <1>3, <2>1 DEF AskFails
    <2>3. /\ cpc' \in {"wait", "done"}
          /\ cpc' # "done" => retry' <= RetryLimit
          /\ day' = {} /\ asked' = 0 /\ unchecked' = {}
          /\ undeleted' \subseteq Meetings
        <3>1. CASE retry' > RetryLimit
            BY <1>3, <3>1 DEF AskFails, Ends
        <3>2. CASE ~(retry' > RetryLimit)
            BY <1>3, <2>2, <3>2 DEF AskFails
        <3>3. QED
            BY <3>1, <3>2
    <2>4. QED
        BY <2>1, <2>2, <2>3
<1>4. ASSUME NEW m \in Meetings, CheckMeeting(m) \/ DeleteNext(m)
      PROVE  TypeInv'
    BY <1>4 DEF CheckMeeting, DeleteNext, DeleteMeetingRecordings, DeleteAction
<1>5. CASE AnswerPending \/ AnswerOk
    BY <1>5 DEF AnswerPending, AnswerOk, Ends
<1>6. CASE DeletedAll \/ Interrupt
    BY <1>6 DEF DeletedAll, Interrupt, Ends
<1>7. QED
    BY <1>1, <1>2, <1>3, <1>4, <1>5, <1>6 DEF CleanupStep

LEMMA TypeInvCorrect == Spec => []TypeInv
<1>1. Init => TypeInv
    BY DEF Init, TypeInv, TypeOK, RetriesLeft, FullCloud
<1>2. TypeInv /\ [Next]_vars => TypeInv'
    <2>1. TypeInv /\ UNCHANGED vars => TypeInv'
        BY DEF TypeInv, TypeOK, RetriesLeft, vars
    <2>2. QED
        BY <2>1, InstanceStepTypes, CleanupStepTypes DEF Next
<1>3. QED
    BY <1>1, <1>2, PTL DEF Spec

\* The variables keep their types; in particular the job gives up after
\* RetryLimit failed requests, whatever the instances answer.
THEOREM TypeCorrect == Spec => []TypeOK
BY TypeInvCorrect, PTL DEF TypeInv

-----------------------------------------------------------------------------
\* Instance i has stored rows of m, and has downloaded each record it stored.
Holds(i, m) == RecordsIn(i, m) # {} /\ RecordsIn(i, m) \subseteq Archived(i)

\* What the answers received so far have established about the day.
AnswersHold ==
    /\ cpc \in {"list", "wait"} => asked = 0
    /\ cpc = "ask" => \A i \in 1..asked, m \in day : Holds(i, m)
    /\ cpc = "check" =>
         /\ asked # 0
         /\ \A i \in 1..(asked - 1), m \in day : Holds(i, m)
         /\ \A m \in day \ unchecked : Holds(asked, m)
    /\ cpc = "delete" => \A i \in Fleet, m \in day : Holds(i, m)

SweepInv == TypeOK /\ AnswersHold

\* A step that adds rows to no meeting that has some, drops none, and unmakes
\* no downloaded record, makes no answer false.
LEMMA AnswersStay ==
    ASSUME TypeOK,
           \A i \in Fleet, r \in Records :
              \/ status'[i][r] = status[i][r]
              \/ RecordsIn(i, MeetingOf[r]) = {}
              \/ /\ status[i][r] # "absent"
                 /\ status'[i][r] \in {"downloaded", "deleted"}
    PROVE  \A i \in Fleet, m \in Meetings : Holds(i, m) => Holds(i, m)'
<1> SUFFICES ASSUME NEW i \in Fleet, NEW m \in Meetings, Holds(i, m)
             PROVE  Holds(i, m)'
    OBVIOUS
<1>1. \A r \in Records : MeetingOf[r] = m =>
        \/ status'[i][r] = status[i][r]
        \/ /\ status[i][r] # "absent"
           /\ status'[i][r] \in {"downloaded", "deleted"}
    BY DEF Holds
<1>2. RecordsIn(i, m)' = RecordsIn(i, m)
    BY <1>1 DEF RecordsIn, RecordsOf
<1>3. RecordsIn(i, m) \subseteq Archived(i)'
    BY <1>1 DEF Holds, Archived, RecordsIn, RecordsOf
<1>4. QED
    BY <1>2, <1>3 DEF Holds

\* An instance never goes back on a record it has downloaded, and stores rows
\* only of meetings it has none of.
LEMMA InstanceStepKeeps ==
    ASSUME TypeOK, InstanceStep
    PROVE  /\ \A i \in Fleet, m \in Meetings : Holds(i, m) => Holds(i, m)'
           /\ UNCHANGED <<jobVars, swept>>
<1>0. status \in [Fleet -> [Records ->
                     {"absent", "queued", "downloaded", "deleted"}]]
    BY DEF TypeOK
<1>1. CASE UNCHANGED <<status, jobVars, swept>>
    BY <1>1 DEF Holds, RecordsIn, Archived
<1>2. ASSUME NEW i \in Fleet, NEW m \in Meetings, Store(i, m)
      PROVE  /\ \A j \in Fleet, n \in Meetings : Holds(j, n) => Holds(j, n)'
             /\ UNCHANGED <<jobVars, swept>>
    <2>1. PICK S \in SUBSET Selected(m) :
            status' = [status EXCEPT ![i] =
                         [r \in Records |-> IF r \in S THEN "queued" ELSE @[r]]]
        BY <1>2 DEF Store
    <2>2. /\ \A r \in S : r \in Records /\ MeetingOf[r] = m
          /\ RecordsIn(i, m) = {}
          /\ UNCHANGED <<jobVars, swept>>
        BY <1>2, <2>1, SelectedAreOfMeeting DEF Store
    <2>3. \A j \in Fleet, r \in Records :
            status'[j][r] = IF j = i /\ r \in S THEN "queued" ELSE status[j][r]
        BY <1>0, <2>1
    <2>4. QED
        BY <2>2, <2>3, AnswersStay
<1>3. ASSUME NEW i \in Fleet, NEW r \in Records,
             Obtain(i, r) \/ MarkDeleted(i, r)
      PROVE  /\ \A j \in Fleet, n \in Meetings : Holds(j, n) => Holds(j, n)'
             /\ UNCHANGED <<jobVars, swept>>
    <2>1. /\ status[i][r] \in {"queued", "downloaded"}
          /\ \E s \in {"downloaded", "deleted"} :
               status' = [status EXCEPT ![i][r] = s]
          /\ UNCHANGED <<jobVars, swept>>
        BY <1>3 DEF Obtain, MarkDeleted, SetStatus
    <2>2. \A j \in Fleet, q \in Records :
            \/ status'[j][q] = status[j][q]
            \/ /\ status[j][q] # "absent"
               /\ status'[j][q] \in {"downloaded", "deleted"}
        BY <1>0, <2>1
    <2>3. QED
        BY <2>1, <2>2, AnswersStay
<1>4. QED
    BY <1>1, <1>2, <1>3
    DEF InstanceStep, DropShort, OthersDelete, Purge, Fetch, RemoveFile, Damage

LEMMA CleanupStepKeeps ==
    ASSUME TypeOK, AnswersHold, CleanupStep \/ Interrupt
    PROVE  /\ UNCHANGED status
           /\ AnswersHold'
           /\ swept' # swept => cpc = "delete"
<1> USE DEF TypeOK
<1>0. ASSUME UNCHANGED status
      PROVE  \A i \in Fleet, m \in Meetings : Holds(i, m)' <=> Holds(i, m)
    BY <1>0 DEF Holds, RecordsIn, Archived
<1>1. CASE ListDay
    BY <1>1 DEF ListDay, Ends, AnswersHold
<1>10. CASE FeedFails \/ WaitOver
    BY <1>10 DEF FeedFails, WaitOver, AnswersHold
<1>2. CASE Ask
    <2>1. asked' - 1 = asked /\ asked' # 0 /\ day' \ unchecked' = {}
        BY <1>2 DEF Ask
    <2>2. QED
        BY <1>0, <1>2, <2>1 DEF Ask, AnswersHold
<1>3. CASE AskFails
    BY <1>3 DEF AskFails, Ends, AnswersHold
<1>4. ASSUME NEW m \in Meetings, CheckMeeting(m)
      PROVE  AnswersHold' /\ UNCHANGED <<status, swept>>
    <2>1. asked \in Fleet /\ IsLoaded(asked, m)
        BY <1>4 DEF CheckMeeting, AnswersHold
    <2>2. Holds(asked, m)
        BY <2>1 DEF IsLoaded, Holds, Archived, RecordsIn, RecordsOf
    <2>3. \A n \in day' \ unchecked' : n = m \/ n \in day \ unchecked
        BY <1>4 DEF CheckMeeting
    <2>4. QED
        BY <1>0, <1>4, <2>1, <2>2, <2>3 DEF CheckMeeting, AnswersHold
<1>5. CASE AnswerPending
    BY <1>5 DEF AnswerPending, Ends, AnswersHold
<1>6. CASE AnswerOk
    <2>1. \A i \in 1..asked, m \in day : Holds(i, m)
        BY <1>6 DEF AnswerOk, AnswersHold
    <2>2. QED
        BY <1>0, <1>6, <2>1 DEF AnswerOk, AnswersHold
<1>7. ASSUME NEW m \in Meetings, DeleteNext(m)
      PROVE  AnswersHold' /\ UNCHANGED status /\ cpc = "delete"
    BY <1>0, <1>7 DEF DeleteNext, AnswersHold
<1>8. CASE DeletedAll \/ Interrupt
    BY <1>8 DEF DeletedAll, Interrupt, Ends, AnswersHold
<1>9. QED
    BY <1>1, <1>2, <1>3, <1>4, <1>5, <1>6, <1>7, <1>8, <1>10
       DEF CleanupStep, ListDay, FeedFails, WaitOver, Ask, AskFails,
           AnswerPending, AnswerOk, DeletedAll, Interrupt

LEMMA SweepStep ==
    ASSUME SweepInv, [Next]_vars
    PROVE  AnswersHold'
<1>1. CASE InstanceStep
    <2>1. /\ \A i \in Fleet, m \in Meetings : Holds(i, m) => Holds(i, m)'
          /\ UNCHANGED <<jobVars, swept>>
        BY <1>1, InstanceStepKeeps DEF SweepInv
    <2>2. asked \in Nat /\ day \subseteq Meetings /\ asked <= Instances
        BY DEF SweepInv, TypeOK
    <2>3. QED
        BY <2>1, <2>2 DEF SweepInv, AnswersHold
<1>2. CASE CleanupStep \/ Interrupt
    BY <1>2, CleanupStepKeeps DEF SweepInv
<1>3. CASE UNCHANGED vars
    BY <1>3 DEF vars, SweepInv, AnswersHold, Holds, RecordsIn, Archived
<1>4. QED
    BY <1>1, <1>2, <1>3 DEF Next

LEMMA SweepInvCorrect == Spec => []SweepInv
<1>1. Init => AnswersHold
    BY DEF Init, AnswersHold
<1>2. QED
    BY <1>1, TypeCorrect, SweepStep, PTL DEF Spec, SweepInv

\* What the code guarantees in every case, a database that fails included: a
\* meeting is removed only when each instance has rows of each meeting of the
\* day and has downloaded all the records it has rows of, although the answers
\* are old by then.
SweepsWhatIsHeld ==
    [][swept' # swept => \A i \in Fleet, m \in day : Holds(i, m)]_vars

LEMMA SweepsHeld ==
    ASSUME SweepInv, [Next]_vars, swept' # swept
    PROVE  \A i \in Fleet, m \in day : Holds(i, m)
<1>1. CASE InstanceStep
    BY <1>1, InstanceStepKeeps DEF SweepInv
<1>2. CASE CleanupStep \/ Interrupt
    <2>1. cpc = "delete"
        BY <1>2, CleanupStepKeeps DEF SweepInv
    <2>2. QED
        BY <2>1 DEF SweepInv, AnswersHold
<1>3. CASE UNCHANGED vars
    BY <1>3 DEF vars
<1>4. QED
    BY <1>1, <1>2, <1>3 DEF Next

\* No failure, restart or interleaving makes CleanupJob remove a day of which
\* an instance has stored nothing, or has a stored record yet to download.
THEOREM SweepsWhatIsHeldCorrect == Spec => SweepsWhatIsHeld
BY SweepInvCorrect, SweepsHeld, PTL DEF Spec, SweepsWhatIsHeld

\* An instance has saved all the wanted records of a meeting or none.
WholeMeetings ==
    \A i \in Fleet, m \in Meetings : \A q \in Records, r \in Selected(m) :
        MeetingOf[q] = m /\ status[i][q] # "absent" => status[i][r] # "absent"

LEMMA WholeStep ==
    ASSUME "db" \notin Faults, TypeOK, WholeMeetings, [Next]_vars
    PROVE  WholeMeetings'
<1>0. /\ status \in [Fleet -> [Records ->
                       {"absent", "queued", "downloaded", "deleted"}]]
      /\ \A m \in Meetings : \A r \in Selected(m) :
            r \in Records /\ MeetingOf[r] = m
    BY SelectedAreOfMeeting DEF TypeOK
<1>1. CASE UNCHANGED status
    BY <1>1 DEF WholeMeetings
<1>2. ASSUME NEW i \in Fleet, NEW m \in Meetings, Store(i, m)
      PROVE  WholeMeetings'
    <2>1. PICK S \in SUBSET Selected(m) :
            /\ S = Selected(m)
            /\ status' = [status EXCEPT ![i] =
                            [r \in Records |-> IF r \in S
                                               THEN "queued" ELSE @[r]]]
        BY <1>2 DEF Store, MayFail
    <2>2. \A j \in Fleet, r \in Records :
            status'[j][r] = IF j = i /\ r \in Selected(m)
                            THEN "queued" ELSE status[j][r]
        BY <1>0, <2>1
    <2>3. SUFFICES ASSUME NEW j \in Fleet, NEW n \in Meetings,
                          NEW q \in Records, NEW r \in Selected(n),
                          MeetingOf[q] = n, status'[j][q] # "absent"
                   PROVE  status'[j][r] # "absent"
        BY DEF WholeMeetings
    <2>4. CASE j = i /\ n = m
        BY <1>0, <2>2, <2>4
    <2>5. CASE ~(j = i /\ n = m)
        <3>1. r \in Records /\ MeetingOf[r] = n
            BY <1>0
        <3>2. \A p \in Selected(m) : MeetingOf[p] = m
            BY <1>0
        <3>3. j = i => q \notin Selected(m) /\ r \notin Selected(m)
            BY <2>3, <2>5, <3>1, <3>2, Zenon
        <3>4. /\ status'[j][q] = status[j][q]
              /\ status'[j][r] = status[j][r]
            BY <2>2, <3>1, <3>3
        <3>5. QED
            BY <2>3, <3>1, <3>4 DEF WholeMeetings
    <2>6. QED
        BY <2>4, <2>5
<1>3. ASSUME NEW i \in Fleet, NEW r \in Records,
             Obtain(i, r) \/ MarkDeleted(i, r)
      PROVE  WholeMeetings'
    <2>1. /\ status[i][r] \in {"queued", "downloaded"}
          /\ \E s \in {"downloaded", "deleted"} :
               status' = [status EXCEPT ![i][r] = s]
        BY <1>3 DEF Obtain, MarkDeleted, SetStatus
    <2>2. \A j \in Fleet, q \in Records :
            status'[j][q] = "absent" <=> status[j][q] = "absent"
        BY <1>0, <2>1
    <2>3. SUFFICES ASSUME NEW j \in Fleet, NEW n \in Meetings,
                          NEW q \in Records, NEW p \in Selected(n),
                          MeetingOf[q] = n, status'[j][q] # "absent"
                   PROVE  status'[j][p] # "absent"
        BY DEF WholeMeetings
    <2>4. p \in Records /\ status[j][q] # "absent"
        BY <1>0, <2>2, <2>3
    <2>5. status[j][p] # "absent"
        BY <2>3, <2>4 DEF WholeMeetings
    <2>6. QED
        BY <2>2, <2>4, <2>5
<1>4. CASE InstanceStep
    BY <1>1, <1>2, <1>3, <1>4
    DEF InstanceStep, DropShort, OthersDelete, Purge, Fetch, RemoveFile, Damage
<1>5. CASE CleanupStep \/ Interrupt
    BY <1>1, <1>5
    DEF CleanupStep, ListDay, FeedFails, WaitOver, Ask, AskFails,
        CheckMeeting, DeleteNext, AnswerPending, AnswerOk, DeletedAll,
        Interrupt
<1>6. CASE UNCHANGED vars
    BY <1>1, <1>6 DEF vars
<1>7. QED
    BY <1>4, <1>5, <1>6 DEF Next

\* While no INSERT of SaveMeeting fails, every removal comes after each
\* instance has downloaded each wanted record of the day, however the answers
\* interleave with the work of the instances.
THEOREM NoSweepBeforeAllLoadedCorrect ==
    ASSUME "db" \notin Faults
    PROVE  Spec => NoSweepBeforeAllLoaded
<1>1. Init => WholeMeetings
    BY DEF Init, WholeMeetings
<1>2. TypeOK /\ WholeMeetings /\ [Next]_vars => WholeMeetings'
    BY WholeStep
<1>3. ASSUME SweepInv, WholeMeetings, [Next]_vars, swept' # swept
      PROVE  \A i \in Fleet, m \in day : Selected(m) \subseteq Archived(i)
    <2> SUFFICES ASSUME NEW i \in Fleet, NEW m \in day, NEW r \in Selected(m)
                 PROVE  r \in Archived(i)
        OBVIOUS
    <2>1. m \in Meetings /\ Holds(i, m)
        BY <1>3, SweepsHeld DEF SweepInv, TypeOK
    <2>2. r \in Records /\ MeetingOf[r] = m
        BY <2>1, SelectedAreOfMeeting
    <2>3. PICK q \in Records : MeetingOf[q] = m /\ status[i][q] # "absent"
        BY <2>1 DEF Holds, RecordsIn, RecordsOf
    <2>4. status[i][r] # "absent"
        BY <1>3, <2>1, <2>3 DEF WholeMeetings
    <2>5. QED
        BY <2>1, <2>2, <2>4 DEF Holds, RecordsIn, RecordsOf
<1>4. QED
    BY <1>1, <1>2, <1>3, SweepInvCorrect, TypeCorrect, PTL
    DEF Spec, NoSweepBeforeAllLoaded

-----------------------------------------------------------------------------
\* The end of the job.

\* The work left: tries, the phase of the try, the instances it has yet to
\* ask, and the meetings of the answer or of the removal under way.
WorkLeft ==
    LET tries == (RetryLimit + 1) - retry
    IN  CASE cpc \in {"list", "wait"} -> <<tries, 4, 0, 0>>
          [] cpc = "ask" -> <<tries, 3, Instances - asked, 0>>
          [] cpc = "check" ->
                <<tries, 3, Instances - asked, Cardinality(unchecked) + 1>>
          [] cpc = "delete" -> <<tries, 2, 0, Cardinality(undeleted)>>
          [] OTHER -> <<tries, 0, 0, 0>>

Measures == Nat \X Nat \X Nat \X Nat

\* The lexicographic order of measures.
IsLess(v, w) ==
    \/ v[1] < w[1]
    \/ v[1] = w[1] /\ v[2] < w[2]
    \/ v[1] = w[1] /\ v[2] = w[2] /\ v[3] < w[3]
    \/ v[1] = w[1] /\ v[2] = w[2] /\ v[3] = w[3] /\ v[4] < w[4]

\* The feed fails, or the minute that follows a failure is over.
FeedRetry == FeedFails \/ WaitOver

\* Each step of the job but a failing feed and the wait that follows a
\* failure, and a signal, leaves less work; those two and the instances do not
\* change what is left.
Advances ==
    /\ CleanupStep \/ Interrupt =>
         FeedRetry \/ IsLess(WorkLeft', WorkLeft)
    /\ FeedRetry \/ InstanceStep => WorkLeft' = WorkLeft

\* One meeting less to look at.
LEMMA OneLess ==
    ASSUME NEW S \in SUBSET Meetings, NEW m \in S
    PROVE  Cardinality(S \ {m}) < Cardinality(S)
<1>1. IsFiniteSet(S)
    BY AccountAssumption, FS_Subset
<1>2. S \ {m} \in SUBSET S /\ S \ {m} # S
    OBVIOUS
<1>3. QED
    BY <1>1, <1>2, FS_Subset, FS_CardinalityType

LEMMA MeetingsCount ==
    ASSUME NEW S \in SUBSET Meetings
    PROVE  Cardinality(S) \in Nat
BY AccountAssumption, FS_Subset, FS_CardinalityType

LEMMA WorkIsMeasure ==
    ASSUME TypeInv
    PROVE  WorkLeft \in Measures
<1>1. (RetryLimit + 1) - retry \in Nat /\ Instances - asked \in Nat
    BY DEF TypeInv, TypeOK
<1>2. Cardinality(unchecked) \in Nat /\ Cardinality(undeleted) \in Nat
    BY MeetingsCount DEF TypeInv, TypeOK
<1>3. QED
    BY <1>1, <1>2 DEF WorkLeft, Measures

LEMMA StepAdvances ==
    ASSUME TypeInv, TypeInv', Next
    PROVE  Advances
<1> DEFINE Less == IsLess(WorkLeft', WorkLeft)
<1> USE DEF TypeInv, TypeOK
<1>1. ASSUME ListDay PROVE Less
    BY <1>1 DEF ListDay, Ends, WorkLeft, IsLess
<1>2. ASSUME Ask PROVE Less
    BY <1>2 DEF Ask, WorkLeft, IsLess
<1>3. ASSUME AskFails PROVE Less
    <2>1. retry' = retry + 1 /\ cpc \in {"ask", "check"}
          /\ cpc' \in {"wait", "done"}
        BY <1>3 DEF AskFails, Ends
    <2>2. WorkLeft'[1] = (RetryLimit + 1) - retry'
        BY <2>1 DEF WorkLeft
    <2>3. WorkLeft[1] = (RetryLimit + 1) - retry
        BY <2>1 DEF WorkLeft
    <2>4. QED
        BY <2>1, <2>2, <2>3 DEF IsLess
<1>4. ASSUME NEW m \in Meetings, CheckMeeting(m) PROVE Less
    <2>1. /\ cpc = "check" /\ m \in unchecked /\ unchecked' = unchecked \ {m}
          /\ UNCHANGED <<cpc, asked, retry>>
        BY <1>4 DEF CheckMeeting
    <2>2. /\ Cardinality(unchecked') < Cardinality(unchecked)
          /\ Cardinality(unchecked') \in Nat /\ Cardinality(unchecked) \in Nat
        BY <2>1, OneLess, MeetingsCount
    <2>3. QED
        BY <2>1, <2>2 DEF WorkLeft, IsLess
<1>5. ASSUME NEW m \in Meetings, DeleteNext(m) PROVE Less
    <2>1. /\ cpc = "delete" /\ m \in undeleted /\ undeleted' = undeleted \ {m}
          /\ UNCHANGED <<cpc, asked, retry>>
        BY <1>5 DEF DeleteNext
    <2>2. Cardinality(undeleted') < Cardinality(undeleted)
        BY <2>1, OneLess
    <2>3. QED
        BY <2>1, <2>2 DEF WorkLeft, IsLess
<1>6. ASSUME AnswerPending PROVE Less
    BY <1>6 DEF AnswerPending, Ends, WorkLeft, IsLess
<1>7. ASSUME AnswerOk PROVE Less
    <2>1. Cardinality(unchecked) \in Nat
        BY MeetingsCount
    <2>2. QED
        BY <1>7, <2>1 DEF AnswerOk, WorkLeft, IsLess
<1>8. ASSUME DeletedAll \/ Interrupt PROVE Less
    BY <1>8 DEF DeletedAll, Interrupt, Ends, WorkLeft, IsLess
<1> HIDE DEF Less
<1>9. CleanupStep \/ Interrupt => FeedRetry \/ Less
    BY <1>1, <1>2, <1>3, <1>4, <1>5, <1>6, <1>7, <1>8
    DEF CleanupStep, FeedRetry
<1>10. InstanceStep => WorkLeft' = WorkLeft
    BY InstanceStepKeeps DEF WorkLeft
<1>11. FeedRetry => WorkLeft' = WorkLeft
    BY DEF FeedRetry, FeedFails, WaitOver, WorkLeft
<1>12. QED
    BY <1>9, <1>10, <1>11 DEF Advances, Less

\* The safety half of CleanupEnds, for every number of instances, meetings and
\* retries: but for the retry of a failing feed, each step of the job leaves
\* less work in an order without infinite descent, whatever the instances
\* answer.  The instances, and a feed that fails, change nothing of it: a job
\* that never ends is one whose feed fails for ever.
THEOREM CleanupAdvances ==
    Spec => [](WorkLeft \in Measures) /\ [][Advances]_vars
<1>1. TypeInv => WorkLeft \in Measures
    BY WorkIsMeasure
<1>2. TypeInv /\ TypeInv' /\ [Next]_vars => [Advances]_vars
    BY StepAdvances
<1>3. QED
    BY <1>1, <1>2, TypeInvCorrect, PTL DEF Spec

=============================================================================
