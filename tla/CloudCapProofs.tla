--------------------------- MODULE CloudCapProofs ---------------------------
(***************************************************************************)
(* Theorems about the cloudcap command, for every account, chunk length,   *)
(* number of tries and limit.  The limit is one on a sum over a finite     *)
(* set: the lemmas about sums come from induction over its subsets.        *)
(***************************************************************************)
EXTENDS CloudCap, FiniteSetTheorems, WellFoundedInduction, TLAPS

USE CloudCapAssumption, ZoomCloudAssumption, FailuresAssumption
USE DEF outcome, capVars, Nothing, CloudTypeOK

\* Where the next chunk starts, in days before today.
Reached == chunk * ChunkDays

\* Only a meeting behind the start of the next chunk is in the list, one on
\* that very day no more than once.
ListedByDay ==
    \A m \in Meetings :
        /\ DaysAgo[m] > Reached => listed[m] = 0
        /\ DaysAgo[m] = Reached => listed[m] <= 1

TriesLeft == cpc = "list" => failed < Tries

LEMMA NextChunk ==
    ASSUME TypeOK
    PROVE  /\ Reached \in Nat
           /\ (chunk + 1) * ChunkDays = Reached + ChunkDays
BY DEF TypeOK, Reached

LEMMA ListChunkKeeps ==
    ASSUME TypeOK, ListedByDay, ListChunk
    PROVE  TypeOK' /\ ListedByDay'
<1>1. /\ Reached \in Nat
      /\ Reached' = Reached + ChunkDays
      /\ Reached + ChunkDays > Reached
    BY NextChunk DEF ListChunk, Reached, TypeOK
<1>2. \A m \in Meetings :
        InChunk(m, chunk) => DaysAgo[m] \in Reached..(Reached + ChunkDays)
    BY NextChunk DEF InChunk, Reached
<1>3. \A m \in Meetings :
        listed'[m] = IF InChunk(m, chunk) THEN listed[m] + 1 ELSE listed[m]
    BY DEF ListChunk
<1>4. \A m \in Meetings : DaysAgo[m] \in Nat /\ listed[m] \in 0..2
    BY DEF TypeOK
<1>5. ASSUME NEW m \in Meetings
      PROVE  /\ listed'[m] \in 0..2
             /\ DaysAgo[m] > Reached' => listed'[m] = 0
             /\ DaysAgo[m] = Reached' => listed'[m] <= 1
    <2>1. CASE InChunk(m, chunk)
        BY <1>1, <1>2, <1>3, <1>4, <2>1 DEF ListedByDay
    <2>2. CASE ~InChunk(m, chunk)
        BY <1>1, <1>3, <1>4, <2>2 DEF ListedByDay
    <2>3. QED
        BY <2>1, <2>2
<1>6. listed' \in [Meetings -> 0..2]
    BY <1>5 DEF ListChunk
<1>7. TypeOK'
    BY <1>6 DEF TypeOK, ListChunk
<1>8. QED
    BY <1>5, <1>7 DEF ListedByDay

LEMMA StepTypes ==
    ASSUME TypeOK, ListedByDay, TriesLeft, [Next]_vars
    PROVE  TypeOK' /\ ListedByDay' /\ TriesLeft'
<1>1. CASE ListChunk
    BY <1>1, ListChunkKeeps DEF ListChunk, TriesLeft
<1> USE DEF TypeOK, ListedByDay, Reached, TriesLeft
<1>2. CASE ListFails
    <2>1. chunk' * ChunkDays = 0
        BY <1>2 DEF ListFails
    <2>2. failed' \in 0..Tries /\ TriesLeft'
        BY <1>2 DEF ListFails
    <2>3. QED
        BY <1>2, <2>1, <2>2 DEF ListFails
<1>3. CASE ListEnds
    BY <1>3 DEF ListEnds
<1>4. ASSUME NEW m \in Meetings, Trim(m)
      PROVE  TypeOK' /\ ListedByDay' /\ TriesLeft'
    BY <1>4 DEF Trim, IsNewest, DeleteMeetingRecordings, DeleteAction
<1>5. CASE TrimEnds \/ Interrupt
    BY <1>5 DEF TrimEnds, Interrupt
<1>6. ASSUME NEW m \in Meetings, OthersDelete(m)
      PROVE  TypeOK' /\ ListedByDay' /\ TriesLeft'
    BY <1>6 DEF OthersDelete
<1>7. CASE UNCHANGED vars
    BY <1>7 DEF vars
<1>8. QED
    BY <1>1, <1>2, <1>3, <1>4, <1>5, <1>6, <1>7 DEF Next, CapStep

LEMMA TypesCorrect == Spec => [](TypeOK /\ ListedByDay /\ TriesLeft)
<1>1. Init => TypeOK /\ ListedByDay /\ TriesLeft
    BY DEF Init, FullCloud, TypeOK, ListedByDay, TriesLeft
<1>2. QED
    BY <1>1, StepTypes, PTL DEF Spec

\* The variables keep their types; in particular no meeting is listed more
\* than twice, however long the chunks are and however often a listing fails.
THEOREM TypeCorrect == Spec => []TypeOK
BY TypesCorrect, PTL

-----------------------------------------------------------------------------
\* The loop has visited the most recent part of the list.
VisitsByDay ==
    \A m, n \in Meetings :
        unvisited[m] < listed[m] /\ unvisited[n] > 0 =>
            DaysAgo[m] <= DaysAgo[n]

\* Whatever was removed was visited beyond the limit, and nothing that was
\* removed is still in Zoom.
TrimsBeyondCap ==
    /\ trimmed # {} => used > Cap
    /\ \A m \in trimmed : unvisited[m] < listed[m] /\ cloud[m] # "present"

\* Before the loop the list is unread and nothing was removed.
UnreadBefore ==
    /\ cpc = "list" => trimmed = {} /\ unvisited = Nothing
    /\ \A m \in Meetings : unvisited[m] <= listed[m]

OrderInv ==
    /\ TypeOK
    /\ UnreadBefore
    /\ cpc # "list" => VisitsByDay /\ OldestGoFirst
    /\ TrimsBeyondCap

LEMMA TrimKeeps ==
    ASSUME OrderInv, TypeOK', NEW k \in Meetings, Trim(k)
    PROVE  OrderInv'
<1>1. /\ cpc = "trim" /\ UNCHANGED <<cpc, listed>>
      /\ unvisited[k] > 0
      /\ \A n \in Meetings : unvisited[n] > 0 => DaysAgo[k] <= DaysAgo[n]
      /\ unvisited' = [unvisited EXCEPT ![k] = @ - 1]
      /\ used' = used + Bytes[k]
    BY DEF Trim, IsNewest
<1>2. /\ \A m \in Meetings : DaysAgo[m] \in Nat /\ Bytes[m] \in Nat
      /\ \A m \in Meetings : unvisited[m] \in 0..2 /\ listed[m] \in 0..2
      /\ used \in Nat /\ trimmed \subseteq Meetings
    BY DEF OrderInv, TypeOK
<1>3. \A m \in Meetings :
        unvisited'[m] = IF m = k THEN unvisited[k] - 1 ELSE unvisited[m]
    BY <1>1, <1>2 DEF OrderInv, TypeOK
<1>4. VisitsByDay'
    BY <1>1, <1>2, <1>3 DEF OrderInv, UnreadBefore, VisitsByDay
<1>5. UnreadBefore'
    BY <1>1, <1>2, <1>3 DEF OrderInv, UnreadBefore
<1>6. /\ trimmed' \subseteq trimmed \cup {k}
      /\ \A m \in Meetings : cloud[m] # "present" => cloud'[m] # "present"
      /\ k \in trimmed' \ trimmed => cloud'[k] # "present"
      /\ k \in refused' \/ cloud'[k] # "present" \/ used' <= Cap
      /\ used' <= Cap => trimmed' = trimmed
      /\ refused \subseteq refused'
    BY DEF Trim, DeleteMeetingRecordings, DeleteAction, OrderInv, TypeOK
<1>7. TrimsBeyondCap'
    <2>1. trimmed' # {} => used' > Cap
        BY <1>1, <1>2, <1>6 DEF OrderInv, TrimsBeyondCap
    <2>2. ASSUME NEW m \in trimmed'
          PROVE  unvisited'[m] < listed'[m] /\ cloud'[m] # "present"
        BY <1>1, <1>2, <1>3, <1>6, <2>2
        DEF OrderInv, UnreadBefore, TrimsBeyondCap
    <2>3. QED
        BY <2>1, <2>2 DEF TrimsBeyondCap
<1>8. OldestGoFirst'
    <2> SUFFICES ASSUME NEW m \in trimmed', NEW n \in Left', unvisited'[n] = 0
                 PROVE  DaysAgo[n] <= DaysAgo[m]
        BY DEF OldestGoFirst
    <2>1. /\ m \in Meetings /\ n \in Meetings
          /\ listed[n] > 0 /\ cloud'[n] = "present" /\ n \notin refused'
        BY <1>1, <1>2, <1>6 DEF Left, Present
    <2>2. n # k
        <3>1. used' > Cap
            BY <1>7 DEF TrimsBeyondCap
        <3>2. QED
            BY <1>2, <1>1, <1>6, <2>1, <3>1 DEF TypeOK
    <2>3. n \in Left /\ unvisited[n] = 0
        BY <1>3, <1>6, <2>1, <2>2 DEF Left, Present, OrderInv, TypeOK
    <2>4. CASE m \in trimmed
        BY <1>1, <2>3, <2>4 DEF OrderInv, OldestGoFirst
    <2>5. CASE m = k
        BY <1>1, <1>2, <2>1, <2>3, <2>5 DEF OrderInv, VisitsByDay
    <2>6. QED
        BY <1>6, <2>4, <2>5
<1>9. QED
    BY <1>4, <1>5, <1>7, <1>8 DEF OrderInv

LEMMA StepOrder ==
    ASSUME OrderInv, TypeOK', [Next]_vars
    PROVE  OrderInv'
<1>1. ASSUME NEW k \in Meetings, Trim(k) PROVE OrderInv'
    BY <1>1, TrimKeeps
<1>2. CASE ListChunk \/ ListFails
    BY <1>2
    DEF ListChunk, ListFails, OrderInv, TypeOK, UnreadBefore, VisitsByDay,
        OldestGoFirst, TrimsBeyondCap
<1>3. CASE ListEnds
    BY <1>3
    DEF ListEnds, OrderInv, TypeOK, UnreadBefore, VisitsByDay, OldestGoFirst,
        TrimsBeyondCap
<1>4. CASE TrimEnds \/ Interrupt
    BY <1>4
    DEF TrimEnds, Interrupt, OrderInv, TypeOK, UnreadBefore, VisitsByDay,
        OldestGoFirst, TrimsBeyondCap, Left, Present
<1>5. ASSUME NEW k \in Meetings, OthersDelete(k) PROVE OrderInv'
    <2>1. \A m \in Meetings : cloud'[m] = "present" => cloud[m] = "present"
        BY <1>5 DEF OthersDelete, OrderInv, TypeOK
    <2>2. UNCHANGED capVars /\ Left' \subseteq Left
        BY <1>5, <2>1 DEF OthersDelete, Left, Present
    <2>3. QED
        BY <2>1, <2>2
        DEF OrderInv, TypeOK, UnreadBefore, VisitsByDay, OldestGoFirst,
            TrimsBeyondCap
<1>6. CASE UNCHANGED vars
    BY <1>6
    DEF vars, OrderInv, UnreadBefore, VisitsByDay, OldestGoFirst,
        TrimsBeyondCap, Left, Present
<1>7. QED
    BY <1>1, <1>2, <1>3, <1>4, <1>5, <1>6 DEF Next, CapStep

LEMMA OrderInit == Init => OrderInv
BY DEF Init, FullCloud, OrderInv, TypeOK, UnreadBefore, TrimsBeyondCap

LEMMA OrderCorrect == Spec => []OrderInv
BY OrderInit, TypeCorrect, StepOrder, PTL DEF Spec

\* The recordings that cloudcap removes are the oldest of those it has visited
\* and leaves, whatever Zoom refuses, other clients remove, and however often
\* the listing starts over.
THEOREM OldestGoFirstCorrect == Spec => []OldestGoFirst
<1>1. OrderInv => OldestGoFirst
    BY DEF OrderInv, OldestGoFirst, UnreadBefore
<1>2. QED
    BY OrderCorrect, <1>1, PTL

-----------------------------------------------------------------------------
\* Sums of sizes.

\* Induction over the subsets of a finite set: what holds of a subset whenever
\* it holds of the smaller ones holds of all of them.
LEMMA SubsetInduction ==
    ASSUME NEW S, IsFiniteSet(S), NEW Good,
           \A U \in SUBSET S :
              (\A V \in SUBSET U : V # U => V \in Good) => U \in Good
    PROVE  SUBSET S \subseteq Good
<1> DEFINE Bad == (SUBSET S) \ Good
<1> SUFFICES ASSUME Bad # {} PROVE FALSE
    OBVIOUS
<1>1. IsWellFoundedOn(StrictSubsetOrdering(S), SUBSET S)
    <2>1. FiniteSubsetsOf(S) = SUBSET S
        BY FS_FiniteSubsetsOfFinite
    <2>2. IsWellFoundedOn(StrictSubsetOrdering(S), FiniteSubsetsOf(S))
        BY FS_StrictSubsetOrderingWellFounded
    <2>3. QED
        BY <2>1, <2>2
<1>2. Bad \subseteq SUBSET S
    OBVIOUS
<1> HIDE DEF Bad
<1>3. PICK U \in Bad : \A V \in Bad : <<V, U>> \notin StrictSubsetOrdering(S)
    BY <1>1, <1>2, WFMin
<1>4. ASSUME NEW V \in SUBSET U, V # U PROVE V \in Good
    BY <1>3, <1>4 DEF StrictSubsetOrdering, Bad
<1>5. QED
    BY <1>3, <1>4 DEF Bad

\* The meeting that a sum takes first.
First(S) == CHOOSE m \in S : TRUE

\* The equation of the function behind the sum, on the subsets of U.
IsSum(g, U) ==
    g = [S \in SUBSET U |->
           IF S = {} THEN 0 ELSE Bytes[First(S)] + g[S \ {First(S)}]]

LEMMA SumUnfolds ==
    ASSUME NEW U
    PROVE  BytesOf(U) = (CHOOSE g : IsSum(g, U))[U]
BY DEF BytesOf, MapThenSumSet, MapThenFoldSet, First, IsSum

SumStep(U) ==
    BytesOf(U) = IF U = {} THEN 0 ELSE Bytes[First(U)] + BytesOf(U \ {First(U)})

\* Two solutions of the equation are the same.
LEMMA SumUnique ==
    ASSUME NEW U, IsFiniteSet(U), NEW g, NEW h, IsSum(g, U), IsSum(h, U)
    PROVE  g = h
<1> DEFINE Good == {S \in SUBSET U : g[S] = h[S]}
<1>1. ASSUME NEW S \in SUBSET U, \A V \in SUBSET S : V # S => V \in Good
      PROVE  S \in Good
    <2>1. /\ g[S] = IF S = {} THEN 0 ELSE Bytes[First(S)] + g[S \ {First(S)}]
          /\ h[S] = IF S = {} THEN 0 ELSE Bytes[First(S)] + h[S \ {First(S)}]
        BY DEF IsSum
    <2>2. S # {} => S \ {First(S)} \in Good
        BY <1>1 DEF First
    <2>3. QED
        BY <2>1, <2>2
<1>2. SUBSET U \subseteq Good
    <2> HIDE DEF Good
    <2> QED
        BY <1>1, SubsetInduction
<1>3. QED
    BY <1>2 DEF IsSum

\* The sum satisfies its equation on each set of meetings.
LEMMA SumEquation ==
    ASSUME NEW U \in SUBSET Meetings
    PROVE  SumStep(U)
<1> DEFINE Good == {S \in SUBSET Meetings : SumStep(S)}
<1>1. ASSUME NEW W \in SUBSET Meetings, \A V \in SUBSET W : V # W => V \in Good
      PROVE  W \in Good
    <2> DEFINE h == [S \in SUBSET W |->
                       IF S = {} THEN 0
                       ELSE Bytes[First(S)] + BytesOf(S \ {First(S)})]
    <2>1. ASSUME NEW S \in SUBSET W, S # {}
          PROVE  h[S \ {First(S)}] = BytesOf(S \ {First(S)})
        <3> DEFINE V == S \ {First(S)}
        <3>1. V \in SUBSET W /\ V # W
            BY <2>1 DEF First
        <3>2. SumStep(V)
            BY <1>1, <3>1
        <3> HIDE DEF V
        <3>3. h[V] = BytesOf(V)
            BY <3>1, <3>2 DEF SumStep
        <3>4. QED
            BY <3>3 DEF V
    <2>2. IsSum(h, W)
        BY <2>1 DEF IsSum
    <2> DEFINE g == CHOOSE f : IsSum(f, W)
    <2> HIDE DEF h
    <2>3. IsSum(g, W)
        BY <2>2
    <2>4. BytesOf(W) = g[W]
        BY SumUnfolds
    <2>5. IsFiniteSet(W)
        BY AccountAssumption, FS_Subset
    <2> HIDE DEF g
    <2>6. g = h
        BY <2>2, <2>3, <2>5, SumUnique
    <2>7. SumStep(W)
        BY <2>4, <2>6 DEF SumStep, h
    <2>8. QED
        BY <2>7
<1>2. SUBSET Meetings \subseteq Good
    <2> HIDE DEF Good
    <2> QED
        BY <1>1, SubsetInduction, AccountAssumption
<1>3. QED
    BY <1>2

\* A sum of sizes is a size.
LEMMA SumIsNatural ==
    ASSUME NEW U \in SUBSET Meetings
    PROVE  BytesOf(U) \in Nat
<1> DEFINE Good == {S \in SUBSET Meetings : BytesOf(S) \in Nat}
<1>1. ASSUME NEW W \in SUBSET Meetings, \A V \in SUBSET W : V # W => V \in Good
      PROVE  W \in Good
    <2>1. CASE W = {}
        <3>1. SumStep(W)
            BY SumEquation
        <3>2. QED
            BY <2>1, <3>1 DEF SumStep
    <2>2. CASE W # {}
        <3>1. First(W) \in W
            BY <2>2 DEF First
        <3>2. BytesOf(W \ {First(W)}) \in Nat
            BY <1>1, <3>1
        <3>3. BytesOf(W) = Bytes[First(W)] + BytesOf(W \ {First(W)})
            BY <2>2, SumEquation DEF SumStep
        <3>4. QED
            BY <3>1, <3>2, <3>3, CloudCapAssumption
    <2>3. QED
        BY <2>1, <2>2
<1>2. SUBSET Meetings \subseteq Good
    <2> HIDE DEF Good
    <2> QED
        BY <1>1, SubsetInduction, AccountAssumption
<1>3. QED
    BY <1>2

\* The order in which the sizes are added does not matter.
LEMMA SumRemoves ==
    ASSUME NEW U \in SUBSET Meetings, NEW k \in U
    PROVE  BytesOf(U) = Bytes[k] + BytesOf(U \ {k})
<1> DEFINE P(S) == \A m \in S : BytesOf(S) = Bytes[m] + BytesOf(S \ {m})
           Good == {S \in SUBSET Meetings : P(S)}
<1>1. ASSUME NEW W \in SUBSET Meetings, \A V \in SUBSET W : V # W => V \in Good
      PROVE  W \in Good
    <2> SUFFICES ASSUME NEW m \in W
                 PROVE  BytesOf(W) = Bytes[m] + BytesOf(W \ {m})
        OBVIOUS
    <2> DEFINE c == First(W)
    <2>1. c \in W /\ BytesOf(W) = Bytes[c] + BytesOf(W \ {c})
        BY SumEquation DEF SumStep, First
    <2> HIDE DEF c
    <2>2. CASE m = c
        BY <2>1, <2>2
    <2>3. CASE m # c
        <3>1. W \ {c} \in Good /\ W \ {m} \in Good
            BY <1>1, <2>1
        <3> DEFINE rest == BytesOf((W \ {c}) \ {m})
        <3>2. /\ BytesOf(W \ {c}) = Bytes[m] + rest
              /\ BytesOf(W \ {m}) = Bytes[c] + BytesOf((W \ {m}) \ {c})
            BY <2>1, <2>3, <3>1
        <3>3. (W \ {m}) \ {c} = (W \ {c}) \ {m}
            OBVIOUS
        <3>4. rest \in Nat
            BY SumIsNatural
        <3>5. Bytes[m] \in Nat /\ Bytes[c] \in Nat
            BY <2>1, CloudCapAssumption
        <3>6. BytesOf(W \ {m}) = Bytes[c] + rest
            BY <3>2, <3>3
        <3> HIDE DEF rest
        <3>7. QED
            BY <2>1, <3>2, <3>4, <3>5, <3>6
    <2>4. QED
        BY <2>2, <2>3
<1>2. SUBSET Meetings \subseteq Good
    <2> HIDE DEF Good
    <2> QED
        BY <1>1, SubsetInduction, AccountAssumption
<1>3. QED
    BY <1>2

\* A part of a set has no more bytes than the whole.
LEMMA SumGrows ==
    ASSUME NEW U \in SUBSET Meetings, NEW S \in SUBSET U
    PROVE  BytesOf(S) <= BytesOf(U)
<1> DEFINE Good == {V \in SUBSET Meetings :
                      S \subseteq V => BytesOf(S) <= BytesOf(V)}
<1>1. ASSUME NEW W \in SUBSET Meetings, \A V \in SUBSET W : V # W => V \in Good
      PROVE  W \in Good
    <2> SUFFICES ASSUME S \subseteq W PROVE BytesOf(S) <= BytesOf(W)
        OBVIOUS
    <2>1. BytesOf(S) \in Nat /\ BytesOf(W) \in Nat
        BY SumIsNatural
    <2>2. CASE S = W
        BY <2>1, <2>2
    <2>3. CASE S # W
        <3>1. PICK m \in W : m \notin S
            BY <2>3
        <3>2. BytesOf(S) <= BytesOf(W \ {m})
            BY <1>1, <3>1
        <3>3. BytesOf(W) = Bytes[m] + BytesOf(W \ {m})
            BY SumRemoves
        <3>4. BytesOf(W \ {m}) \in Nat /\ Bytes[m] \in Nat
            BY SumIsNatural, CloudCapAssumption
        <3>5. QED
            BY <2>1, <3>2, <3>3, <3>4
    <2>4. QED
        BY <2>2, <2>3
<1>2. SUBSET Meetings \subseteq Good
    <2> HIDE DEF Good
    <2> QED
        BY <1>1, SubsetInduction, AccountAssumption
<1>3. QED
    BY <1>2

-----------------------------------------------------------------------------
\* The limit.

Visited == {m \in Meetings : unvisited[m] < listed[m]}

Looping == cpc \in {"trim", "done"}

\* The visited meetings, counted once, have at most the bytes that the loop has
\* added up, and those of them that it left fit in the limit.
CapInv ==
    /\ OrderInv
    /\ cpc = "list" => used = 0
    /\ cpc = "done" => unvisited = Nothing
    /\ Looping => BytesOf(Visited) <= used
    /\ Looping => BytesOf(Left \cap Visited) <= Cap

LEMMA NoBytes == BytesOf({}) = 0
BY SumEquation DEF SumStep

\* The loop visits one more meeting: it is added to the sum, and it is left
\* only if the sum still fits.
LEMMA TrimKeepsCap ==
    ASSUME CapInv, OrderInv', NEW k \in Meetings, Trim(k)
    PROVE  CapInv'
<1>1. /\ cpc = "trim" /\ UNCHANGED <<cpc, listed>>
      /\ unvisited[k] > 0
      /\ unvisited' = [unvisited EXCEPT ![k] = @ - 1]
      /\ used' = used + Bytes[k]
    BY DEF Trim, IsNewest
<1>2. /\ \A m \in Meetings : unvisited[m] \in 0..2 /\ listed[m] \in 0..2
      /\ \A m \in Meetings : unvisited[m] <= listed[m]
      /\ used \in Nat /\ Bytes[k] \in Nat
    BY DEF CapInv, OrderInv, TypeOK, UnreadBefore
<1>3. \A m \in Meetings :
        unvisited'[m] = IF m = k THEN unvisited[k] - 1 ELSE unvisited[m]
    BY <1>1, <1>2 DEF CapInv, OrderInv, TypeOK
<1>4. Visited' = Visited \cup {k}
    BY <1>1, <1>2, <1>3 DEF Visited
<1>5. BytesOf(Visited)' <= used'
    <2>1. /\ Visited \in SUBSET Meetings /\ Visited' \in SUBSET Meetings
          /\ Visited' \ {k} \in SUBSET Visited
        BY <1>4 DEF Visited
    <2>2. /\ BytesOf(Visited') = Bytes[k] + BytesOf(Visited' \ {k})
          /\ BytesOf(Visited' \ {k}) <= BytesOf(Visited)
          /\ BytesOf(Visited) \in Nat /\ BytesOf(Visited' \ {k}) \in Nat
        BY <1>4, <2>1, SumRemoves, SumGrows, SumIsNatural
    <2>3. BytesOf(Visited) <= used
        BY <1>1 DEF CapInv, Looping
    <2>4. BytesOf(Visited') <= used'
        BY <1>1, <1>2, <2>2, <2>3
    <2>5. QED
        BY <2>4
<1>6. BytesOf(Left \cap Visited)' <= Cap
    <2>1. /\ (Left \cap Visited)' \in SUBSET Visited'
          /\ Visited' \in SUBSET Meetings
          /\ Left \cap Visited \in SUBSET Meetings
          /\ (Left \cap Visited)' \in SUBSET Meetings
        BY DEF Visited
    <2>2. /\ BytesOf((Left \cap Visited)') \in Nat
          /\ BytesOf(Visited') \in Nat
          /\ BytesOf(Left \cap Visited) \in Nat
        BY <2>1, SumIsNatural
    <2>3. CASE used' <= Cap
        <3>1. BytesOf((Left \cap Visited)') <= BytesOf(Visited')
            BY <2>1, SumGrows
        <3>2. used' \in Nat /\ Cap \in Nat
            BY <1>1, <1>2
        <3>3. QED
            BY <1>5, <2>2, <2>3, <3>1, <3>2
    <2>4. CASE ~(used' <= Cap)
        <3>1. /\ \A m \in Meetings :
                    cloud'[m] = "present" => cloud[m] = "present"
              /\ refused \subseteq refused'
              /\ cloud'[k] # "present" \/ k \in refused'
            BY <2>4
            DEF Trim, DeleteMeetingRecordings, DeleteAction, CapInv, OrderInv,
                TypeOK
        <3>2. (Left \cap Visited)' \in SUBSET (Left \cap Visited)
            BY <1>1, <1>4, <3>1 DEF Left, Present
        <3>3. BytesOf((Left \cap Visited)') <= BytesOf(Left \cap Visited)
            BY <2>1, <3>2, SumGrows
        <3>4. BytesOf(Left \cap Visited) <= Cap
            BY <1>1 DEF CapInv, Looping
        <3>5. QED
            BY <2>2, <3>3, <3>4
    <2>5. QED
        BY <2>3, <2>4
<1>7. QED
    BY <1>1, <1>5, <1>6 DEF CapInv

LEMMA StepCap ==
    ASSUME CapInv, OrderInv', [Next]_vars
    PROVE  CapInv'
<1>1. ASSUME NEW k \in Meetings, Trim(k) PROVE CapInv'
    BY <1>1, TrimKeepsCap
<1>2. CASE ListChunk \/ ListFails
    BY <1>2 DEF ListChunk, ListFails, CapInv, Looping
<1>3. CASE ListEnds
    <2>1. Visited' = {} /\ (Left \cap Visited)' = {} /\ used' = 0
        <3>1. \A m \in Meetings : listed[m] \in 0..2
            BY DEF CapInv, OrderInv, TypeOK
        <3>2. QED
            BY <1>3, <3>1 DEF ListEnds, CapInv, Visited
    <2>2. BytesOf(Visited') <= used' /\ BytesOf((Left \cap Visited)') <= Cap
        BY <2>1, NoBytes
    <2>3. QED
        BY <1>3, <2>2 DEF ListEnds, CapInv
<1>4. CASE TrimEnds \/ Interrupt
    BY <1>4 DEF TrimEnds, Interrupt, CapInv, Looping, Visited, Left, Present
<1>5. ASSUME NEW k \in Meetings, OthersDelete(k) PROVE CapInv'
    <2>1. UNCHANGED capVars /\ Left' \subseteq Left
        BY <1>5 DEF OthersDelete, Left, Present, CapInv, OrderInv, TypeOK
    <2>2. /\ (Left \cap Visited)' \in SUBSET (Left \cap Visited)
          /\ Left \cap Visited \in SUBSET Meetings
          /\ Visited' = Visited
        BY <2>1 DEF Visited
    <2>3. /\ BytesOf((Left \cap Visited)') <= BytesOf(Left \cap Visited)
          /\ BytesOf((Left \cap Visited)') \in Nat
          /\ BytesOf(Left \cap Visited) \in Nat
        BY <2>2, SumGrows, SumIsNatural
    <2>4. Looping => BytesOf((Left \cap Visited)') <= Cap
        BY <2>3 DEF CapInv
    <2>5. QED
        BY <2>1, <2>2, <2>4 DEF CapInv, Looping
<1>6. CASE UNCHANGED vars
    BY <1>6 DEF vars, CapInv, Looping, Visited, Left, Present
<1>7. QED
    BY <1>1, <1>2, <1>3, <1>4, <1>5, <1>6 DEF Next, CapStep

\* When cloudcap is done, what it has listed and not been refused fits in the
\* limit, for every account and every limit, although a meeting may be listed
\* twice and others remove meetings while it runs.
THEOREM FitsCapCorrect == Spec => []FitsCap
<1>1. Init => CapInv
    BY OrderInit DEF Init, CapInv, Looping
<1>2. Spec => []CapInv
    BY <1>1, OrderCorrect, StepCap, PTL DEF Spec
<1>3. CapInv => FitsCap
    <2> SUFFICES ASSUME CapInv, cpc = "done" PROVE BytesOf(Left) <= Cap
        BY DEF FitsCap
    <2>1. Left \cap Visited = Left
        <3>1. \A m \in Meetings : unvisited[m] = 0 /\ listed[m] \in 0..2
            BY DEF CapInv, OrderInv, TypeOK
        <3>2. QED
            BY <3>1 DEF Left, Present, Visited
    <2>2. QED
        BY <2>1 DEF CapInv, Looping
<1>4. QED
    BY <1>2, <1>3, PTL

-----------------------------------------------------------------------------
\* The end of the command.  CapEnds rests on the two facts below, which hold
\* for every value of the constants, and on the rule for weak fairness.

\* No meeting took place earlier.
LastDay == Max({0} \cup {DaysAgo[m] : m \in Meetings})

\* What the loop has yet to visit, one pair for each time it is listed.
Pending == {p \in Meetings \X {1, 2} : p[2] <= unvisited[p[1]]}

\* The work left: tries, the phase, and the chunks or the visits of the phase.
WorkLeft ==
    CASE cpc = "list" -> <<Tries - failed, 2, LastDay + 4 - chunk>>
      [] cpc = "trim" -> <<Tries - failed, 1, Cardinality(Pending)>>
      [] OTHER -> <<Tries - failed, 0, 0>>

\* The lexicographic order of triples.
IsLess(v, w) ==
    \/ v[1] < w[1]
    \/ v[1] = w[1] /\ v[2] < w[2]
    \/ v[1] = w[1] /\ v[2] = w[2] /\ v[3] < w[3]

\* No chunk behind the last day is listed after an empty one but the second
\* empty one.
ChunksBounded == cpc = "list" => chunk <= LastDay + 1 + empty

\* There is always a next step: the loop finds the meeting to visit.
HasNext ==
    cpc = "trim" => unvisited = Nothing \/ \E m \in Meetings : IsNewest(m)

\* Each step of the command leaves less work, and no step of others adds any.
Advances ==
    /\ CapStep => IsLess(WorkLeft', WorkLeft)
    /\ ~CapStep => WorkLeft' = WorkLeft \/ IsLess(WorkLeft', WorkLeft)

\* One more number does not leave a set without a greatest one.
LEMMA FurthestOfTwo ==
    ASSUME NEW D, D \subseteq Nat, NEW d \in D, \A e \in D : d >= e,
           NEW n \in Nat
    PROVE  \E f \in D \cup {n} : \A e \in D \cup {n} : f >= e
<1>1. CASE d >= n
    BY <1>1
<1>2. CASE ~(d >= n)
    BY <1>2
<1>3. QED
    BY <1>1, <1>2

LEMMA LastDayIsLast ==
    /\ LastDay \in Nat
    /\ \A m \in Meetings : DaysAgo[m] <= LastDay
<1> DEFINE Days(S) == {0} \cup {DaysAgo[m] : m \in S}
           Good == {S \in SUBSET Meetings :
                      \E d \in Days(S) : \A e \in Days(S) : d >= e}
<1>1. ASSUME NEW W \in SUBSET Meetings, \A V \in SUBSET W : V # W => V \in Good
      PROVE  W \in Good
    <2>1. CASE W = {}
        BY <2>1
    <2>2. CASE W # {}
        <3>1. PICK k \in W : TRUE
            BY <2>2
        <3> DEFINE D == Days(W \ {k})
        <3>2. \E d \in D : \A e \in D : d >= e
            BY <1>1
        <3>3. Days(W) = D \cup {DaysAgo[k]}
            OBVIOUS
        <3>4. DaysAgo[k] \in Nat /\ D \subseteq Nat
            OBVIOUS
        <3> HIDE DEF D
        <3>5. \E e \in D \cup {DaysAgo[k]} :
                \A f \in D \cup {DaysAgo[k]} : e >= f
            BY <3>2, <3>4, FurthestOfTwo
        <3>6. QED
            BY <3>3, <3>5
    <2>3. QED
        BY <2>1, <2>2
<1>2. SUBSET Meetings \subseteq Good
    <2> HIDE DEF Good
    <2> QED
        BY <1>1, SubsetInduction, AccountAssumption
<1>3. \E d \in Days(Meetings) : \A e \in Days(Meetings) : d >= e
    BY <1>2
<1>4. /\ LastDay \in Days(Meetings)
      /\ \A e \in Days(Meetings) : LastDay >= e
    BY <1>3 DEF LastDay, Max
<1>5. QED
    BY <1>4

\* There is a next meeting to visit as long as the list is not exhausted.
LEMMA NextToVisit ==
    ASSUME TypeOK, unvisited # Nothing
    PROVE  \E m \in Meetings : IsNewest(m)
<1> DEFINE Open(S) == {m \in S : unvisited[m] > 0}
           Good == {S \in SUBSET Meetings :
                      Open(S) # {} =>
                         \E m \in Open(S) :
                            \A n \in Open(S) : DaysAgo[m] <= DaysAgo[n]}
<1>1. ASSUME NEW W \in SUBSET Meetings, \A V \in SUBSET W : V # W => V \in Good
      PROVE  W \in Good
    <2> SUFFICES ASSUME Open(W) # {}
                 PROVE  \E m \in Open(W) :
                            \A n \in Open(W) : DaysAgo[m] <= DaysAgo[n]
        OBVIOUS
    <2>1. PICK k \in W : unvisited[k] > 0
        OBVIOUS
    <2>2. Open(W) = Open(W \ {k}) \cup {k} /\ Open(W) \subseteq Meetings
        BY <2>1
    <2>3. W \ {k} \in Good
        <3> HIDE DEF Good, Open
        <3>1. W \ {k} \in SUBSET W /\ W \ {k} # W
            OBVIOUS
        <3>2. QED
            BY <1>1, <3>1
    <2>4. CASE Open(W \ {k}) = {}
        BY <2>2, <2>4
    <2>5. CASE Open(W \ {k}) # {}
        <3>1. PICK m \in Open(W \ {k}) :
                \A n \in Open(W \ {k}) : DaysAgo[m] <= DaysAgo[n]
            BY <2>3, <2>5
        <3>2. /\ m \in Meetings /\ k \in Meetings
              /\ \A n \in Open(W) : DaysAgo[n] \in Nat
            OBVIOUS
        <3>3. DaysAgo[m] \in Nat /\ DaysAgo[k] \in Nat
            BY <3>2
        <3>4. k \in Open(W) /\ m \in Open(W)
            BY <2>2
        <3> HIDE DEF Open, Good
        <3>5. CASE DaysAgo[m] <= DaysAgo[k]
            BY <2>2, <3>1, <3>4, <3>5
        <3>6. CASE ~(DaysAgo[m] <= DaysAgo[k])
            <4>1. \A n \in Open(W \ {k}) : DaysAgo[n] \in Nat
                BY <2>2, <3>2
            <4>2. ASSUME NEW n \in Open(W) PROVE DaysAgo[k] <= DaysAgo[n]
                BY <2>2, <3>1, <3>3, <3>6, <4>1, <4>2
            <4>3. QED
                BY <3>4, <4>2
        <3>7. QED
            BY <3>5, <3>6
    <2>6. QED
        BY <2>4, <2>5
<1>2. SUBSET Meetings \subseteq Good
    <2> HIDE DEF Good
    <2> QED
        BY <1>1, SubsetInduction, AccountAssumption
<1>3. Open(Meetings) # {}
    BY DEF TypeOK
<1>4. PICK m \in Open(Meetings) :
        \A n \in Open(Meetings) : DaysAgo[m] <= DaysAgo[n]
    BY <1>2, <1>3
<1>5. QED
    BY <1>4 DEF IsNewest

LEMMA PendingIsFinite == IsFiniteSet(Pending) /\ Cardinality(Pending) \in Nat
<1>1. IsFiniteSet({1, 2})
    <2>1. IsFiniteSet({1}) /\ IsFiniteSet({2})
        BY FS_Singleton
    <2>2. IsFiniteSet({1} \cup {2})
        BY <2>1, FS_Union
    <2>3. {1} \cup {2} = {1, 2}
        OBVIOUS
    <2>4. QED
        BY <2>2, <2>3, Zenon
<1>2. IsFiniteSet(Meetings \X {1, 2})
    BY <1>1, AccountAssumption, FS_Product
<1>3. Pending \subseteq Meetings \X {1, 2}
    BY DEF Pending
<1>4. QED
    BY <1>2, <1>3, FS_Subset, FS_CardinalityType

LEMMA TrimVisits ==
    ASSUME TypeOK, NEW k \in Meetings, Trim(k)
    PROVE  Cardinality(Pending') < Cardinality(Pending)
<1>1. /\ unvisited \in [Meetings -> 0..2] /\ unvisited[k] > 0
      /\ unvisited' = [unvisited EXCEPT ![k] = @ - 1]
    BY DEF Trim, IsNewest, TypeOK
<1>2. unvisited[k] \in {1, 2}
    BY <1>1
<1>3. /\ <<k, unvisited[k]>> \in Pending
      /\ <<k, unvisited[k]>> \notin Pending'
      /\ Pending' \subseteq Pending
    BY <1>1, <1>2 DEF Pending
<1>4. Pending' \in SUBSET Pending /\ Pending' # Pending
    BY <1>3
<1>5. QED
    BY <1>4, PendingIsFinite, FS_Subset, FS_CardinalityType

EndInv == TypeOK /\ TriesLeft /\ ChunksBounded

LEMMA ChunkBehindLastDay ==
    ASSUME TypeOK, NEW m \in Meetings, InChunk(m, chunk)
    PROVE  chunk <= LastDay
<1>1. chunk \in Nat /\ ChunkDays \in Nat /\ ChunkDays >= 1
    BY DEF TypeOK
<1>2. chunk * ChunkDays >= chunk
    BY <1>1
<1>3. chunk * ChunkDays \in Nat /\ DaysAgo[m] \in Nat
    BY <1>1
<1>4. DaysAgo[m] >= chunk * ChunkDays
    BY <1>3 DEF InChunk
<1>5. QED
    BY <1>1, <1>2, <1>3, <1>4, LastDayIsLast

LEMMA StepEnd ==
    ASSUME EndInv, TypeOK', TriesLeft', [Next]_vars
    PROVE  EndInv'
<1>1. CASE ListChunk
    BY <1>1, ChunkBehindLastDay, LastDayIsLast
    DEF ListChunk, EndInv, ChunksBounded, TypeOK
<1>2. CASE ListFails
    BY <1>2, LastDayIsLast DEF ListFails, EndInv, ChunksBounded
<1>3. CASE ListEnds
    BY <1>3 DEF ListEnds, EndInv, ChunksBounded
<1>4. ASSUME NEW m \in Meetings, Trim(m) PROVE EndInv'
    BY <1>4 DEF Trim, EndInv, ChunksBounded
<1>5. CASE TrimEnds \/ Interrupt
    BY <1>5 DEF TrimEnds, Interrupt, EndInv, ChunksBounded
<1>6. ASSUME NEW m \in Meetings, OthersDelete(m) PROVE EndInv'
    BY <1>6 DEF OthersDelete, EndInv, ChunksBounded
<1>7. CASE UNCHANGED vars
    BY <1>7 DEF vars, EndInv, ChunksBounded
<1>8. QED
    BY <1>1, <1>2, <1>3, <1>4, <1>5, <1>6, <1>7 DEF Next, CapStep

LEMMA EndCorrect == Spec => []EndInv
<1>1. Init => EndInv
    BY LastDayIsLast
    DEF Init, FullCloud, EndInv, TypeOK, TriesLeft, ChunksBounded
<1>2. QED
    BY <1>1, TypesCorrect, StepEnd, PTL DEF Spec

LEMMA WorkIsNatural ==
    ASSUME EndInv
    PROVE  WorkLeft \in Nat \X Nat \X Nat
<1>1. Tries - failed \in Nat
    BY DEF EndInv, TypeOK
<1>2. Cardinality(Pending) \in Nat
    BY PendingIsFinite
<1>3. cpc = "list" => LastDay + 4 - chunk \in Nat
    BY LastDayIsLast DEF EndInv, TypeOK, ChunksBounded
<1> HIDE DEF Nothing
<1>4. QED
    BY <1>1, <1>2, <1>3 DEF WorkLeft

LEMMA StepAdvances ==
    ASSUME EndInv, EndInv', Next
    PROVE  Advances
<1> DEFINE Less == IsLess(WorkLeft', WorkLeft)
<1> USE DEF IsLess, EndInv, TypeOK
<1>1. ASSUME ListChunk PROVE Less
    BY <1>1, LastDayIsLast DEF ListChunk, WorkLeft, ChunksBounded
<1>2. ASSUME ListFails PROVE Less
    BY <1>2 DEF ListFails, WorkLeft
<1>3. ASSUME ListEnds PROVE Less
    BY <1>3 DEF ListEnds, WorkLeft
<1>4. ASSUME NEW m \in Meetings, Trim(m) PROVE Less
    <2>1. /\ cpc = "trim" /\ cpc' = "trim" /\ failed' = failed
        BY <1>4 DEF Trim
    <2>2. Cardinality(Pending') < Cardinality(Pending)
        BY <1>4, TrimVisits
    <2>3. QED
        BY <2>1, <2>2 DEF WorkLeft
<1>5. ASSUME TrimEnds \/ Interrupt PROVE Less
    BY <1>5 DEF TrimEnds, Interrupt, WorkLeft
<1>6. ASSUME NEW m \in Meetings, OthersDelete(m) PROVE WorkLeft' = WorkLeft
    BY <1>6 DEF OthersDelete, WorkLeft, Pending
<1> HIDE DEF Less
<1>7. CapStep \/ Interrupt => Less
    BY <1>1, <1>2, <1>3, <1>4, <1>5 DEF CapStep
<1>8. QED
    BY <1>6, <1>7 DEF Next, Advances, Less

\* The safety half of CapEnds, for every account and every number of tries:
\* the command always has a next step, each of its steps leaves less work in an
\* order without infinite descent, however listings fail, and neither the other
\* clients of the account nor a signal give it more to do.
THEOREM CapAdvances ==
    Spec => []HasNext /\ [](WorkLeft \in Nat \X Nat \X Nat) /\ [][Advances]_vars
<1>1. EndInv => HasNext
    BY NextToVisit DEF EndInv, HasNext
<1>2. EndInv => WorkLeft \in Nat \X Nat \X Nat
    BY WorkIsNatural
<1>3. EndInv /\ EndInv' /\ [Next]_vars => [Advances]_vars
    BY StepAdvances
<1>4. QED
    BY <1>1, <1>2, <1>3, EndCorrect, PTL DEF Spec

=============================================================================
