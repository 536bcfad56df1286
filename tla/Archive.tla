------------------------------ MODULE Archive ------------------------------
(***************************************************************************)
(* What an instance promises about the recordings it looks after, without  *)
(* saying how: it obtains a copy of every wanted record at most once, may  *)
(* discard old copies, and lets Zoom remove a meeting only when it has had *)
(* a copy of every wanted record of that meeting.                          *)
(***************************************************************************)
EXTENDS Recordings

VARIABLES
    obtained,   \* the records a complete copy was made of
    local,      \* the records whose copy is still on disk
    released    \* the meetings removed from Zoom by this instance

archiveVars == <<obtained, local, released>>

Init ==
    /\ obtained = {}
    /\ local = {}
    /\ released = {}

Obtain(r) ==
    /\ r \notin obtained
    /\ MeetingOf[r] \notin released
    /\ obtained' = obtained \cup {r}
    /\ local' = local \cup {r}
    /\ UNCHANGED released

Discard(r) ==
    /\ r \in local
    /\ local' = local \ {r}
    /\ UNCHANGED <<obtained, released>>

Release(m) ==
    /\ Selected(m) \subseteq obtained
    /\ released' = released \cup {m}
    /\ UNCHANGED <<obtained, local>>

Next ==
    \/ \E r \in Records : Obtain(r) \/ Discard(r)
    \/ \E m \in Meetings : Release(m)

Spec == Init /\ [][Next]_archiveVars

=============================================================================
