----------------------------- MODULE MCInstance -----------------------------
(***************************************************************************)
(* A small account for TLC.  "pair" has an important and an optional file  *)
(* and an alternative one that is left out; "other" has no file the        *)
(* configuration names; "short" is shorter than the minimum.               *)
(***************************************************************************)
EXTENDS Instance

MCMeetings == {"pair", "other", "short"}

MCRecords == 1..5

MCMeetingOf == <<"pair", "pair", "pair", "other", "short">>

MCStartTime == <<1, 1, 1, 2, 3>>

MCClass == <<"important", "optional", "alternative", "other", "important">>

MCSize == [r \in MCRecords |-> 2]

MCShort == {"short"}

=============================================================================
