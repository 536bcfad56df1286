----------------------------- MODULE MCCliSync -----------------------------
(***************************************************************************)
(* Two meetings of one wanted record each, for TLC.                        *)
(***************************************************************************)
EXTENDS CliSync

MCMeetings == {"m1", "m2"}

MCRecords == 1..2

MCMeetingOf == <<"m1", "m2">>

MCStartTime == <<1, 1>>

MCClass == <<"important", "alternative">>

MCSize == [r \in MCRecords |-> 2]

=============================================================================
