----------------------------- MODULE MCCleanup -----------------------------
(***************************************************************************)
(* A day of three meetings for TLC: "early" and "late" have one wanted     *)
(* file each, "brief" is too short to be saved.                            *)
(***************************************************************************)
EXTENDS Cleanup

MCMeetings == {"early", "late", "brief"}

MCRecords == 1..3

MCMeetingOf == <<"early", "late", "brief">>

MCStartTime == <<1, 2, 3>>

MCClass == <<"important", "alternative", "important">>

=============================================================================
