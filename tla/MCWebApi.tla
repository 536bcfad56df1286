------------------------------ MODULE MCWebApi ------------------------------
(***************************************************************************)
(* Two meetings with one video each, on a drive with room for one file     *)
(* beyond the reserve, and two requests at a time.                         *)
(***************************************************************************)
EXTENDS WebApi

MCMeetings == {"m1", "m2"}

MCRecords == 1..2

MCMeetingOf == <<"m1", "m2">>

MCStartTime == <<1, 2>>

MCClass == <<"important", "important">>

MCSize == <<2, 2>>

MCMeetingTime == [m \in MCMeetings |-> IF m = "m1" THEN 1 ELSE 2]

=============================================================================
