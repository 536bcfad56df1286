-------------------------- MODULE MCSharedDownload --------------------------
(***************************************************************************)
(* Two processes, one meeting with two files of two and one bytes.         *)
(***************************************************************************)
EXTENDS SharedDownload

MCMeetings == {"m1"}

MCRecords == 1..2

MCMeetingOf == <<"m1", "m1">>

MCStartTime == <<1, 1>>

MCClass == <<"important", "optional">>

MCWorkers == {"w1", "w2"}

MCSize == <<2, 1>>

=============================================================================
