--------------------------- MODULE MCDownloadJob ---------------------------
(***************************************************************************)
(* A small account for TLC: meeting "m1" has an important and an optional  *)
(* file of the same start time and an alternative file that is therefore   *)
(* left out; "m2" has one alternative file, and one of another type.       *)
(***************************************************************************)
EXTENDS DownloadJob

MCMeetings == {"m1", "m2"}

MCRecords == 1..5

MCMeetingOf == <<"m1", "m1", "m2", "m1", "m2">>

MCStartTime == <<1, 1, 2, 1, 2>>

MCClass == <<"important", "optional", "alternative", "alternative", "other">>

\* Here "m2" comes first, so that the record that never downloads does, and
\* the recording of "m1" was paused: its files start at different times.
MCPaused == <<2, 3, 1, 2, 1>>

\* A transfer of two units can break in the middle.
MCSize == [r \in MCRecords |-> 2]

\* The last file of "m1" is larger: it may not fit although the reserve is free.
MCSizes == <<2, 3, 2, 2, 2>>

=============================================================================
