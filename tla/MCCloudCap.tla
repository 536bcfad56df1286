---------------------------- MODULE MCCloudCap ----------------------------
(***************************************************************************)
(* Six meetings for TLC, with chunks of two days: two of them on the day   *)
(* that chunks one and two share, one on the day chunks three and four     *)
(* share, and an empty chunk before the last meeting.                      *)
(***************************************************************************)
EXTENDS CloudCap

MCMeetings == {"a", "b", "c", "d", "e", "f"}

MCDaysAgo == [m \in MCMeetings |->
    CASE m = "a" -> 0
      [] m = "b" -> 2
      [] m = "c" -> 2
      [] m = "d" -> 3
      [] m = "e" -> 6
      [] m = "f" -> 11]

MCBytes == [m \in MCMeetings |-> IF m \in {"a", "d"} THEN 2 ELSE 1]

=============================================================================
