----------------------------- MODULE ZoomCloud -----------------------------
(***************************************************************************)
(* The recordings Zoom keeps, and the one call of client.go that changes   *)
(* them, DeleteMeetingRecordings.  Zoom removes the recordings of a        *)
(* meeting as a whole; a second removal answers 404, which the client      *)
(* takes for success.                                                      *)
(***************************************************************************)
EXTENDS Account

CONSTANTS
    DeleteDownloaded,   \* client.delete_downloaded
    TrashDownloaded,    \* client.trash_downloaded
    DeleteSkipped       \* client.delete_skipped

ASSUME ZoomCloudAssumption ==
    {DeleteDownloaded, TrashDownloaded, DeleteSkipped} \subseteq BOOLEAN

VARIABLE cloud          \* where Zoom keeps the recordings of each meeting

CloudTypeOK == cloud \in [Meetings -> {"present", "trash", "gone"}]

FullCloud == cloud = [m \in Meetings |-> "present"]

\* With all three options off the client refuses to delete anything.
MayDelete == DeleteDownloaded \/ TrashDownloaded \/ DeleteSkipped

\* Faulty variant: the action has no default.
DeleteActionUnset(delete) ==
    IF delete /\ DeleteDownloaded THEN "gone" ELSE ""

DeleteAction(delete) ==
    IF delete /\ DeleteDownloaded THEN "gone" ELSE "trash"

\* The call that succeeds.
DeleteMeetingRecordings(m, delete) ==
    /\ MayDelete
    /\ cloud' = [cloud EXCEPT ![m] =
                   IF @ = "present" THEN DeleteAction(delete) ELSE @]

=============================================================================
