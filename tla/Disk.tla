-------------------------------- MODULE Disk --------------------------------
(***************************************************************************)
(* The drive that holds the repository folder.  A record has a folder of   *)
(* its own with one file in it (Record.Paths); only the size of that file  *)
(* matters here.  Nothing else on the drive grows.                         *)
(***************************************************************************)
EXTENDS Recordings, Integers, FiniteSetsExt

CONSTANTS
    Size,           \* the size of each record's file (Record.FileSize)
    Capacity,       \* bytes of the drive
    KeepFreeSpace   \* storage.keep_free_space

ASSUME DiskAssumption ==
    /\ Size \in [Records -> Nat \ {0}]
    /\ Capacity \in Nat
    /\ KeepFreeSpace \in Nat

VARIABLE file       \* bytes of each record on disk, 0 without a folder

DiskTypeOK == file \in [Records -> Nat]

EmptyDisk == file = [r \in Records |-> 0]

Used(f) == MapThenSumSet(LAMBDA r : f[r], Records)

Free == Capacity - Used(file)

EnoughFree == Free > KeepFreeSpace

IsFull(r) == file[r] = Size[r]

\* The drive has room for the rest of the file.
Fits(r) == Size[r] - file[r] <= Free

RemoveFolder(r) == file' = [file EXCEPT ![r] = 0]

=============================================================================
