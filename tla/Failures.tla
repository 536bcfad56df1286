------------------------------ MODULE Failures ------------------------------
(***************************************************************************)
(* Which calls may return an error in a run, and how often the process may *)
(* stop.  An error of one kind leaves the other kinds alone:               *)
(*   "db"     a statement on the database fails                            *)
(*   "disk"   a call on the repository folder fails                        *)
(*   "net"    a transfer breaks in the middle                              *)
(*   "api"    Zoom turns a request down                                    *)
(*   "cloud"  somebody else removes recordings from Zoom                   *)
(***************************************************************************)
EXTENDS Naturals

CONSTANTS
    Faults,         \* the kinds of failure that happen
    MaxCrashes      \* bound: how often the process stops and restarts

FaultKinds == {"db", "disk", "net", "api", "cloud"}

ASSUME FailuresAssumption ==
    /\ Faults \subseteq FaultKinds
    /\ MaxCrashes \in Nat

MayFail(kind) == kind \in Faults

=============================================================================
