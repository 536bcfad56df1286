------------------------------ MODULE Account ------------------------------
(***************************************************************************)
(* The Zoom account that every part of the system is about.                *)
(***************************************************************************)
EXTENDS FiniteSets

CONSTANT
    Meetings    \* the meetings with cloud recordings

ASSUME AccountAssumption == IsFiniteSet(Meetings)

=============================================================================
