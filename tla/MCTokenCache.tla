---------------------------- MODULE MCTokenCache ----------------------------
(***************************************************************************)
(* The two jobs of a service and a request for the status page, for TLC.   *)
(***************************************************************************)
EXTENDS TokenCache

MCCallers == {"sync", "download", "status"}

=============================================================================
