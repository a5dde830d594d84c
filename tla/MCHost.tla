------------------------------- MODULE MCHost -------------------------------
(***************************************************************************)
(* Small instances of DaemonHost: one process, or two that race.           *)
(***************************************************************************)
EXTENDS DaemonHost

CONSTANTS a1, a2
=============================================================================
