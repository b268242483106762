-------------------------- MODULE MCEdsSupervisor --------------------------
(***************************************************************************)
(* Instance of EdsSupervisor for TLC: model values for the pids.           *)
(***************************************************************************)
EXTENDS EdsSupervisor, TLC

\* A service with two processes, as fc2 is, and one with a single process.
MCNProcs == <<2, 1>>
============================================================================
