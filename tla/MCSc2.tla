------------------------------- MODULE MCSc2 -------------------------------
(***************************************************************************)
(* Instance of Sc2 for TLC: model values for the pids.                     *)
(***************************************************************************)
EXTENDS Sc2
============================================================================
