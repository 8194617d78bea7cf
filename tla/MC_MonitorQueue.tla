--------------------------- MODULE MC_MonitorQueue ---------------------------
(***************************************************************************)
(* Instance of MonitorQueue for TLC; symmetry would be unsound for the     *)
(* liveness property, and is not needed.                                   *)
(***************************************************************************)
EXTENDS MonitorQueue

=============================================================================
