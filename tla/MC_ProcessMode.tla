--------------------------- MODULE MC_ProcessMode ---------------------------
(***************************************************************************)
(* Instances of ProcessMode for TLC.  A Result of two chunks on a pipe of  *)
(* two can be cut short and can fill the pipe.                             *)
(***************************************************************************)
EXTENDS ProcessMode

=============================================================================
