---------------------------- MODULE MC_Pipeline ----------------------------
(***************************************************************************)
(* Instances of Pipeline for TLC.  Workers are numbers, which main creates *)
(* and joins in order, so they are not interchangeable.                    *)
(***************************************************************************)
EXTENDS Pipeline

=============================================================================
