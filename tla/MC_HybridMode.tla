--------------------------- MODULE MC_HybridMode ----------------------------
(***************************************************************************)
(* Instances of HybridMode for TLC.                                        *)
(***************************************************************************)
EXTENDS HybridMode

=============================================================================
