---------------------------- MODULE MC_TrialPlan ----------------------------
(***************************************************************************)
(* Instances of TrialPlan for TLC, with ints of 4 and longs of 7 bits: the *)
(* trials are up to 63 and the batches up to 7, or what 63 wraps to.       *)
(***************************************************************************)
EXTENDS TrialPlan

=============================================================================
