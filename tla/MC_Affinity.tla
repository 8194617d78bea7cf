---------------------------- MODULE MC_Affinity -----------------------------
(***************************************************************************)
(* Instances of Affinity for TLC: two children, up to two or three threads *)
(* each, on a machine of six cores of which any may be forbidden.          *)
(***************************************************************************)
EXTENDS Affinity

=============================================================================
