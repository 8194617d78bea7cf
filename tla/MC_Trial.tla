------------------------------ MODULE MC_Trial -------------------------------
(***************************************************************************)
(* Instance of Trial for TLC: an unsigned of six bits.                     *)
(***************************************************************************)
EXTENDS Trial, Bitwise

MCExclusiveOr(a, b) == a ^^ b

=============================================================================
