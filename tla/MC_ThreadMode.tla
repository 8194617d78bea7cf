--------------------------- MODULE MC_ThreadMode ---------------------------
(***************************************************************************)
(* Instances of ThreadMode for TLC.  Two risk levels are enough: a trial   *)
(* that collides increments three counters, any other one two.  The        *)
(* collisions are spread so that threads meet on every counter.            *)
(***************************************************************************)
EXTENDS ThreadMode

MCRisk == [t \in Trials |-> IF t % 3 = 1 THEN "RISK_SAFE" ELSE "RISK_COLLISION"]

=============================================================================
