---------------------------- MODULE SimulationRun ----------------------------
(***************************************************************************)
(* What every run_*_mode function promises to main(), whatever threads,    *)
(* processes and queues it uses inside: the pieces of the work (batches,   *)
(* or the partitions of the trials) are added to *out one group after the  *)
(* other, none of them twice; the function returns 0 only when all of them *)
(* are in *out, and after it has returned *out does not change.  It may    *)
(* give up at any time and return nonzero.                                 *)
(***************************************************************************)
CONSTANT Pieces   \* the pieces the trials are divided into

VARIABLES
  accounted,      \* the pieces whose results are in *out
  status          \* "running", or what the function returned

vars == <<accounted, status>>

Init ==
  /\ accounted = {}
  /\ status = "running"

Account ==
  /\ status = "running"
  /\ \E new \in SUBSET (Pieces \ accounted) : accounted' = accounted \cup new
  /\ UNCHANGED status

Succeed ==
  /\ status = "running"
  /\ accounted = Pieces
  /\ status' = "ok"
  /\ UNCHANGED accounted

GiveUp ==
  /\ status = "running"
  /\ status' = "failed"
  /\ UNCHANGED accounted

Next == Account \/ Succeed \/ GiveUp

Spec == Init /\ [][Next]_vars

=============================================================================
