----------------------------- MODULE TrialPlan ------------------------------
(***************************************************************************)
(* create_batches of src/src/preprocess.c, which cuts the trials into the  *)
(* TaskBatches the pipeline processes.  trials is a long and batch_size an *)
(* int; the number of batches is computed in long and converted to int.    *)
(* Conversion and, in this build, signed overflow wrap around.             *)
(***************************************************************************)
EXTENDS Integers, Sequences, SequencesExt

CONSTANTS
  IntRange,   \* 2^32: the values of an int are -IntRange/2 .. IntRange/2 - 1
  LongRange   \* 2^64

IntMax  == IntRange \div 2 - 1
LongMax == LongRange \div 2 - 1

\* A long holds the product of two positive ints, and one int more.
ASSUME PlanAssumption ==
  /\ IntRange \in Nat /\ IntRange > 1 /\ IntRange % 2 = 0
  /\ LongRange \in Nat /\ LongRange % IntRange = 0
  /\ IntMax * IntMax + IntMax <= LongMax

\* x modulo range, as a signed number of that many values.
Wrap(x, range) == ((x + range \div 2) % range) - range \div 2

\* C's division truncates.
Quotient(a, b) == IF a >= 0 THEN a \div b ELSE -((-a) \div b)

VARIABLES
  trials, batchSize,  \* of the Config
  count,              \* the int
  batches,            \* [start_idx, end_idx] of those written so far
  plan                \* "count", "loop", "returned" or "none"

planVars == <<trials, batchSize, count, batches, plan>>

\* What config_validate accepts.
PlanInit ==
  /\ trials \in 1 .. LongMax
  /\ batchSize \in 1 .. IntMax
  /\ count = 0
  /\ batches = <<>>
  /\ plan = "count"

\* How many batches it takes.
BatchesNeeded == (trials + batchSize - 1) \div batchSize

\* Faulty: the division rounds down.
BatchCountDown == Wrap(Quotient(trials, batchSize), IntRange)

\* Faulty: the last batch is not cut.
BatchEndUncut(start) == Wrap(start + batchSize, LongRange)

BatchCount ==
  Wrap(Quotient(Wrap(trials + batchSize - 1, LongRange), batchSize), IntRange)

BatchStart(i) == i * batchSize

BatchEnd(start) ==
  LET end == Wrap(start + batchSize, LongRange)
  IN  IF end > trials THEN trials ELSE end

\* count and calloc; a negative count is an allocation no calloc grants.
CountBatches ==
  /\ plan = "count"
  /\ BatchCount >= 0
  /\ count' = BatchCount
  /\ plan' = "loop"
  /\ UNCHANGED <<trials, batchSize, batches>>

\* calloc fails: create_batches returns 0, and the pipeline -1.
NoBatches ==
  /\ plan = "count"
  /\ plan' = "none"
  /\ UNCHANGED <<trials, batchSize, count, batches>>

\* One turn of the loop.
WriteBatch ==
  /\ plan = "loop"
  /\ Len(batches) < count
  /\ LET start == BatchStart(Len(batches))
     IN  batches' = Append(batches, [start_idx |-> start, end_idx |-> BatchEnd(start)])
  /\ UNCHANGED <<trials, batchSize, count, plan>>

\* The end of the loop; run_pipeline_mode goes on only if there is a batch.
ReturnBatches ==
  /\ plan = "loop"
  /\ Len(batches) = count
  /\ plan' = IF count > 0 THEN "returned" ELSE "none"
  /\ UNCHANGED <<trials, batchSize, count, batches>>

PlanNext == CountBatches \/ NoBatches \/ WriteBatch \/ ReturnBatches

PlanSpec == PlanInit /\ [][PlanNext]_planVars

-----------------------------------------------------------------------------
(* Properties. *)

PlanTypeOK ==
  /\ trials \in 1 .. LongMax
  /\ batchSize \in 1 .. IntMax
  /\ count \in 0 .. IntMax
  /\ batches \in Seq([start_idx : 0 .. LongMax, end_idx : 0 .. LongMax])
  /\ plan \in {"count", "loop", "returned", "none"}

\* Whatever wraps around, the batches cut consecutive, non-empty pieces of at
\* most batch_size trials off the front of the trials: none is simulated twice
\* and none is out of range.
BatchesConsecutive ==
  \A k \in DOMAIN batches :
    LET b == batches[k] IN
    /\ b.start_idx = (IF k = 1 THEN 0 ELSE batches[k - 1].end_idx)
    /\ b.start_idx < b.end_idx
    /\ b.end_idx <= trials
    /\ b.end_idx - b.start_idx <= batchSize

AllBatched == batches # <<>> /\ Last(batches).end_idx = trials

\* As long as their number is an int, the batches returned cover all trials.
EnoughBatches ==
  plan = "returned" /\ BatchesNeeded <= IntMax => AllBatched

\* What the documents say of every mode: a run that does not fail simulates
\* the trials it was asked for ("valid=1").  The conversion of the number of
\* batches to int breaks it.
EveryTrialBatched == plan = "returned" => AllBatched

=============================================================================
