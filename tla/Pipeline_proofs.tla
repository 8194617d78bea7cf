--------------------------- MODULE Pipeline_proofs ---------------------------
(***************************************************************************)
(* Proofs about Pipeline for any number of workers and batches and any     *)
(* queue size: whichever pthread_create fails, no batch is lost or handled *)
(* twice before the failure, *out has one writer, nothing is destroyed     *)
(* while a thread may use it, and the run keeps the promise of             *)
(* SimulationRun.  Threads and queues never form a circle of waits, and    *)
(* the steps left go down in every step.                                   *)
(***************************************************************************)
EXTENDS Pipeline, Partition_proofs, SequenceTheorems

\* run_pipeline_mode is past its last join, and no call has failed.
Through ==
  /\ main \in {"post", "cleanup", "ended"}
  /\ ~failed
  /\ main = "ended" => rc = 0

\* The objects exist from setup to cleanup, and main's loops stay in range.
MainInStep ==
  /\ main \notin {"setup", "cleanup", "ended"} => ready = Objects
  /\ main \in {"createWorkers", "joinWorkers"} => index \in Workers
  /\ main = "mergeFinal" => ~Interactive
  /\ main \in {"createAggregator", "abandonAggregator", "closeMerge",
               "joinAggregator"} => Interactive
  /\ main = "setup" => ~failed
  /\ main # "ended" => rc = 0
  /\ main = "abandonAggregator" => failed
  /\ main = "ended" /\ rc = 0 => ~failed

\* The preprocessor runs only between its creation and its join, and closes
\* the task queue behind the last batch.
PrepInStep ==
  /\ prep = "push" => main \in {"createWorkers", "joinPreprocessor"}
  /\ prep = "absent" <=> prepHandle = "garbage"
  /\ main \in {"setup", "createAggregator", "createPreprocessor"} =>
       prep = "absent"
  /\ prep = "absent" => fed = 0
  /\ prep = "exited" => tasksClosed /\ fed = NumBatches
  /\ tasksClosed => prep = "exited" \/ failed

\* main creates and joins the workers in order; one that has ended leaves a
\* closed and empty task queue behind.
WorkersInStep ==
  /\ \A w \in Workers :
       /\ handle[w] = "live" <=> worker[w] # "absent"
       /\ worker[w] \in {"run", "give"} => hold[w] \in Batches
       /\ worker[w] = "exited" => tasksClosed /\ tasks = <<>>
       /\ main \in {"setup", "createAggregator", "createPreprocessor",
                    "abandonAggregator"} => worker[w] = "absent"
       /\ main = "createWorkers" => (worker[w] = "absent" <=> w >= index)
       /\ main = "joinWorkers" /\ w < index =>
            worker[w] \in {"absent", "exited"}
       /\ main \in {"closeMerge", "joinAggregator", "mergeFinal", "post",
                    "cleanup", "ended"} => worker[w] \in {"absent", "exited"}
  /\ main \in {"joinPreprocessor", "joinWorkers", "closeMerge",
               "joinAggregator", "mergeFinal"} \/ Through =>
       failed \/ \A w \in Workers : worker[w] # "absent"

\* The aggregator exists in interactive mode only, between its creation and
\* its join; the merge queue is closed when no worker will use it again.
AggregatorInStep ==
  /\ ~Interactive => agg = "absent" /\ partials = <<>>
  /\ main \in {"setup", "createAggregator"} => agg = "absent"
  /\ main \in {"setup", "createAggregator", "createPreprocessor"} =>
       ~partialsClosed
  /\ agg \in {"collect", "merge"} =>
       main \in {"createPreprocessor", "abandonAggregator", "createWorkers",
                 "joinPreprocessor", "joinWorkers", "closeMerge",
                 "joinAggregator", "crashed"}
  /\ agg = "merge" => collected[Aggregator] \in Batches
  /\ agg = "exited" => partialsClosed /\ partials = <<>>
  /\ partialsClosed =>
       \A w \in Workers : worker[w] \in {"absent", "exited"}
  /\ main = "createWorkers" => ~partialsClosed
  /\ Interactive /\ Through => agg = "exited"

\* The workers that are at a label.
At(label) == {w \in Workers : worker[w] = label}

\* The counters account for what is on its way.
CountersInStep ==
  /\ pushes - pops = Len(tasks) + Len(partials)
  /\ processed + Len(tasks) + Cardinality(At("run")) <= fed
  /\ ~failed => processed + Len(tasks) + Cardinality(At("run")) = fed
  /\ ~failed /\ Interactive =>
       pushes + Cardinality(At("give")) = fed + processed
  /\ ~failed /\ ~Interactive => pushes = fed
  /\ ~Interactive => Len(finals) + Cardinality(At("give")) = processed

\* A batch that has not been fed yet is nowhere.
UnfedNowhere == \A b \in Batches : b >= fed => Copies(b) = 0

\* How often b is among the first n partials of final_partials.
CountUpTo(n, b) == Cardinality({k \in 1 .. n : finals[k] = b})

\* In final merge mode nothing is merged before the last join, and then one
\* partial after the other.
MergedInTurn ==
  ~Interactive =>
    /\ main \notin {"mergeFinal", "post", "cleanup", "ended"} =>
         \A b \in Batches : merged[b] = 0
    /\ main = "mergeFinal" =>
         /\ index \in 0 .. Len(finals)
         /\ \A b \in Batches : merged[b] = CountUpTo(index, b)
    /\ Through => \A b \in Batches : merged[b] = Count(finals, b)

\* What holds of the threads and queues, without counting.
Control ==
  /\ TypeOK
  /\ MainInStep
  /\ PrepInStep
  /\ WorkersInStep
  /\ AggregatorInStep

IInv ==
  /\ Control
  /\ CountersInStep
  /\ EachBatchOnce
  /\ UnfedNowhere
  /\ MergedInTurn

-----------------------------------------------------------------------------
(* The steps, without counting. *)

\* A loop index that is in range, and what is left of it after a turn.
LEMMA IndexRange ==
  /\ 0 \in 0 .. NumWorkers + NumBatches /\ 0 \in Workers
  /\ \A i \in Workers :
       /\ i \in 0 .. NumWorkers + NumBatches
       /\ i + 1 < NumWorkers => i + 1 \in Workers
  /\ \A i \in 0 .. NumBatches : i \in 0 .. NumWorkers + NumBatches
BY PipelineAssumption DEF Workers

\* final_partials has room for every batch that has been taken so far.
LEMMA FinalsFit ==
  ASSUME TypeOK, CountersInStep, ~Interactive
  PROVE  Len(finals) <= NumBatches
<1>1. IsFiniteSet(Workers)
  BY FS_Interval, PipelineAssumption DEF Workers
<1>2. IsFiniteSet(At("run")) /\ IsFiniteSet(At("give"))
  BY <1>1, FS_Subset DEF At
<1>3. Cardinality(At("run")) \in Nat /\ Cardinality(At("give")) \in Nat
  BY <1>2, FS_CardinalityType
<1>4. Len(tasks) \in Nat /\ Len(finals) \in Nat
  BY LenProperties DEF TypeOK
<1> QED
  BY <1>3, <1>4, PipelineAssumption DEF TypeOK, CountersInStep

\* The steps of the worker and of the aggregator leave main alone.
LEMMA WorkerKeeps ==
  ASSUME NEW w, WorkerStep(w)
  PROVE  UNCHANGED <<mergeMode, mainVars, prep, fed, agg, collected, merged,
                     tasksClosed, partialsClosed>>
<1> USE DEF FrameWorker, taskVars, mergeVars
<1>1. CASE WorkerTake(w)
  BY <1>1 DEF WorkerTake, TaskQueue!Deliver
<1>2. CASE WorkerLeave(w)
  BY <1>2 DEF WorkerLeave, TaskQueue!Drain
<1>3. CASE WorkerRun(w)
  BY <1>3 DEF WorkerRun
<1>4. CASE WorkerGive(w)
  BY <1>4 DEF WorkerGive, MergeQueue!Accept
<1>5. CASE WorkerAppend(w)
  BY <1>5 DEF WorkerAppend
<1> QED
  BY <1>1, <1>2, <1>3, <1>4, <1>5 DEF WorkerStep

LEMMA AggregatorKeeps ==
  ASSUME AggregatorStep
  PROVE  UNCHANGED <<mergeMode, mainVars, prep, fed, worker, hold, taskVars,
                     finals, pushes, processed>>
<1>1. CASE AggregatorTake
  BY <1>1 DEF AggregatorTake, FrameAgg
<1>2. CASE AggregatorMerge
  BY <1>2 DEF AggregatorMerge, FrameAgg
<1>3. CASE AggregatorLeave
  BY <1>3 DEF AggregatorLeave, FrameAgg
<1> QED
  BY <1>1, <1>2, <1>3 DEF AggregatorStep

\* A step of main that joins: it waits, and then goes on, to the next worker
\* or to the next label, or crashes.
LEMMA JoinPreprocessorEffect ==
  ASSUME MainJoinPreprocessor
  PROVE  /\ prepHandle = "live" => prep = "exited"
         /\ main = "joinPreprocessor"
         /\ UNCHANGED <<mergeMode, failed, rc, ready, prepHandle, handle,
                        threads, taskVars, mergeVars, finals, merged, counters>>
         /\ \/ main' = "joinWorkers" /\ index' = 0
            \/ /\ main' = "crashed" /\ index' = index
               /\ prepHandle = "garbage"
BY DEF MainJoinPreprocessor, MainGoto, JoinUndefined

LEMMA JoinWorkerEffect ==
  ASSUME TypeOK, MainJoinWorker
  PROVE  /\ handle[index] = "live" => worker[index] = "exited"
         /\ main = "joinWorkers"
         /\ UNCHANGED <<mergeMode, failed, rc, ready, prepHandle, handle,
                        threads, taskVars, mergeVars, finals, merged, counters>>
         /\ \/ main' = "joinWorkers" /\ index' = index + 1 /\ index' < NumWorkers
            \/ /\ main' = IF Interactive THEN "closeMerge" ELSE "mergeFinal"
               /\ index' = 0 /\ index + 1 >= NumWorkers
            \/ main' = "crashed" /\ index' = index
BY PipelineAssumption DEF TypeOK, MainJoinWorker, MainGoto, JoinUndefined

\* A step keeps the types.
LEMMA TypeStep == IInv /\ [Next]_vars => TypeOK'
<1> SUFFICES ASSUME IInv, [Next]_vars PROVE TypeOK'
  OBVIOUS
<1>0. TypeOK /\ MainInStep /\ WorkersInStep /\ AggregatorInStep
  BY DEF IInv, Control
<1> USE <1>0, PipelineAssumption, IndexRange
    DEF mainVars, taskVars, mergeVars, counters, threads
<1>1. CASE PrepPush
  <2>1. fed \in Batches /\ fed + 1 \in 0 .. NumBatches /\ pushes + 1 \in Nat
    BY <1>1 DEF PrepPush, TypeOK, Batches
  <2>2. Append(tasks, fed) \in Seq(Batches)
    BY <2>1, AppendProperties DEF TypeOK
  <2>3. /\ tasks' \in Seq(Batches) /\ tasksClosed' \in BOOLEAN
        /\ pushes' \in Nat
    BY <1>1, <2>1, <2>2 DEF PrepPush, TaskQueue!Accept, TypeOK
  <2> QED
    BY <1>1, <2>1, <2>3 DEF PrepPush, FramePrep, TypeOK
<1>2. CASE PrepClose
  BY <1>2 DEF PrepClose, FramePrep, TaskQueue!Close, TypeOK
<1>3. ASSUME NEW w \in Workers, WorkerTake(w) PROVE TypeOK'
  <2>1. Head(tasks) \in Batches /\ Tail(tasks) \in Seq(Batches)
    BY <1>3, HeadTailProperties DEF WorkerTake, TaskQueue!Deliver, TypeOK
  <2>2. hold' \in [Workers -> Batches \cup {NoBatch}]
    BY <1>3, <2>1 DEF WorkerTake, TaskQueue!Deliver, TypeOK
  <2>3. worker' \in [Workers -> {"absent", "take", "run", "give", "exited"}]
    BY <1>3 DEF WorkerTake, WorkerGoto, TypeOK
  <2> QED
    BY <1>3, <2>1, <2>2, <2>3
       DEF WorkerTake, FrameWorker, TaskQueue!Deliver, TypeOK
<1>4. ASSUME NEW w \in Workers, WorkerLeave(w) PROVE TypeOK'
  BY <1>4 DEF WorkerLeave, WorkerGoto, FrameWorker, TaskQueue!Drain, TypeOK
<1>5. ASSUME NEW w \in Workers, WorkerRun(w) PROVE TypeOK'
  BY <1>5 DEF WorkerRun, WorkerGoto, FrameWorker, TypeOK
<1>6. ASSUME NEW w \in Workers, WorkerGive(w) PROVE TypeOK'
  <2>1. hold[w] \in Batches /\ pushes + 1 \in Nat
    BY <1>6 DEF WorkerGive, WorkersInStep, TypeOK
  <2>2. Append(partials, hold[w]) \in Seq(Batches)
    BY <2>1, AppendProperties DEF TypeOK
  <2>3. worker' \in [Workers -> {"absent", "take", "run", "give", "exited"}]
    BY <1>6 DEF WorkerGive, WorkerGoto, TypeOK
  <2>4. /\ partials' \in Seq(Batches) /\ partialsClosed' \in BOOLEAN
        /\ pushes' \in Nat
    BY <1>6, <2>1, <2>2 DEF WorkerGive, MergeQueue!Accept, TypeOK
  <2> QED
    BY <1>6, <2>3, <2>4 DEF WorkerGive, FrameWorker, TypeOK
<1>7. ASSUME NEW w \in Workers, WorkerAppend(w) PROVE TypeOK'
  <2>1. hold[w] \in Batches
    BY <1>7 DEF WorkerAppend, WorkersInStep
  <2>2. Append(finals, hold[w]) \in Seq(Batches)
    BY <2>1, AppendProperties DEF TypeOK
  <2> QED
    BY <1>7, <2>2 DEF WorkerAppend, WorkerGoto, FrameWorker, TypeOK
<1>8. CASE AggregatorTake
  <2>1. Head(partials) \in Batches /\ Tail(partials) \in Seq(Batches)
    BY <1>8, HeadTailProperties
       DEF AggregatorTake, MergeQueue!Deliver, TypeOK
  <2>2. collected' \in [{Aggregator} -> Batches \cup {NoBatch}]
    BY <1>8, <2>1 DEF AggregatorTake, MergeQueue!Deliver, TypeOK
  <2> QED
    BY <1>8, <2>1, <2>2
       DEF AggregatorTake, FrameAgg, MergeQueue!Deliver, TypeOK
<1>9. CASE AggregatorMerge
  <2>1. merged' \in [Batches -> Nat]
    BY <1>9 DEF AggregatorMerge, AggregatorInStep, TypeOK
  <2> QED
    BY <1>9, <2>1 DEF AggregatorMerge, FrameAgg, TypeOK
<1>10. CASE AggregatorLeave
  BY <1>10 DEF AggregatorLeave, FrameAgg, MergeQueue!Drain, TypeOK
<1>11. CASE MainNoBatches \/ MainCleanup
  BY SMTT(30), <1>11 DEF MainNoBatches, MainCleanup, MainGoto, TypeOK
<1>12. CASE MainSetup
  <2>1. /\ main' \in {"cleanup", "createAggregator", "createPreprocessor"}
        /\ index' = 0 /\ ready' \subseteq Objects /\ failed' \in BOOLEAN
    BY <1>12 DEF MainSetup, MainGoto, Objects
  <2> QED
    BY <1>12, <2>1 DEF MainSetup, TypeOK
<1>13. CASE MainCreateAggregator
  <2>1. /\ main' \in {"cleanup", "createPreprocessor"} /\ index' = 0
        /\ agg' \in {"absent", "collect", "merge", "exited"}
        /\ failed' \in BOOLEAN
    BY <1>13 DEF MainCreateAggregator, MainGoto, TypeOK
  <2> QED
    BY <1>13, <2>1 DEF MainCreateAggregator, TypeOK
<1>14. CASE MainCreatePreprocessor
  BY <1>14 DEF MainCreatePreprocessor, MainGoto, TypeOK
<1>15. CASE MainNoPreprocessor
  <2>1. /\ main' \in {"abandonAggregator", "createWorkers"} /\ index' = 0
        /\ failed' \in BOOLEAN /\ partialsClosed' \in BOOLEAN
        /\ UNCHANGED <<partials, collected>>
    BY <1>15 DEF MainNoPreprocessor, MainGoto, MergeQueue!Close, TypeOK
  <2> QED
    BY <1>15, <2>1 DEF MainNoPreprocessor, TypeOK
<1>16. CASE MainAbandonAggregator \/ MainJoinAggregator \/ MainPost
  BY SMTT(30), <1>16 DEF MainAbandonAggregator, MainJoinAggregator, MainPost, MainGoto,
               TypeOK
<1>17. CASE MainCreateWorker
  <2>1. index \in Workers
    BY <1>17 DEF MainCreateWorker, MainInStep
  <2>2. /\ main' \in {"createWorkers", "joinPreprocessor"}
        /\ index' \in 0 .. NumWorkers + NumBatches
    BY <1>17, <2>1 DEF MainCreateWorker, MainGoto
  <2>3. /\ worker' \in [Workers -> {"absent", "take", "run", "give", "exited"}]
        /\ handle' \in [Workers -> {"null", "live", "stale"}]
    BY <1>17 DEF MainCreateWorker, TypeOK
  <2> QED
    BY <1>17, <2>2, <2>3 DEF MainCreateWorker, TypeOK
<1>18. CASE MainNoWorker
  <2>1. PICK h \in {"null", "stale"} : handle' = [handle EXCEPT ![index] = h]
    BY <1>18 DEF MainNoWorker
  <2>2. handle' \in [Workers -> {"null", "live", "stale"}]
    BY <2>1 DEF TypeOK
  <2>3. main' = "joinPreprocessor" /\ failed' = TRUE /\ tasksClosed' = TRUE
    BY <1>18 DEF MainNoWorker, MainGoto, TaskQueue!Close
  <2> QED
    BY <1>18, <2>2, <2>3 DEF MainNoWorker, MainGoto, TaskQueue!Close, TypeOK
<1>19. CASE MainJoinPreprocessor
  BY SMTT(30), <1>19 DEF MainJoinPreprocessor, MainGoto, JoinUndefined, TypeOK
<1>20. CASE MainJoinWorker
  <2>1. index \in Workers
    BY <1>20 DEF MainJoinWorker, MainInStep
  <2>2. /\ main' \in {"joinWorkers", "closeMerge", "mergeFinal", "crashed"}
        /\ index' \in 0 .. NumWorkers + NumBatches
    BY <1>20, <2>1 DEF MainJoinWorker, MainGoto, JoinUndefined
  <2> QED
    BY SMTT(30), <1>20, <2>2 DEF MainJoinWorker, JoinUndefined, TypeOK
<1>21. CASE MainCloseMerge
  BY <1>21 DEF MainCloseMerge, MainGoto, MergeQueue!Close, TypeOK
<1>22. CASE MainMergeFinal
  <2>1. ~Interactive
    BY <1>22 DEF MainMergeFinal, MainInStep
  <2>2. index' \in 0 .. NumBatches /\ main' \in {"mergeFinal", "post"}
    <3>1. index \in Nat /\ Len(finals) \in Nat /\ Len(finals) <= NumBatches
      BY <2>1, FinalsFit, LenProperties DEF TypeOK, IInv
    <3> QED
      BY <1>22, <3>1 DEF MainMergeFinal, MainGoto
  <2>3. merged' \in [Batches -> Nat]
    <3>1. CASE index < Len(finals)
      <4>1. finals[index + 1] \in Batches
        BY <3>1, ElementOfSeq, LenProperties DEF TypeOK
      <4>2. merged[finals[index + 1]] + 1 \in Nat
        BY <4>1 DEF TypeOK
      <4> QED
        BY <1>22, <3>1, <4>1, <4>2 DEF MainMergeFinal, TypeOK
    <3>2. CASE ~(index < Len(finals))
      BY <1>22, <3>2 DEF MainMergeFinal, TypeOK
    <3> QED
      BY <3>1, <3>2
  <2> QED
    BY SMTT(30), <1>22, <2>2, <2>3 DEF MainMergeFinal, TypeOK
<1>23. CASE UNCHANGED vars
  BY <1>23 DEF vars, TypeOK
<1> QED
  BY <1>1, <1>2, <1>3, <1>4, <1>5, <1>6, <1>7, <1>8, <1>9, <1>10, <1>11, <1>12,
     <1>13, <1>14, <1>15, <1>16, <1>17, <1>18, <1>19, <1>20, <1>21, <1>22,
     <1>23
     DEF Next, PrepStep, WorkerStep, AggregatorStep, MainStep

\* A step keeps MainInStep.
LEMMA MainInStepStep == IInv /\ [Next]_vars => MainInStep'
<1> SUFFICES ASSUME IInv, [Next]_vars PROVE MainInStep'
  OBVIOUS
<1>0. TypeOK /\ MainInStep
  BY DEF IInv, Control
<1> USE <1>0, PipelineAssumption
    DEF mainVars, taskVars, mergeVars, counters, threads
<1>1. CASE PrepPush \/ PrepClose
  BY SMTT(30), <1>1 DEF PrepPush, FramePrep, TaskQueue!Accept, PrepClose,
     TaskQueue!Close, TypeOK, MainInStep, Interactive, Workers
<1>2. ASSUME NEW w \in Workers, WorkerStep(w) PROVE MainInStep'
  BY <1>2, WorkerKeeps DEF TypeOK, MainInStep, Interactive, Workers
<1>3. CASE AggregatorStep
  BY <1>3, AggregatorKeeps DEF TypeOK, MainInStep, Interactive, Workers
<1>4. CASE MainNoBatches
  BY <1>4 DEF MainNoBatches, MainGoto, TypeOK, MainInStep, Interactive,
     Workers
<1>5. CASE MainSetup
  BY <1>5 DEF MainSetup, MainGoto, TypeOK, MainInStep, Interactive, Workers
<1>6. CASE MainCreateAggregator \/ MainCreatePreprocessor \/
   MainNoPreprocessor
  BY <1>6 DEF MainCreateAggregator, MainGoto, MainCreatePreprocessor,
     MainNoPreprocessor, MergeQueue!Close, TypeOK, MainInStep, Interactive,
     Workers
<1>7. CASE MainAbandonAggregator
  BY <1>7 DEF MainAbandonAggregator, MainGoto, TypeOK, MainInStep,
     Interactive, Workers
<1>8. CASE MainCreateWorker
  BY <1>8 DEF MainCreateWorker, MainGoto, TypeOK, MainInStep, Interactive,
     Workers
<1>9. CASE MainNoWorker
  BY <1>9 DEF MainNoWorker, MainGoto, TaskQueue!Close, TypeOK, MainInStep,
     Interactive, Workers
<1>10. CASE MainJoinPreprocessor
  BY <1>10, JoinPreprocessorEffect DEF TypeOK,
     MainInStep, Interactive, Workers
<1>11. CASE MainJoinWorker
  <2> USE <1>11, JoinWorkerEffect
      DEF TypeOK, MainInStep, Interactive, Workers
  <2>1. index \in Workers
    OBVIOUS
  <2>2. CASE main' = "joinWorkers"
    BY SMTT(30), <2>1, <2>2
  <2>3. CASE main' \in {"closeMerge", "mergeFinal"}
    BY <2>1, <2>3
  <2>4. CASE main' = "crashed"
    BY <2>4
  <2> QED
    BY <2>2, <2>3, <2>4
<1>12. CASE MainCloseMerge
  BY <1>12 DEF MainCloseMerge, MainGoto, MergeQueue!Close, TypeOK,
     MainInStep, Interactive, Workers
<1>13. CASE MainJoinAggregator
  BY <1>13 DEF MainJoinAggregator, MainGoto, TypeOK, MainInStep,
     Interactive, Workers
<1>14. CASE MainMergeFinal
  BY <1>14 DEF MainMergeFinal, MainGoto, TypeOK, MainInStep, Interactive,
     Workers
<1>15. CASE MainPost
  BY <1>15 DEF MainPost, MainGoto, TypeOK, MainInStep, Interactive, Workers
<1>16. CASE MainCleanup
  BY <1>16 DEF MainCleanup, MainGoto, TypeOK, MainInStep, Interactive,
     Workers
<1>17. CASE UNCHANGED vars
  BY <1>17 DEF vars, TypeOK, MainInStep, Interactive, Workers
<1> QED
  BY <1>1, <1>2, <1>3, <1>4, <1>5, <1>6, <1>7, <1>8, <1>9, <1>10, <1>11,
     <1>12, <1>13, <1>14, <1>15, <1>16, <1>17
     DEF Next, PrepStep, WorkerStep, AggregatorStep, MainStep

\* A step keeps PrepInStep.
LEMMA PrepInStepStep == IInv /\ [Next]_vars => PrepInStep'
<1> SUFFICES ASSUME IInv, [Next]_vars PROVE PrepInStep'
  OBVIOUS
<1>0. TypeOK /\ MainInStep /\ PrepInStep
  BY DEF IInv, Control
<1> USE <1>0, PipelineAssumption
    DEF mainVars, taskVars, mergeVars, counters, threads
<1>1. CASE PrepPush
  BY <1>1 DEF PrepPush, FramePrep, TaskQueue!Accept, TypeOK, MainInStep,
     PrepInStep
<1>2. CASE PrepClose
  BY <1>2 DEF PrepClose, FramePrep, TaskQueue!Close, TypeOK, MainInStep,
     PrepInStep
<1>3. ASSUME NEW w \in Workers, WorkerStep(w) PROVE PrepInStep'
  BY <1>3, WorkerKeeps DEF TypeOK, MainInStep, PrepInStep
<1>4. CASE AggregatorStep
  BY <1>4, AggregatorKeeps DEF TypeOK, MainInStep, PrepInStep
<1>5. CASE MainNoBatches
  BY <1>5 DEF MainNoBatches, MainGoto, TypeOK, MainInStep, PrepInStep
<1>6. CASE MainSetup
  BY <1>6 DEF MainSetup, MainGoto, TypeOK, MainInStep, PrepInStep
<1>7. CASE MainCreateAggregator
  BY <1>7 DEF MainCreateAggregator, MainGoto, TypeOK, MainInStep, PrepInStep
<1>8. CASE MainCreatePreprocessor
  BY <1>8 DEF MainCreatePreprocessor, MainGoto, TypeOK, MainInStep,
     PrepInStep
<1>9. CASE MainNoPreprocessor
  BY <1>9 DEF MainNoPreprocessor, MainGoto, MergeQueue!Close, TypeOK,
     MainInStep, PrepInStep
<1>10. CASE MainAbandonAggregator
  BY <1>10 DEF MainAbandonAggregator, MainGoto, TypeOK, MainInStep,
     PrepInStep
<1>11. CASE MainCreateWorker
  BY <1>11 DEF MainCreateWorker, MainGoto, TypeOK, MainInStep, PrepInStep
<1>12. CASE MainNoWorker
  BY <1>12 DEF MainNoWorker, MainGoto, TaskQueue!Close, TypeOK, MainInStep,
     PrepInStep
<1>13. CASE MainJoinPreprocessor
  BY <1>13, JoinPreprocessorEffect DEF TypeOK,
     MainInStep, PrepInStep
<1>14. CASE MainJoinWorker
  BY SMTT(30), <1>14, JoinWorkerEffect DEF TypeOK, MainInStep,
     PrepInStep
<1>15. CASE MainCloseMerge
  BY <1>15 DEF MainCloseMerge, MainGoto, MergeQueue!Close, TypeOK,
     MainInStep, PrepInStep
<1>16. CASE MainJoinAggregator
  BY <1>16 DEF MainJoinAggregator, MainGoto, TypeOK, MainInStep, PrepInStep
<1>17. CASE MainMergeFinal
  BY <1>17 DEF MainMergeFinal, MainGoto, TypeOK, MainInStep, PrepInStep
<1>18. CASE MainPost
  BY <1>18 DEF MainPost, MainGoto, TypeOK, MainInStep, PrepInStep
<1>19. CASE MainCleanup
  BY <1>19 DEF MainCleanup, MainGoto, TypeOK, MainInStep, PrepInStep
<1>20. CASE UNCHANGED vars
  BY <1>20 DEF vars, TypeOK, MainInStep, PrepInStep
<1> QED
  BY <1>1, <1>2, <1>3, <1>4, <1>5, <1>6, <1>7, <1>8, <1>9, <1>10, <1>11,
     <1>12, <1>13, <1>14, <1>15, <1>16, <1>17, <1>18, <1>19, <1>20
     DEF Next, PrepStep, WorkerStep, AggregatorStep, MainStep

\* A step keeps WorkersInStep.
LEMMA WorkersInStepStep == IInv /\ [Next]_vars => WorkersInStep'
<1> SUFFICES ASSUME IInv, [Next]_vars PROVE WorkersInStep'
  OBVIOUS
<1>0. TypeOK /\ MainInStep /\ PrepInStep /\ WorkersInStep
  BY DEF IInv, Control
<1> USE <1>0, PipelineAssumption
    DEF mainVars, taskVars, mergeVars, counters, threads
<1>1. CASE PrepPush
  BY <1>1 DEF PrepPush, FramePrep, TaskQueue!Accept, TypeOK, MainInStep,
     PrepInStep, WorkersInStep, Through, Workers
<1>2. CASE PrepClose
  BY <1>2 DEF PrepClose, FramePrep, TaskQueue!Close, TypeOK, MainInStep,
     PrepInStep, WorkersInStep, Through, Workers
<1>3. ASSUME NEW w \in Workers, WorkerTake(w) PROVE WorkersInStep'
  BY <1>3 DEF WorkerTake, WorkerGoto, FrameWorker, TaskQueue!Deliver,
     TypeOK, MainInStep, PrepInStep, WorkersInStep, Through, Workers
<1>4. ASSUME NEW w \in Workers, WorkerLeave(w) PROVE WorkersInStep'
  BY <1>4 DEF WorkerLeave, WorkerGoto, FrameWorker, TaskQueue!Drain, TypeOK,
     MainInStep, PrepInStep, WorkersInStep, Through, Workers
<1>5. ASSUME NEW w \in Workers, WorkerRun(w) PROVE WorkersInStep'
  BY <1>5 DEF WorkerRun, WorkerGoto, FrameWorker, TypeOK, MainInStep,
     PrepInStep, WorkersInStep, Through, Workers
<1>6. ASSUME NEW w \in Workers, WorkerGive(w) PROVE WorkersInStep'
  BY <1>6 DEF WorkerGive, WorkerGoto, FrameWorker, MergeQueue!Accept,
     TypeOK, MainInStep, PrepInStep, WorkersInStep, Through, Workers
<1>7. ASSUME NEW w \in Workers, WorkerAppend(w) PROVE WorkersInStep'
  BY <1>7 DEF WorkerAppend, WorkerGoto, FrameWorker, TypeOK, MainInStep,
     PrepInStep, WorkersInStep, Through, Workers
<1>8. CASE AggregatorStep
  BY <1>8, AggregatorKeeps DEF TypeOK, MainInStep, PrepInStep, WorkersInStep, Through, Workers
<1>9. CASE MainNoBatches
  BY <1>9 DEF MainNoBatches, MainGoto, TypeOK, MainInStep, PrepInStep,
     WorkersInStep, Through, Workers
<1>10. CASE MainSetup
  BY <1>10 DEF MainSetup, MainGoto, TypeOK, MainInStep, PrepInStep,
     WorkersInStep, Through, Workers
<1>11. CASE MainCreateAggregator
  BY <1>11 DEF MainCreateAggregator, MainGoto, TypeOK, MainInStep,
     PrepInStep, WorkersInStep, Through, Workers
<1>12. CASE MainCreatePreprocessor
  BY <1>12 DEF MainCreatePreprocessor, MainGoto, TypeOK, MainInStep,
     PrepInStep, WorkersInStep, Through, Workers
<1>13. CASE MainNoPreprocessor
  BY <1>13 DEF MainNoPreprocessor, MainGoto, MergeQueue!Close, TypeOK,
     MainInStep, PrepInStep, WorkersInStep, Through, Workers
<1>14. CASE MainAbandonAggregator
  BY <1>14 DEF MainAbandonAggregator, MainGoto, TypeOK, MainInStep,
     PrepInStep, WorkersInStep, Through, Workers
<1>15. CASE MainCreateWorker
  BY <1>15 DEF MainCreateWorker, MainGoto, TypeOK, MainInStep, PrepInStep,
     WorkersInStep, Through, Workers
<1>16. CASE MainNoWorker
  BY <1>16 DEF MainNoWorker, MainGoto, TaskQueue!Close, TypeOK, MainInStep,
     PrepInStep, WorkersInStep, Through, Workers
<1>17. CASE MainJoinPreprocessor
  BY SMTT(30), <1>17, JoinPreprocessorEffect DEF TypeOK,
     MainInStep, PrepInStep, WorkersInStep, Through, Workers
<1>18. CASE MainJoinWorker
  <2> USE <1>18, JoinWorkerEffect
      DEF TypeOK, MainInStep, PrepInStep, WorkersInStep, Through, Workers
  <2>1. index \in Workers /\ worker[index] \in {"absent", "exited"}
    OBVIOUS
  <2>2. \A w \in Workers : w < index + 1 => w < index \/ w = index
    OBVIOUS
  <2>3. CASE main' = "joinWorkers"
    BY <2>1, <2>2, <2>3
  <2>4. CASE main' \in {"closeMerge", "mergeFinal"}
    <3>1. \A w \in Workers : worker[w] \in {"absent", "exited"}
      BY SMTT(30), <2>1, <2>2, <2>4
    <3> QED
      BY <2>4, <3>1
  <2>5. CASE main' = "crashed"
    BY <2>5
  <2> QED
    BY <2>3, <2>4, <2>5
<1>19. CASE MainCloseMerge
  BY <1>19 DEF MainCloseMerge, MainGoto, MergeQueue!Close, TypeOK,
     MainInStep, PrepInStep, WorkersInStep, Through, Workers
<1>20. CASE MainJoinAggregator
  BY <1>20 DEF MainJoinAggregator, MainGoto, TypeOK, MainInStep, PrepInStep,
     WorkersInStep, Through, Workers
<1>21. CASE MainMergeFinal
  BY <1>21 DEF MainMergeFinal, MainGoto, TypeOK, MainInStep, PrepInStep,
     WorkersInStep, Through, Workers
<1>22. CASE MainPost
  BY <1>22 DEF MainPost, MainGoto, TypeOK, MainInStep, PrepInStep,
     WorkersInStep, Through, Workers
<1>23. CASE MainCleanup
  BY <1>23 DEF MainCleanup, MainGoto, TypeOK, MainInStep, PrepInStep,
     WorkersInStep, Through, Workers
<1>24. CASE UNCHANGED vars
  BY <1>24 DEF vars, TypeOK, MainInStep, PrepInStep, WorkersInStep, Through,
     Workers
<1> QED
  BY <1>1, <1>2, <1>3, <1>4, <1>5, <1>6, <1>7, <1>8, <1>9, <1>10, <1>11,
     <1>12, <1>13, <1>14, <1>15, <1>16, <1>17, <1>18, <1>19, <1>20, <1>21,
     <1>22, <1>23, <1>24
     DEF Next, PrepStep, WorkerStep, AggregatorStep, MainStep

\* A step keeps AggregatorInStep.
LEMMA AggregatorInStepStep == IInv /\ [Next]_vars => AggregatorInStep'
<1> SUFFICES ASSUME IInv, [Next]_vars PROVE AggregatorInStep'
  OBVIOUS
<1>0. TypeOK /\ MainInStep /\ WorkersInStep /\ AggregatorInStep
  BY DEF IInv, Control
<1> USE <1>0, PipelineAssumption
    DEF mainVars, taskVars, mergeVars, counters, threads
<1>1. CASE PrepPush \/ PrepClose
  <2>1. UNCHANGED <<mergeMode, mainVars, worker, agg, collected, mergeVars>>
    BY <1>1 DEF PrepPush, PrepClose, FramePrep
  <2> QED
    BY <2>1 DEF AggregatorInStep, Through, Interactive
<1>2. ASSUME NEW w \in Workers, WorkerTake(w) PROVE AggregatorInStep'
  BY <1>2 DEF WorkerTake, WorkerGoto, FrameWorker, TaskQueue!Deliver,
     TypeOK, MainInStep, WorkersInStep, AggregatorInStep, Through,
     Interactive
<1>3. ASSUME NEW w \in Workers, WorkerLeave(w) PROVE AggregatorInStep'
  BY <1>3 DEF WorkerLeave, WorkerGoto, FrameWorker, TaskQueue!Drain, TypeOK,
     MainInStep, WorkersInStep, AggregatorInStep, Through, Interactive
<1>4. ASSUME NEW w \in Workers, WorkerRun(w) PROVE AggregatorInStep'
  BY <1>4 DEF WorkerRun, WorkerGoto, FrameWorker, TypeOK, MainInStep,
     WorkersInStep, AggregatorInStep, Through, Interactive
<1>5. ASSUME NEW w \in Workers, WorkerGive(w) PROVE AggregatorInStep'
  BY <1>5 DEF WorkerGive, WorkerGoto, FrameWorker, MergeQueue!Accept,
     TypeOK, MainInStep, WorkersInStep, AggregatorInStep, Through,
     Interactive
<1>6. ASSUME NEW w \in Workers, WorkerAppend(w) PROVE AggregatorInStep'
  BY <1>6 DEF WorkerAppend, WorkerGoto, FrameWorker, TypeOK, MainInStep,
     WorkersInStep, AggregatorInStep, Through, Interactive
<1>7. CASE AggregatorTake
  BY <1>7 DEF AggregatorTake, FrameAgg, MergeQueue!Deliver, TypeOK,
     MainInStep, WorkersInStep, AggregatorInStep, Through, Interactive
<1>8. CASE AggregatorMerge
  BY <1>8 DEF AggregatorMerge, FrameAgg, TypeOK, MainInStep, WorkersInStep,
     AggregatorInStep, Through, Interactive
<1>9. CASE AggregatorLeave
  BY <1>9 DEF AggregatorLeave, FrameAgg, MergeQueue!Drain, TypeOK,
     MainInStep, WorkersInStep, AggregatorInStep, Through, Interactive
<1>10. CASE MainNoBatches
  BY <1>10 DEF MainNoBatches, MainGoto, TypeOK, MainInStep, WorkersInStep,
     AggregatorInStep, Through, Interactive
<1>11. CASE MainSetup
  BY <1>11 DEF MainSetup, MainGoto, TypeOK, MainInStep, WorkersInStep,
     AggregatorInStep, Through, Interactive
<1>12. CASE MainCreateAggregator
  BY <1>12 DEF MainCreateAggregator, MainGoto, TypeOK, MainInStep,
     WorkersInStep, AggregatorInStep, Through, Interactive
<1>13. CASE MainCreatePreprocessor
  BY <1>13 DEF MainCreatePreprocessor, MainGoto, TypeOK, MainInStep,
     WorkersInStep, AggregatorInStep, Through, Interactive
<1>14. CASE MainNoPreprocessor
  BY <1>14 DEF MainNoPreprocessor, MainGoto, MergeQueue!Close, TypeOK,
     MainInStep, WorkersInStep, AggregatorInStep, Through, Interactive
<1>15. CASE MainAbandonAggregator
  BY <1>15 DEF MainAbandonAggregator, MainGoto, TypeOK, MainInStep,
     WorkersInStep, AggregatorInStep, Through, Interactive
<1>16. CASE MainCreateWorker
  BY <1>16 DEF MainCreateWorker, MainGoto, TypeOK, MainInStep,
     WorkersInStep, AggregatorInStep, Through, Interactive
<1>17. CASE MainNoWorker
  BY <1>17 DEF MainNoWorker, MainGoto, TaskQueue!Close, TypeOK, MainInStep,
     WorkersInStep, AggregatorInStep, Through, Interactive
<1>18. CASE MainJoinPreprocessor
  BY <1>18, JoinPreprocessorEffect DEF TypeOK,
     MainInStep, WorkersInStep, AggregatorInStep, Through, Interactive
<1>19. CASE MainJoinWorker
  <2> USE <1>19, JoinWorkerEffect
      DEF TypeOK, MainInStep, WorkersInStep, AggregatorInStep, Through,
          Interactive
  <2>1. index \in Workers
    OBVIOUS
  <2>2. CASE main' = "joinWorkers"
    BY <2>1, <2>2
  <2>3. CASE main' \in {"closeMerge", "mergeFinal"}
    BY SMTT(30), <2>1, <2>3
  <2>4. CASE main' = "crashed"
    BY <2>4
  <2> QED
    BY <2>2, <2>3, <2>4
<1>20. CASE MainCloseMerge
  BY <1>20 DEF MainCloseMerge, MainGoto, MergeQueue!Close, TypeOK,
     MainInStep, WorkersInStep, AggregatorInStep, Through, Interactive
<1>21. CASE MainJoinAggregator
  BY <1>21 DEF MainJoinAggregator, MainGoto, TypeOK, MainInStep,
     WorkersInStep, AggregatorInStep, Through, Interactive
<1>22. CASE MainMergeFinal
  BY <1>22 DEF MainMergeFinal, MainGoto, TypeOK, MainInStep, WorkersInStep,
     AggregatorInStep, Through, Interactive
<1>23. CASE MainPost
  BY <1>23 DEF MainPost, MainGoto, TypeOK, MainInStep, WorkersInStep,
     AggregatorInStep, Through, Interactive
<1>24. CASE MainCleanup
  BY <1>24 DEF MainCleanup, MainGoto, TypeOK, MainInStep, WorkersInStep,
     AggregatorInStep, Through, Interactive
<1>25. CASE UNCHANGED vars
  BY <1>25 DEF vars, TypeOK, MainInStep, WorkersInStep, AggregatorInStep,
     Through, Interactive
<1> QED
  BY <1>1, <1>2, <1>3, <1>4, <1>5, <1>6, <1>7, <1>8, <1>9, <1>10, <1>11,
     <1>12, <1>13, <1>14, <1>15, <1>16, <1>17, <1>18, <1>19, <1>20, <1>21,
     <1>22, <1>23, <1>24, <1>25
     DEF Next, PrepStep, WorkerStep, AggregatorStep, MainStep

-----------------------------------------------------------------------------
(* What is in a queue. *)

\* Where x occurs in q.
Places(q, x) == {k \in DOMAIN q : q[k] = x}

\* Occurrences in a sequence are counted by a natural number.
LEMMA CountType ==
  ASSUME NEW S, NEW q \in Seq(S), NEW x
  PROVE  IsFiniteSet(Places(q, x)) /\ Count(q, x) \in Nat
<1>1. DOMAIN q = 1 .. Len(q) /\ Len(q) \in Nat
  BY LenProperties
<1>2. IsFiniteSet(1 .. Len(q))
  BY <1>1, FS_Interval
<1>3. Places(q, x) \in SUBSET (1 .. Len(q))
  BY <1>1 DEF Places
<1>4. IsFiniteSet(Places(q, x))
  BY <1>2, <1>3, FS_Subset
<1>5. Cardinality(Places(q, x)) \in Nat
  BY <1>4, FS_CardinalityType
<1> QED
  BY <1>4, <1>5 DEF Count, Places

\* An empty sequence contains nothing.
LEMMA CountEmpty ==
  ASSUME NEW x
  PROVE  Count(<<>>, x) = 0
<1>1. Places(<<>>, x) = {}
  BY DEF Places
<1> QED
  BY <1>1, FS_EmptySet DEF Count, Places

\* Appending adds an occurrence of what is appended.
LEMMA CountAppend ==
  ASSUME NEW S, NEW q \in Seq(S), NEW y \in S, NEW x
  PROVE  /\ Count(Append(q, y), x) = Count(q, x) + (IF x = y THEN 1 ELSE 0)
         /\ Len(Append(q, y)) = Len(q) + 1
<1> DEFINE r == Append(q, y)
           n == Len(q) + 1
<1>1. /\ r \in Seq(S) /\ Len(r) = n /\ r[n] = y
      /\ \A k \in 1 .. Len(q) : r[k] = q[k]
  BY AppendProperties
<1>2. DOMAIN q = 1 .. Len(q) /\ DOMAIN r = 1 .. n /\ Len(q) \in Nat
  BY <1>1, LenProperties
<1>3. Places(r, x) = IF x = y THEN Places(q, x) \cup {n} ELSE Places(q, x)
  <2> HIDE DEF r
  <2> QED
    BY <1>1, <1>2 DEF Places
<1>4. n \notin Places(q, x)
  BY <1>2 DEF Places
<1>5. IsFiniteSet(Places(q, x)) /\ Cardinality(Places(q, x)) \in Nat
  BY CountType, FS_CardinalityType
<1>6. Cardinality(Places(q, x) \cup {n}) = Cardinality(Places(q, x)) + 1
  BY <1>4, <1>5, FS_AddElement
<1>7. /\ Count(r, x) = Cardinality(Places(r, x))
      /\ Count(q, x) = Cardinality(Places(q, x))
  BY DEF Count, Places
<1>8. Len(r) = Len(q) + 1
  BY <1>1
<1> HIDE DEF r, n
<1> QED
  BY <1>3, <1>5, <1>6, <1>7, <1>8 DEF r

\* Taking the head takes one occurrence of it away.
LEMMA CountTail ==
  ASSUME NEW S, NEW q \in Seq(S), q # <<>>, NEW x
  PROVE  /\ Count(q, x) = Count(Tail(q), x) + (IF x = Head(q) THEN 1 ELSE 0)
         /\ Len(Tail(q)) = Len(q) - 1
<1> DEFINE r == Tail(q)
           A == Places(r, x)
           B == Places(q, x)
           f == [k \in A |-> k + 1]
<1>1. /\ r \in Seq(S) /\ Len(r) = Len(q) - 1
      /\ \A k \in 1 .. Len(r) : r[k] = q[k + 1]
  BY HeadTailProperties
<1>2. /\ DOMAIN q = 1 .. Len(q) /\ DOMAIN r = 1 .. Len(r)
      /\ Len(q) \in Nat /\ Len(r) \in Nat /\ Head(q) = q[1]
  BY <1>1, LenProperties
<1> HIDE DEF r
<1>3. f \in Bijection(A, B \ {1})
  <2>1. \A k \in A : k \in Int /\ k + 1 \in B \ {1}
    BY <1>1, <1>2 DEF Places
  <2>2. f \in [A -> B \ {1}]
    BY <2>1
  <2>3. \A j, k \in A : f[j] = f[k] => j = k
    BY <2>1
  <2>4. \A m \in B \ {1} : \E k \in A : f[k] = m
    <3> TAKE m \in B \ {1}
    <3>1. m - 1 \in A /\ (m - 1) + 1 = m
      BY <1>1, <1>2 DEF Places
    <3> QED
      BY <3>1
  <2> QED
    BY <2>2, <2>3, <2>4 DEF Bijection, Injection, Surjection, IsInjective
<1>4. IsFiniteSet(A) /\ IsFiniteSet(B)
  BY <1>1, CountType
<1>5. Cardinality(B \ {1}) = Cardinality(A)
  BY <1>3, <1>4, FS_Bijection DEF ExistsBijection
<1>6. Cardinality(B \ {1}) = IF 1 \in B THEN Cardinality(B) - 1
                                        ELSE Cardinality(B)
  BY <1>4, FS_RemoveElement
<1>7. 1 \in B <=> x = Head(q)
  BY <1>1, <1>2 DEF Places
<1>8. Cardinality(A) \in Nat /\ Cardinality(B) \in Nat
  BY <1>4, FS_CardinalityType
<1>9. Count(q, x) = Cardinality(B) /\ Count(Tail(q), x) = Cardinality(A)
  BY DEF Count, Places, r
<1> HIDE DEF A, B, f
<1> QED
  BY <1>1, <1>5, <1>6, <1>7, <1>8, <1>9 DEF r

-----------------------------------------------------------------------------
(* The counters. *)

\* Any set of workers has a size.
LEMMA WorkersSize ==
  ASSUME NEW T, T \subseteq Workers
  PROVE  IsFiniteSet(T) /\ Cardinality(T) \in Nat
<1>1. IsFiniteSet(Workers)
  BY FS_Interval, PipelineAssumption DEF Workers
<1>2. IsFiniteSet(T)
  BY <1>1, FS_Subset
<1> QED
  BY <1>2, FS_CardinalityType

LEMMA AtSize ==
  ASSUME NEW l
  PROVE  Cardinality(At(l)) \in Nat /\ Cardinality(At(l)') \in Nat
<1>1. At(l) \subseteq Workers /\ At(l)' \subseteq Workers
  BY DEF At
<1> QED
  BY <1>1, WorkersSize

\* A worker that goes from one label to another.
LEMMA AtMoves ==
  ASSUME TypeOK, NEW w \in Workers, NEW from, NEW to, from # to,
         worker[w] = from, WorkerGoto(w, to)
  PROVE  /\ Cardinality(At(from)') = Cardinality(At(from)) - 1
         /\ Cardinality(At(to)') = Cardinality(At(to)) + 1
         /\ \A l : l \notin {from, to} => At(l)' = At(l)
<1>1. \A v \in Workers : worker'[v] = IF v = w THEN to ELSE worker[v]
  BY DEF WorkerGoto, TypeOK
<1>2. At(from)' = At(from) \ {w} /\ w \in At(from)
  BY <1>1 DEF At
<1>3. At(to)' = At(to) \cup {w} /\ w \notin At(to)
  BY <1>1 DEF At
<1>4. \A l : l \notin {from, to} => At(l)' = At(l)
  BY <1>1 DEF At
<1>5. IsFiniteSet(At(from)) /\ IsFiniteSet(At(to))
  BY WorkersSize DEF At
<1> QED
  BY ZenonT(60), <1>2, <1>3, <1>4, <1>5, FS_RemoveElement, FS_AddElement

\* While no failure is noted none was before.
LEMMA FailureStays ==
  ASSUME IInv, [Next]_vars, ~failed'
  PROVE  ~failed
<1> USE DEF mainVars
<1>1. CASE PrepStep
  BY <1>1 DEF PrepStep, PrepPush, PrepClose, FramePrep
<1>2. ASSUME NEW w \in Workers, WorkerStep(w) PROVE ~failed
  BY <1>2, WorkerKeeps
<1>3. CASE AggregatorStep
  BY <1>3, AggregatorKeeps
<1>4. CASE MainNoBatches \/ MainSetup
  BY <1>4 DEF MainNoBatches, MainSetup, IInv, Control, MainInStep
<1>5. CASE \/ MainCreateAggregator \/ MainCreatePreprocessor
           \/ MainNoPreprocessor \/ MainAbandonAggregator
  BY <1>5 DEF MainCreateAggregator, MainCreatePreprocessor,
     MainNoPreprocessor, MainAbandonAggregator
<1>6. CASE MainCreateWorker \/ MainNoWorker
  BY <1>6 DEF MainCreateWorker, MainNoWorker
<1>7. CASE MainJoinPreprocessor \/ MainJoinWorker
  BY <1>7 DEF MainJoinPreprocessor, MainJoinWorker, JoinUndefined
<1>8. CASE MainCloseMerge \/ MainJoinAggregator \/ MainMergeFinal
  BY <1>8 DEF MainCloseMerge, MainJoinAggregator, MainMergeFinal
<1>9. CASE MainPost \/ MainCleanup
  BY <1>9 DEF MainPost, MainCleanup
<1>10. CASE UNCHANGED vars
  BY <1>10 DEF vars
<1> QED
  BY <1>1, <1>2, <1>3, <1>4, <1>5, <1>6, <1>7, <1>8, <1>9, <1>10
     DEF Next, MainStep

\* main touches neither the contents of the queues nor the batches in hand,
\* and no worker at work.
LEMMA MainKeeps ==
  ASSUME IInv, MainStep
  PROVE  /\ UNCHANGED <<mergeMode, fed, hold, collected, tasks, partials,
                        finals, counters>>
         /\ agg = "merge" <=> agg' = "merge"
         /\ Interactive => UNCHANGED merged
         /\ \A w \in Workers : \/ worker'[w] = worker[w]
                               \/ /\ worker[w] = "absent"
                                  /\ worker'[w] = "take"
<1> USE DEF mainVars, threads, taskVars, mergeVars
<1>1. CASE MainNoBatches \/ MainSetup
  BY <1>1 DEF MainNoBatches, MainSetup
<1>2. CASE MainCreateAggregator
  BY <1>2 DEF MainCreateAggregator, IInv, Control, AggregatorInStep
<1>3. CASE MainCreatePreprocessor
  BY <1>3 DEF MainCreatePreprocessor
<1>4. CASE MainNoPreprocessor
  BY <1>4 DEF MainNoPreprocessor, MergeQueue!Close
<1>5. CASE MainAbandonAggregator \/ MainJoinAggregator \/ MainMergeFinal
  BY <1>5 DEF MainAbandonAggregator, MainJoinAggregator, MainMergeFinal,
     IInv, Control, MainInStep
<1>6. CASE MainCreateWorker
  <2>1. /\ index \in Workers /\ worker[index] = "absent"
        /\ worker' = [worker EXCEPT ![index] = "take"]
    BY <1>6, PipelineAssumption
       DEF MainCreateWorker, IInv, Control, MainInStep, WorkersInStep, Workers
  <2> QED
    BY <1>6, <2>1 DEF MainCreateWorker, IInv, Control, TypeOK
<1>7. CASE MainNoWorker
  BY <1>7 DEF MainNoWorker, TaskQueue!Close
<1>8. CASE MainJoinPreprocessor \/ MainJoinWorker
  BY <1>8 DEF MainJoinPreprocessor, MainJoinWorker, JoinUndefined
<1>9. CASE MainCloseMerge
  BY <1>9 DEF MainCloseMerge, MergeQueue!Close
<1>10. CASE MainPost \/ MainCleanup
  BY <1>10 DEF MainPost, MainCleanup
<1> QED
  BY <1>1, <1>2, <1>3, <1>4, <1>5, <1>6, <1>7, <1>8, <1>9, <1>10 DEF MainStep

\* A step keeps the counters in step with the queues and the workers.
LEMMA CountersStep == IInv /\ [Next]_vars => CountersInStep'
<1> SUFFICES ASSUME IInv, [Next]_vars PROVE CountersInStep'
  OBVIOUS
<1>0. TypeOK /\ PrepInStep /\ WorkersInStep /\ CountersInStep /\ AggregatorInStep
  BY DEF IInv, Control
<1>a. /\ Len(tasks) \in Nat /\ Len(partials) \in Nat /\ Len(finals) \in Nat
      /\ pushes \in Nat /\ pops \in Nat /\ processed \in Nat /\ fed \in Nat
  BY <1>0, LenProperties DEF TypeOK
<1>b. /\ Cardinality(At("run")) \in Nat /\ Cardinality(At("give")) \in Nat
      /\ Cardinality(At("run")') \in Nat /\ Cardinality(At("give")') \in Nat
  BY AtSize
<1>c. ~failed' => ~failed
  BY FailureStays
<1> USE <1>a, <1>b DEF mainVars, taskVars, mergeVars, counters, threads
<1>1. CASE PrepPush
  <2>1. At("run")' = At("run") /\ At("give")' = At("give")
    BY <1>1 DEF PrepPush, FramePrep, At
  <2>2. CASE TaskQueue!Accept(fed) /\ pushes' = pushes + 1
    <3>1. fed \in Batches
      BY <1>1, <1>0, PipelineAssumption DEF PrepPush, TypeOK, Batches
    <3>2. Len(tasks') = Len(tasks) + 1
      BY <1>0, <2>2, <3>1, AppendProperties DEF TaskQueue!Accept, TypeOK
    <3>3. /\ fed' = fed + 1 /\ pushes' = pushes + 1
          /\ UNCHANGED <<mergeMode, failed, partials, finals, pops, processed>>
      BY <1>1, <2>2 DEF PrepPush, FramePrep
    <3>4. pushes' - pops' = Len(tasks)' + Len(partials)'
      BY <1>0, <3>2, <3>3 DEF CountersInStep
    <3>5. /\ processed' + Len(tasks)' + Cardinality(At("run")') <= fed'
          /\ ~failed' => processed' + Len(tasks)' + Cardinality(At("run")') = fed'
      <4> DEFINE r == Cardinality(At("run"))
                 rr == Cardinality(At("run")')
      <4>1. r \in Nat /\ rr = r
        BY <2>1
      <4>2. /\ processed + Len(tasks) + r <= fed
            /\ ~failed => processed + Len(tasks) + r = fed
        BY <1>0 DEF CountersInStep
      <4> HIDE DEF r, rr
      <4>3. /\ processed' + Len(tasks') + rr <= fed'
            /\ ~failed' => processed' + Len(tasks') + rr = fed'
        BY <3>2, <3>3, <4>1, <4>2
      <4> QED
        BY <4>3 DEF rr
    <3>6. /\ ~failed' /\ Interactive' =>
               pushes' + Cardinality(At("give")') = fed' + processed'
          /\ ~failed' /\ ~Interactive' => pushes' = fed'
          /\ ~Interactive' => Len(finals)' + Cardinality(At("give")') = processed'
      BY SMTT(30), <1>0, <2>1, <3>3 DEF CountersInStep, Interactive
    <3> QED
      BY <3>4, <3>5, <3>6 DEF CountersInStep
  <2>3. CASE tasksClosed /\ UNCHANGED <<taskVars, pushes>>
    <3>1. failed
      BY <1>0, <1>1, <2>3 DEF PrepPush, PrepInStep
    <3> QED
      BY <1>0, <1>1, <1>c, <2>1, <2>3, <3>1
         DEF PrepPush, FramePrep, CountersInStep, Interactive
  <2> QED
    BY <1>1, <2>2, <2>3 DEF PrepPush
<1>2. CASE PrepClose
  BY <1>0, <1>2
     DEF PrepClose, FramePrep, TaskQueue!Close, CountersInStep, Interactive, At
<1>3. ASSUME NEW w \in Workers, WorkerTake(w) PROVE CountersInStep'
  <2>1. /\ Cardinality(At("run")') = Cardinality(At("run")) + 1
        /\ At("give")' = At("give")
    BY <1>0, <1>3, AtMoves DEF WorkerTake
  <2>2. Len(tasks') = Len(tasks) - 1
    BY <1>0, <1>3, HeadTailProperties
       DEF WorkerTake, TaskQueue!Deliver, TypeOK
  <2> QED
    BY SMTT(30), <1>0, <1>3, <2>1, <2>2
       DEF WorkerTake, FrameWorker, CountersInStep, Interactive
<1>4. ASSUME NEW w \in Workers, WorkerLeave(w) PROVE CountersInStep'
  <2>1. At("run")' = At("run") /\ At("give")' = At("give")
    BY <1>0, <1>4, AtMoves DEF WorkerLeave
  <2> QED
    BY <1>0, <1>4, <2>1
       DEF WorkerLeave, FrameWorker, TaskQueue!Drain, CountersInStep,
           Interactive
<1>5. ASSUME NEW w \in Workers, WorkerRun(w) PROVE CountersInStep'
  <2>1. /\ Cardinality(At("run")') = Cardinality(At("run")) - 1
        /\ Cardinality(At("give")') = Cardinality(At("give")) + 1
    BY <1>0, <1>5, AtMoves DEF WorkerRun
  <2>2. /\ processed' = processed + 1
        /\ UNCHANGED <<mergeMode, failed, fed, tasks, partials, finals, pushes,
                       pops>>
    BY <1>5 DEF WorkerRun, FrameWorker
  <2> DEFINE r == Cardinality(At("run"))
             g == Cardinality(At("give"))
             rr == Cardinality(At("run")')
             gg == Cardinality(At("give")')
  <2>3. /\ r \in Nat /\ g \in Nat /\ rr = r - 1 /\ gg = g + 1
    BY <2>1
  <2>4. /\ pushes - pops = Len(tasks) + Len(partials)
        /\ processed + Len(tasks) + r <= fed
        /\ ~failed => processed + Len(tasks) + r = fed
        /\ ~failed /\ Interactive => pushes + g = fed + processed
        /\ ~failed /\ ~Interactive => pushes = fed
        /\ ~Interactive => Len(finals) + g = processed
    BY <1>0 DEF CountersInStep
  <2> HIDE DEF r, g, rr, gg
  <2>5. /\ pushes' - pops' = Len(tasks') + Len(partials')
        /\ processed' + Len(tasks') + rr <= fed'
        /\ ~failed' => processed' + Len(tasks') + rr = fed'
        /\ ~failed' /\ Interactive => pushes' + gg = fed' + processed'
        /\ ~failed' /\ ~Interactive => pushes' = fed'
        /\ ~Interactive => Len(finals') + gg = processed'
    BY SMTT(30), <2>2, <2>3, <2>4
  <2> QED
    BY <2>2, <2>5 DEF CountersInStep, Interactive, rr, gg
<1>6. ASSUME NEW w \in Workers, WorkerGive(w) PROVE CountersInStep'
  <2>1. /\ Cardinality(At("give")') = Cardinality(At("give")) - 1
        /\ At("run")' = At("run")
    BY <1>0, <1>6, AtMoves DEF WorkerGive
  <2>2. MergeQueue!Accept(hold[w]) /\ pushes' = pushes + 1
    BY <1>0, <1>6 DEF WorkerGive, AggregatorInStep
  <2>3. Len(partials') = Len(partials) + 1
    <3>1. hold[w] \in Batches
      BY <1>0, <1>6 DEF WorkerGive, WorkersInStep
    <3> QED
      BY <1>0, <2>2, <3>1, AppendProperties DEF MergeQueue!Accept, TypeOK
  <2>4. /\ pushes' = pushes + 1 /\ Interactive
        /\ UNCHANGED <<mergeMode, failed, fed, tasks, finals, pops, processed>>
    BY <1>6, <2>2 DEF WorkerGive, FrameWorker
  <2> QED
    BY <1>0, <2>1, <2>3, <2>4 DEF CountersInStep, Interactive
<1>7. ASSUME NEW w \in Workers, WorkerAppend(w) PROVE CountersInStep'
  <2>1. /\ Cardinality(At("give")') = Cardinality(At("give")) - 1
        /\ At("run")' = At("run")
    BY <1>0, <1>7, AtMoves DEF WorkerAppend
  <2>2. Len(finals') = Len(finals) + 1
    <3>1. hold[w] \in Batches
      BY <1>0, <1>7 DEF WorkerAppend, WorkersInStep
    <3> QED
      BY <1>0, <1>7, <3>1, AppendProperties DEF WorkerAppend, TypeOK
  <2> QED
    BY <1>0, <1>7, <2>1, <2>2
       DEF WorkerAppend, FrameWorker, CountersInStep, Interactive
<1>8. CASE AggregatorTake
  <2>1. Len(partials') = Len(partials) - 1
    BY <1>0, <1>8, HeadTailProperties
       DEF AggregatorTake, MergeQueue!Deliver, TypeOK
  <2>2. At("run")' = At("run") /\ At("give")' = At("give")
    BY <1>8 DEF AggregatorTake, FrameAgg, At
  <2> QED
    BY <1>0, <1>8, <2>1, <2>2
       DEF AggregatorTake, FrameAgg, CountersInStep, Interactive
<1>9. CASE AggregatorMerge \/ AggregatorLeave
  <2>1. UNCHANGED <<mergeMode, failed, fed, worker, tasks, partials, finals, counters>>
    BY <1>9 DEF AggregatorMerge, AggregatorLeave, MergeQueue!Drain, FrameAgg
  <2> QED
    BY <1>0, <2>1 DEF CountersInStep, Interactive, At
<1>10. CASE MainStep
  <2>1. At("run")' = At("run") /\ At("give")' = At("give")
    BY <1>10, MainKeeps DEF At
  <2> QED
    BY <1>0, <1>10, <1>c, <2>1, MainKeeps DEF CountersInStep, Interactive
<1>11. CASE UNCHANGED vars
  BY <1>0, <1>11 DEF vars, CountersInStep, Interactive, At
<1> QED
  BY <1>1, <1>2, <1>3, <1>4, <1>5, <1>6, <1>7, <1>8, <1>9, <1>10, <1>11
     DEF Next, PrepStep, WorkerStep, AggregatorStep

-----------------------------------------------------------------------------
(* Where every batch is. *)

\* Where b is when it has left the workers: 1 while the aggregator has it.
InMerge(b) == IF agg = "merge" /\ collected[Aggregator] = b THEN 1 ELSE 0

\* The copies of a batch, mode by mode.
LEMMA CopiesParts ==
  ASSUME NEW b
  PROVE  /\ Interactive => Copies(b) = Count(tasks, b) + Cardinality(Holders(b))
              + (Count(partials, b) + InMerge(b) + merged[b])
         /\ ~Interactive => Copies(b) =
              Count(tasks, b) + Cardinality(Holders(b)) + Count(finals, b)
BY DEF Copies, InMerge

\* All parts of it are natural numbers.
LEMMA CopiesType ==
  ASSUME TypeOK, NEW b \in Batches
  PROVE  /\ Count(tasks, b) \in Nat /\ Count(partials, b) \in Nat
         /\ Count(finals, b) \in Nat /\ Cardinality(Holders(b)) \in Nat
         /\ InMerge(b) \in Nat /\ merged[b] \in Nat
         /\ Copies(b) \in Nat
<1>1. /\ Count(tasks, b) \in Nat /\ Count(partials, b) \in Nat
      /\ Count(finals, b) \in Nat
  BY CountType DEF TypeOK
<1>2. Cardinality(Holders(b)) \in Nat
  BY WorkersSize DEF Holders
<1>3. InMerge(b) \in Nat /\ merged[b] \in Nat
  BY DEF InMerge, TypeOK
<1>4. Copies(b) \in Nat
  <2>1. CASE Interactive
    BY <1>1, <1>2, <1>3, <2>1, CopiesParts
  <2>2. CASE ~Interactive
    BY <1>1, <1>2, <2>2, CopiesParts
  <2> QED
    BY <2>1, <2>2
<1> QED
  BY <1>1, <1>2, <1>3, <1>4

\* Nothing moves: the copies stay as they are.
LEMMA CopiesStill ==
  ASSUME NEW b, UNCHANGED <<mergeMode, tasks, partials, finals>>,
         Holders(b)' = Holders(b), InMerge(b)' = InMerge(b),
         Interactive => UNCHANGED merged
  PROVE  Copies(b)' = Copies(b)
BY DEF Copies, InMerge, Interactive

\* A worker takes b in hand, or puts it down.
LEMMA HoldersGain ==
  ASSUME TypeOK, NEW w \in Workers, WorkerTake(w), NEW b
  PROVE  Cardinality(Holders(b)') =
           Cardinality(Holders(b)) + (IF b = Head(tasks) THEN 1 ELSE 0)
<1>1. /\ worker[w] = "take"
      /\ \A v \in Workers : worker'[v] = IF v = w THEN "run" ELSE worker[v]
      /\ \A v \in Workers : hold'[v] = IF v = w THEN Head(tasks) ELSE hold[v]
  BY DEF WorkerTake, WorkerGoto, TaskQueue!Deliver, TypeOK
<1>2. Holders(b)' = IF b = Head(tasks) THEN Holders(b) \cup {w} ELSE Holders(b)
  BY <1>1 DEF Holders
<1>3. w \notin Holders(b) /\ IsFiniteSet(Holders(b))
      /\ Cardinality(Holders(b)) \in Nat
  BY <1>1, WorkersSize DEF Holders
<1>4. Cardinality(Holders(b) \cup {w}) = Cardinality(Holders(b)) + 1
  BY <1>3, FS_AddElement
<1> QED
  BY <1>2, <1>3, <1>4

LEMMA HoldersLose ==
  ASSUME TypeOK, NEW w \in Workers, WorkerGoto(w, "take"), worker[w] = "give",
         UNCHANGED hold, NEW b
  PROVE  Cardinality(Holders(b)) =
           Cardinality(Holders(b)') + (IF b = hold[w] THEN 1 ELSE 0)
<1>1. \A v \in Workers : worker'[v] = IF v = w THEN "take" ELSE worker[v]
  BY DEF WorkerGoto, TypeOK
<1>2. Holders(b)' = Holders(b) \ {w}
  BY <1>1 DEF Holders
<1>3. w \in Holders(b) <=> b = hold[w]
  BY DEF Holders
<1>4. IsFiniteSet(Holders(b)) /\ Cardinality(Holders(b)) \in Nat
  BY WorkersSize DEF Holders
<1>5. Cardinality(Holders(b) \ {w}) =
        IF w \in Holders(b) THEN Cardinality(Holders(b)) - 1
                            ELSE Cardinality(Holders(b))
  BY <1>4, FS_RemoveElement
<1> QED
  BY <1>2, <1>3, <1>4, <1>5

\* Every step leaves as many copies of b as there were, but for the push of b
\* itself; and a push is refused only after a failure.
LEMMA CopiesStep ==
  ASSUME IInv, [Next]_vars, NEW b \in Batches
  PROVE  \/ fed' = fed /\ Copies(b)' = Copies(b)
         \/ /\ fed' = fed + 1
            /\ Copies(b)' = Copies(b) + (IF b = fed THEN 1 ELSE 0)
         \/ fed' = fed + 1 /\ Copies(b)' = Copies(b) /\ failed /\ failed'
<1>0. TypeOK /\ PrepInStep /\ WorkersInStep /\ AggregatorInStep
  BY DEF IInv, Control
<1>a. TypeOK'
  BY TypeStep
<1>b. /\ Count(tasks, b) \in Nat /\ Count(partials, b) \in Nat
      /\ Count(finals, b) \in Nat /\ Cardinality(Holders(b)) \in Nat
      /\ InMerge(b) \in Nat /\ merged[b] \in Nat
  BY <1>0, CopiesType
<1>c. /\ Count(tasks', b) \in Nat /\ Count(partials', b) \in Nat
      /\ Count(finals', b) \in Nat /\ Cardinality(Holders(b)') \in Nat
      /\ InMerge(b)' \in Nat /\ merged'[b] \in Nat
  <2>1. /\ Count(tasks', b) \in Nat /\ Count(partials', b) \in Nat
        /\ Count(finals', b) \in Nat
    BY <1>a, CountType DEF TypeOK
  <2>2. Cardinality(Holders(b)') \in Nat
    BY WorkersSize DEF Holders
  <2> QED
    BY <1>a, <2>1, <2>2 DEF InMerge, TypeOK
<1>d. /\ Interactive => Copies(b) = Count(tasks, b) + Cardinality(Holders(b))
           + (Count(partials, b) + InMerge(b) + merged[b])
      /\ ~Interactive => Copies(b) =
           Count(tasks, b) + Cardinality(Holders(b)) + Count(finals, b)
      /\ Interactive' => Copies(b)' = Count(tasks', b) + Cardinality(Holders(b)')
           + (Count(partials', b) + InMerge(b)' + merged'[b])
      /\ ~Interactive' => Copies(b)' =
           Count(tasks', b) + Cardinality(Holders(b)') + Count(finals', b)
  BY DEF Copies, InMerge
<1> USE DEF mainVars, taskVars, mergeVars, counters, threads
<1>1. CASE PrepPush
  <2>1. /\ fed' = fed + 1 /\ prep = "push"
        /\ UNCHANGED <<mergeMode, failed, partials, finals, merged>>
    BY <1>1 DEF PrepPush, FramePrep
  <2>2. Holders(b)' = Holders(b) /\ InMerge(b)' = InMerge(b)
    BY <1>1 DEF PrepPush, FramePrep, Holders, InMerge
  <2>3. CASE TaskQueue!Accept(fed)
    <3>1. fed \in Batches
      BY <1>0, <1>1, PipelineAssumption DEF PrepPush, TypeOK, Batches
    <3>2. Count(tasks', b) = Count(tasks, b) + (IF b = fed THEN 1 ELSE 0)
      BY <1>0, <2>3, <3>1, CountAppend DEF TaskQueue!Accept, TypeOK
    <3> QED
      BY <1>b, <1>c, <1>d, <2>1, <2>2, <3>2 DEF Interactive
  <2>4. CASE tasksClosed /\ UNCHANGED taskVars
    <3>1. failed /\ failed'
      BY <1>0, <2>1, <2>4 DEF PrepInStep
    <3> QED
      BY <2>1, <2>2, <2>4, <3>1, CopiesStill
  <2> QED
    BY <1>1, <2>3, <2>4 DEF PrepPush
<1>2. CASE PrepClose
  <2>1. UNCHANGED <<mergeMode, fed, worker, hold, agg, collected, tasks,
                    partials, finals, merged>>
    BY <1>2 DEF PrepClose, FramePrep, TaskQueue!Close
  <2> QED
    BY <2>1, CopiesStill DEF Holders, InMerge
<1>3. ASSUME NEW w \in Workers, WorkerTake(w)
      PROVE  fed' = fed /\ Copies(b)' = Copies(b)
  <2>1. UNCHANGED <<mergeMode, fed, agg, collected, partials, finals, merged>>
    BY <1>3 DEF WorkerTake, FrameWorker
  <2>2. Count(tasks, b) = Count(tasks', b) + (IF b = Head(tasks) THEN 1 ELSE 0)
    BY <1>0, <1>3, CountTail DEF WorkerTake, TaskQueue!Deliver, TypeOK
  <2>3. Cardinality(Holders(b)') =
          Cardinality(Holders(b)) + (IF b = Head(tasks) THEN 1 ELSE 0)
    BY <1>0, <1>3, HoldersGain
  <2>4. InMerge(b)' = InMerge(b)
    BY <2>1 DEF InMerge
  <2> QED
    BY <1>b, <1>c, <1>d, <2>1, <2>2, <2>3, <2>4 DEF Interactive
<1>4. ASSUME NEW w \in Workers, WorkerLeave(w) \/ WorkerRun(w)
      PROVE  fed' = fed /\ Copies(b)' = Copies(b)
  <2>1. UNCHANGED <<mergeMode, fed, hold, agg, collected, tasks, partials,
                    finals, merged>>
    BY <1>4 DEF WorkerLeave, WorkerRun, FrameWorker, TaskQueue!Drain
  <2>2. \A v \in Workers :
          worker'[v] \in {"run", "give"} <=> worker[v] \in {"run", "give"}
    BY <1>0, <1>4 DEF WorkerLeave, WorkerRun, WorkerGoto, TypeOK
  <2>3. Holders(b)' = Holders(b) /\ InMerge(b)' = InMerge(b)
    BY <2>1, <2>2 DEF Holders, InMerge
  <2> QED
    BY <2>1, <2>3, CopiesStill
<1>5. ASSUME NEW w \in Workers, WorkerGive(w)
      PROVE  fed' = fed /\ Copies(b)' = Copies(b)
  <2>1. UNCHANGED <<mergeMode, fed, agg, collected, tasks, finals, merged>>
        /\ Interactive
    BY <1>5 DEF WorkerGive, FrameWorker
  <2>2. MergeQueue!Accept(hold[w])
    BY <1>0, <1>5 DEF WorkerGive, AggregatorInStep
  <2>3. hold[w] \in Batches
    BY <1>0, <1>5 DEF WorkerGive, WorkersInStep
  <2>4. Count(partials', b) =
          Count(partials, b) + (IF b = hold[w] THEN 1 ELSE 0)
    BY <1>0, <2>2, <2>3, CountAppend DEF MergeQueue!Accept, TypeOK
  <2>5. Cardinality(Holders(b)) =
          Cardinality(Holders(b)') + (IF b = hold[w] THEN 1 ELSE 0)
    BY <1>0, <1>5, HoldersLose DEF WorkerGive
  <2>6. InMerge(b)' = InMerge(b)
    BY <2>1 DEF InMerge
  <2> QED
    BY <1>b, <1>c, <1>d, <2>1, <2>4, <2>5, <2>6 DEF Interactive
<1>6. ASSUME NEW w \in Workers, WorkerAppend(w)
      PROVE  fed' = fed /\ Copies(b)' = Copies(b)
  <2>1. UNCHANGED <<mergeMode, fed, tasks>> /\ ~Interactive
    BY <1>6 DEF WorkerAppend, FrameWorker
  <2>2. hold[w] \in Batches
    BY <1>0, <1>6 DEF WorkerAppend, WorkersInStep
  <2>3. Count(finals', b) = Count(finals, b) + (IF b = hold[w] THEN 1 ELSE 0)
    BY <1>0, <1>6, <2>2, CountAppend DEF WorkerAppend, TypeOK
  <2>4. Cardinality(Holders(b)) =
          Cardinality(Holders(b)') + (IF b = hold[w] THEN 1 ELSE 0)
    BY <1>0, <1>6, HoldersLose DEF WorkerAppend
  <2> QED
    BY <1>b, <1>c, <1>d, <2>1, <2>3, <2>4 DEF Interactive
<1>7. CASE AggregatorTake
  <2>1. UNCHANGED <<mergeMode, fed, worker, hold, tasks, finals, merged>>
        /\ agg = "collect" /\ agg' = "merge"
    BY <1>7 DEF AggregatorTake, FrameAgg
  <2>2. Count(partials, b) =
          Count(partials', b) + (IF b = Head(partials) THEN 1 ELSE 0)
    BY <1>0, <1>7, CountTail DEF AggregatorTake, MergeQueue!Deliver, TypeOK
  <2>3. collected'[Aggregator] = Head(partials)
    BY <1>0, <1>7 DEF AggregatorTake, MergeQueue!Deliver, TypeOK
  <2>4. InMerge(b) = 0 /\ InMerge(b)' = IF b = Head(partials) THEN 1 ELSE 0
    BY <2>1, <2>3 DEF InMerge
  <2>5. Holders(b)' = Holders(b)
    BY <2>1 DEF Holders
  <2> QED
    BY <1>b, <1>c, <1>d, <2>1, <2>2, <2>4, <2>5 DEF Interactive
<1>8. CASE AggregatorMerge
  <2>1. UNCHANGED <<mergeMode, fed, worker, hold, tasks, finals, partials>>
        /\ agg = "merge" /\ agg' = "collect"
    BY <1>8 DEF AggregatorMerge, FrameAgg
  <2>2. merged'[b] = merged[b] + InMerge(b) /\ InMerge(b)' = 0
    BY <1>0, <1>8 DEF AggregatorMerge, AggregatorInStep, InMerge, TypeOK
  <2>3. Holders(b)' = Holders(b)
    BY <2>1 DEF Holders
  <2> QED
    BY <1>b, <1>c, <1>d, <2>1, <2>2, <2>3 DEF Interactive
<1>9. CASE AggregatorLeave
  <2>1. /\ UNCHANGED <<mergeMode, fed, worker, hold, tasks, finals, partials,
                       merged>>
        /\ agg = "collect" /\ agg' = "exited"
    BY <1>9 DEF AggregatorLeave, FrameAgg, MergeQueue!Drain
  <2> QED
    BY <2>1, CopiesStill DEF Holders, InMerge
<1>10. CASE MainStep
  <2>1. \A v \in Workers :
          worker'[v] \in {"run", "give"} <=> worker[v] \in {"run", "give"}
    BY <1>10, MainKeeps
  <2>2. Holders(b)' = Holders(b) /\ InMerge(b)' = InMerge(b)
    BY <1>10, <2>1, MainKeeps DEF Holders, InMerge
  <2> QED
    BY <1>10, <2>2, MainKeeps, CopiesStill
<1>11. CASE UNCHANGED vars
  BY <1>11, CopiesStill DEF vars, Holders, InMerge
<1> QED
  BY <1>1, <1>2, <1>3, <1>4, <1>5, <1>6, <1>7, <1>8, <1>9, <1>10, <1>11
     DEF Next, PrepStep, WorkerStep, AggregatorStep

\* One partial more of final_partials.
LEMMA CountUpToProperties ==
  ASSUME finals \in Seq(Batches), NEW b
  PROVE  /\ CountUpTo(0, b) = 0
         /\ CountUpTo(Len(finals), b) = Count(finals, b)
         /\ \A n \in 0 .. Len(finals) :
              CountUpTo(n, b) \in Nat /\ CountUpTo(n, b) <= Count(finals, b)
         /\ \A n \in 0 .. Len(finals) - 1 :
              CountUpTo(n + 1, b) =
                CountUpTo(n, b) + (IF b = finals[n + 1] THEN 1 ELSE 0)
<1> DEFINE P(n) == {k \in 1 .. n : finals[k] = b}
<1>1. DOMAIN finals = 1 .. Len(finals) /\ Len(finals) \in Nat
  BY LenProperties
<1>2. P(0) = {} /\ P(Len(finals)) = Places(finals, b)
  BY <1>1 DEF Places
<1>3. IsFiniteSet(Places(finals, b))
  BY CountType
<1>4. ASSUME NEW n \in 0 .. Len(finals)
      PROVE  /\ IsFiniteSet(P(n)) /\ Cardinality(P(n)) \in Nat
             /\ Cardinality(P(n)) <= Cardinality(Places(finals, b))
  <2>1. P(n) \in SUBSET Places(finals, b)
    BY <1>1 DEF Places
  <2> HIDE DEF P
  <2> QED
    BY <1>3, <2>1, FS_Subset, FS_CardinalityType
<1>5. ASSUME NEW n \in 0 .. Len(finals) - 1
      PROVE  Cardinality(P(n + 1)) =
               Cardinality(P(n)) + (IF b = finals[n + 1] THEN 1 ELSE 0)
  <2>1. /\ P(n + 1) = IF b = finals[n + 1] THEN P(n) \cup {n + 1} ELSE P(n)
        /\ n + 1 \notin P(n)
    BY <1>1
  <2>2. IsFiniteSet(P(n)) /\ Cardinality(P(n)) \in Nat
    BY <1>1, <1>4
  <2> HIDE DEF P
  <2>3. Cardinality(P(n) \cup {n + 1}) = Cardinality(P(n)) + 1
    BY <2>1, <2>2, FS_AddElement
  <2> QED
    BY <2>1, <2>2, <2>3
<1>6. \A n : CountUpTo(n, b) = Cardinality(P(n))
  BY DEF CountUpTo
<1>7. Count(finals, b) = Cardinality(Places(finals, b))
  BY DEF Count, Places
<1> HIDE DEF P
<1> QED
  BY <1>2, <1>4, <1>5, <1>6, <1>7, FS_EmptySet

\* The other steps of main neither merge in final mode nor end the run well.
LEMMA MainElse ==
  ASSUME IInv, MainStep, ~MainMergeFinal, ~MainJoinWorker, ~Interactive
  PROVE  /\ UNCHANGED <<merged, finals, mergeMode>>
         /\ main' # "mergeFinal" /\ main # "mergeFinal"
         /\ main \in {"post", "cleanup", "ended"} =>
              main' \in {"cleanup", "ended"}
         /\ Through' => Through
<1>0. MainInStep
  BY DEF IInv, Control
<1> USE <1>0 DEF MainGoto, mainVars, threads, taskVars, mergeVars
<1>1. CASE MainNoBatches
  BY <1>1 DEF MainNoBatches, Through
<1>2. CASE MainSetup
  BY <1>2 DEF MainSetup, Through
<1>3. CASE MainCreateAggregator
  BY <1>3 DEF MainCreateAggregator, Through
<1>4. CASE MainCreatePreprocessor
  BY <1>4 DEF MainCreatePreprocessor, Through
<1>5. CASE MainNoPreprocessor
  BY <1>5 DEF MainNoPreprocessor, Through
<1>6. CASE MainAbandonAggregator \/ MainJoinAggregator
  BY <1>6 DEF MainAbandonAggregator, MainJoinAggregator, MainInStep
<1>7. CASE MainCreateWorker
  BY <1>7 DEF MainCreateWorker, Through
<1>8. CASE MainNoWorker
  BY <1>8 DEF MainNoWorker, Through
<1>9. CASE MainJoinPreprocessor
  BY <1>9 DEF MainJoinPreprocessor, JoinUndefined, Through
<1>10. CASE MainCloseMerge
  BY <1>10 DEF MainCloseMerge, MainInStep
<1>11. CASE MainPost
  BY <1>11 DEF MainPost, Through
<1>12. CASE MainCleanup
  BY <1>12 DEF MainCleanup, Through
<1> QED
  BY <1>1, <1>2, <1>3, <1>4, <1>5, <1>6, <1>7, <1>8, <1>9, <1>10, <1>11,
     <1>12 DEF MainStep

\* A turn of the final merge.
LEMMA MergeTurn ==
  ASSUME IInv, MainMergeFinal, index < Len(finals)
  PROVE  /\ index \in 0 .. Len(finals) - 1 /\ index' = index + 1
         /\ UNCHANGED <<main, finals, mergeMode>>
         /\ ~Interactive
         /\ \A b \in Batches :
              /\ merged[b] = CountUpTo(index, b)
              /\ merged'[b] = CountUpTo(index + 1, b)
<1>1. TypeOK /\ main = "mergeFinal" /\ ~Interactive /\ MergedInTurn
  BY DEF IInv, Control, MainInStep, MainMergeFinal
<1>2. index \in 0 .. Len(finals) /\ Len(finals) \in Nat
  BY <1>1, LenProperties DEF MergedInTurn, TypeOK
<1>3. index \in 0 .. Len(finals) - 1
  BY <1>2
<1>4. finals[index + 1] \in Batches
  BY <1>1, <1>3, <1>2, ElementOfSeq DEF TypeOK
<1>5. ASSUME NEW b \in Batches
      PROVE  /\ merged[b] = CountUpTo(index, b)
             /\ merged'[b] = CountUpTo(index + 1, b)
  <2>1. merged[b] = CountUpTo(index, b)
    BY <1>1 DEF MergedInTurn
  <2>2. CountUpTo(index + 1, b) =
          CountUpTo(index, b) + (IF b = finals[index + 1] THEN 1 ELSE 0)
    BY <1>1, <1>3, CountUpToProperties DEF TypeOK
  <2>3. merged'[b] = merged[b] + (IF b = finals[index + 1] THEN 1 ELSE 0)
    BY <1>1, <1>4 DEF MainMergeFinal, TypeOK
  <2> QED
    BY <2>1, <2>2, <2>3
<1> QED
  BY <1>1, <1>3, <1>5 DEF MainMergeFinal

\* A step that changes neither main's place, nor what is merged, nor
\* final_partials.
LEMMA MergedStill ==
  ASSUME MergedInTurn, UNCHANGED <<mergeMode, mainVars, merged, finals>>
  PROVE  MergedInTurn'
BY DEF mainVars, MergedInTurn, Interactive, Through, CountUpTo

\* In final merge mode a step of the aggregator does not happen, and a worker
\* at work means that the final merge has not begun.
LEMMA MergedStep == IInv /\ [Next]_vars => MergedInTurn'
<1> SUFFICES ASSUME IInv, [Next]_vars, ~Interactive' PROVE MergedInTurn'
  BY DEF MergedInTurn
<1>0. TypeOK /\ MainInStep /\ WorkersInStep /\ AggregatorInStep /\ MergedInTurn
  BY DEF IInv, Control
<1> USE DEF mainVars, taskVars, mergeVars, counters, threads
<1>1. CASE PrepStep
  BY <1>0, <1>1, MergedStill
     DEF PrepStep, PrepPush, PrepClose, FramePrep
<1>2. ASSUME NEW w \in Workers, WorkerStep(w), ~WorkerAppend(w)
      PROVE  MergedInTurn'
  <2>1. UNCHANGED finals
    BY <1>2 DEF WorkerStep, WorkerTake, WorkerLeave, WorkerRun, WorkerGive
  <2> QED
    BY <1>0, <1>2, <2>1, WorkerKeeps, MergedStill
<1>3. ASSUME NEW w \in Workers, WorkerAppend(w) PROVE MergedInTurn'
  <2>1. /\ main \notin {"mergeFinal", "post", "cleanup", "ended"}
        /\ main' = main /\ merged' = merged
    BY <1>0, <1>3 DEF WorkerAppend, FrameWorker, WorkersInStep
  <2> QED
    BY <1>0, <1>3, <2>1
       DEF WorkerAppend, MergedInTurn, Interactive, Through
<1>4. CASE AggregatorStep
  <2>1. mergeMode' = mergeMode /\ agg # "absent"
    BY <1>4 DEF AggregatorStep, AggregatorTake, AggregatorMerge,
       AggregatorLeave, FrameAgg
  <2> QED
    BY <1>0, <2>1 DEF AggregatorInStep, Interactive
<1>5. CASE MainStep /\ ~MainMergeFinal /\ ~MainJoinWorker
  <2>1. ~Interactive
    BY <1>5, MainKeeps DEF Interactive
  <2>2. /\ UNCHANGED <<merged, finals, mergeMode>>
        /\ main' # "mergeFinal" /\ main # "mergeFinal"
        /\ main \in {"post", "cleanup", "ended"} =>
             main' \in {"cleanup", "ended"}
        /\ Through' => Through
    BY <1>5, <2>1, MainElse
  <2> QED
    BY <1>0, <2>1, <2>2 DEF MergedInTurn
<1>6. CASE MainJoinWorker
  <2>1. /\ main = "joinWorkers"
        /\ UNCHANGED <<mergeMode, finals, merged>>
        /\ \/ main' = "joinWorkers"
           \/ main' = "mergeFinal" /\ index' = 0
           \/ main' = "crashed"
    BY <1>0, <1>6, JoinWorkerEffect DEF Interactive
  <2>2. \A b \in Batches : merged'[b] = 0 /\ CountUpTo(0, b) = 0
    BY <1>0, <2>1, CountUpToProperties DEF MergedInTurn, TypeOK, Interactive
  <2>3. Len(finals) \in Nat
    BY <1>0, LenProperties DEF TypeOK
  <2>4. CASE main' = "mergeFinal"
    <3>1. index' = 0 /\ 0 \in 0 .. Len(finals')
      BY <2>1, <2>3, <2>4
    <3>2. \A b \in Batches : merged'[b] = CountUpTo(0, b)'
      BY <2>1, <2>2 DEF CountUpTo
    <3> QED
      BY <2>4, <3>1, <3>2 DEF MergedInTurn, Through, CountUpTo
  <2>5. CASE main' # "mergeFinal"
    BY <2>1, <2>2, <2>5 DEF MergedInTurn, Through
  <2> QED
    BY <2>4, <2>5
<1>7. CASE MainMergeFinal
  <2>0. Len(finals) \in Nat /\ index \in 0 .. Len(finals) /\ main = "mergeFinal"
    BY <1>0, <1>7, LenProperties
       DEF MainMergeFinal, MergedInTurn, MainInStep, TypeOK
  <2>1. CASE index < Len(finals)
    <3>1. /\ index \in 0 .. Len(finals) - 1 /\ index' = index + 1
          /\ UNCHANGED <<main, finals>>
          /\ \A b \in Batches : merged'[b] = CountUpTo(index + 1, b)
      BY <1>7, <2>1, MergeTurn
    <3>2. index' \in 0 .. Len(finals')
      BY <2>0, <3>1
    <3> QED
      BY <2>0, <3>1, <3>2 DEF MergedInTurn, Through, CountUpTo
  <2>2. CASE ~(index < Len(finals))
    <3>1. index = Len(finals) /\ main' = "post" /\ UNCHANGED <<merged, finals>>
      BY <1>7, <2>0, <2>2 DEF MainMergeFinal, MainGoto
    <3>2. \A b \in Batches : merged[b] = Count(finals, b)
      BY <1>0, <1>7, <2>0, <3>1, CountUpToProperties
         DEF MergedInTurn, MainInStep, TypeOK
    <3> QED
      BY <3>1, <3>2 DEF MergedInTurn
  <2> QED
    BY <2>1, <2>2
<1>8. CASE UNCHANGED vars
  BY <1>0, <1>8, MergedStill DEF vars
<1> QED
  BY <1>1, <1>2, <1>3, <1>4, <1>5, <1>6, <1>7, <1>8 DEF Next

\* A step keeps what is merged in final mode below what is there to merge.
LEMMA MergedBound ==
  ASSUME IInv, [Next]_vars, ~Interactive', NEW b \in Batches
  PROVE  merged'[b] <= Count(finals', b)
<1>0. TypeOK /\ TypeOK' /\ AggregatorInStep
  BY TypeStep DEF IInv, Control
<1>a. /\ Count(finals, b) \in Nat /\ Count(finals', b) \in Nat
      /\ merged[b] \in Nat
  BY <1>0, CountType DEF TypeOK
<1>b. ~Interactive => merged[b] <= Count(finals, b)
  BY DEF IInv, EachBatchOnce
<1> USE DEF mainVars, taskVars, mergeVars, counters, threads
<1>1. CASE PrepStep
  BY <1>b, <1>1 DEF PrepStep, PrepPush, PrepClose, FramePrep, Interactive
<1>2. ASSUME NEW w \in Workers, WorkerStep(w), ~WorkerAppend(w)
      PROVE  merged'[b] <= Count(finals', b)
  <2>1. UNCHANGED finals
    BY <1>2 DEF WorkerStep, WorkerTake, WorkerLeave, WorkerRun, WorkerGive
  <2> QED
    BY <1>b, <1>2, <2>1, WorkerKeeps DEF Interactive
<1>3. ASSUME NEW w \in Workers, WorkerAppend(w)
      PROVE  merged'[b] <= Count(finals', b)
  <2>1. hold[w] \in Batches /\ merged' = merged /\ ~Interactive
    BY <1>3 DEF WorkerAppend, FrameWorker, IInv, Control, WorkersInStep
  <2>2. Count(finals', b) = Count(finals, b) + (IF b = hold[w] THEN 1 ELSE 0)
    BY <1>0, <1>3, <2>1, CountAppend DEF WorkerAppend, TypeOK
  <2> QED
    BY <1>a, <1>b, <2>1, <2>2
<1>4. CASE AggregatorStep
  <2>1. mergeMode' = mergeMode /\ agg # "absent"
    BY <1>4 DEF AggregatorStep, AggregatorTake, AggregatorMerge,
       AggregatorLeave, FrameAgg
  <2> QED
    BY <1>0, <2>1 DEF AggregatorInStep, Interactive
<1>5. CASE MainMergeFinal /\ index < Len(finals)
  <2>1. /\ index \in 0 .. Len(finals) - 1 /\ finals' = finals
        /\ merged'[b] = CountUpTo(index + 1, b)
    BY <1>5, MergeTurn
  <2>2. index + 1 \in 0 .. Len(finals)
    BY <1>0, <2>1, LenProperties DEF TypeOK
  <2> QED
    BY <1>0, <2>1, <2>2, CountUpToProperties DEF TypeOK
<1>6. CASE MainStep /\ ~(MainMergeFinal /\ index < Len(finals))
  <2>1. UNCHANGED <<mergeMode, finals>> /\ ~Interactive
    BY <1>6, MainKeeps DEF Interactive
  <2>2. UNCHANGED merged
    <3>1. CASE MainMergeFinal
      BY <1>6, <3>1 DEF MainMergeFinal
    <3>2. CASE MainJoinWorker
      BY <1>0, <3>2, JoinWorkerEffect
    <3>3. CASE ~MainMergeFinal /\ ~MainJoinWorker
      BY <1>6, <2>1, <3>3, MainElse
    <3> QED
      BY <3>1, <3>2, <3>3
  <2> QED
    BY <1>b, <2>1, <2>2
<1>7. CASE UNCHANGED vars
  BY <1>b, <1>7 DEF vars, Interactive
<1> QED
  BY <1>1, <1>2, <1>3, <1>4, <1>5, <1>6, <1>7 DEF Next

\* A step loses no batch and doubles none.
LEMMA BatchesStep ==
  IInv /\ [Next]_vars => EachBatchOnce' /\ UnfedNowhere'
<1> SUFFICES ASSUME IInv, [Next]_vars, NEW b \in Batches
             PROVE  /\ Copies(b)' <= 1
                    /\ b < fed' /\ ~failed' => Copies(b)' = 1
                    /\ ~Interactive' => merged'[b] <= Count(finals', b)
                    /\ b >= fed' => Copies(b)' = 0
  BY DEF EachBatchOnce, UnfedNowhere
<1>1. fed \in Nat /\ b \in Nat /\ Copies(b) \in Nat
  BY CopiesType DEF IInv, Control, TypeOK, Batches
<1>2. /\ Copies(b) <= 1
      /\ b < fed /\ ~failed => Copies(b) = 1
      /\ b >= fed => Copies(b) = 0
  BY DEF IInv, EachBatchOnce, UnfedNowhere
<1>3. ~failed' => ~failed
  BY FailureStays
<1>4. CASE fed' = fed /\ Copies(b)' = Copies(b)
  BY <1>1, <1>2, <1>3, <1>4, MergedBound
<1>5. CASE /\ fed' = fed + 1
           /\ Copies(b)' = Copies(b) + (IF b = fed THEN 1 ELSE 0)
  BY <1>1, <1>2, <1>3, <1>5, MergedBound
<1>6. CASE fed' = fed + 1 /\ Copies(b)' = Copies(b) /\ failed'
  BY <1>1, <1>2, <1>6, MergedBound
<1> QED
  BY <1>4, <1>5, <1>6, CopiesStep

-----------------------------------------------------------------------------
(* The theorems. *)

\* The invariant holds at the start.
LEMMA InitIInv == Init => IInv
<1> SUFFICES ASSUME Init PROVE IInv
  OBVIOUS
<1>1. /\ Len(tasks) = 0 /\ Len(partials) = 0 /\ Len(finals) = 0
      /\ tasks \in Seq(Batches) /\ partials \in Seq(Batches)
      /\ finals \in Seq(Batches)
  BY DEF Init
<1>2. TypeOK
  BY <1>1, IndexRange, PipelineAssumption DEF Init, TypeOK
<1>3. MainInStep /\ PrepInStep /\ WorkersInStep /\ AggregatorInStep
  BY DEF Init, MainInStep, PrepInStep, WorkersInStep, AggregatorInStep, Through
<1>4. At("run") = {} /\ At("give") = {}
  BY DEF Init, At
<1>5. CountersInStep
  <2>1. Cardinality(At("run")) = 0 /\ Cardinality(At("give")) = 0
    BY <1>4, FS_EmptySet
  <2> QED
    BY <1>1, <2>1 DEF Init, CountersInStep
<1>6. ASSUME NEW b \in Batches
      PROVE  Copies(b) = 0 /\ Count(finals, b) = 0 /\ merged[b] = 0
  <2>1. /\ Count(tasks, b) = 0 /\ Count(partials, b) = 0
        /\ Count(finals, b) = 0
    BY CountEmpty DEF Init
  <2>2. Holders(b) = {}
    BY DEF Init, Holders
  <2>3. InMerge(b) = 0 /\ merged[b] = 0
    BY DEF Init, InMerge
  <2>4. Cardinality(Holders(b)) = 0
    BY <2>2, FS_EmptySet
  <2> QED
    BY <2>1, <2>3, <2>4, CopiesParts
<1>7. \A b \in Batches : ~(b < fed)
  BY DEF Init, Batches
<1>8. EachBatchOnce /\ UnfedNowhere
  BY <1>6, <1>7 DEF EachBatchOnce, UnfedNowhere
<1>9. MergedInTurn
  BY <1>6 DEF Init, MergedInTurn, Through
<1> QED
  BY <1>2, <1>3, <1>5, <1>8, <1>9 DEF IInv, Control

\* IInv holds in every reachable state.
THEOREM Inductive == Spec => []IInv
<1>1. IInv /\ [Next]_vars => IInv'
  BY TypeStep, MainInStepStep, PrepInStepStep, WorkersInStepStep,
     AggregatorInStepStep, CountersStep, BatchesStep, MergedStep
     DEF IInv, Control
<1> QED
  BY <1>1, InitIInv, PTL DEF Spec

\* Every variable keeps its type: the labels, handles and indices are those of
\* run_pipeline_mode, and the queues and final_partials hold batches only.
THEOREM TypeCorrect == Spec => []TypeOK
<1>1. IInv => TypeOK
  BY DEF IInv, Control
<1> QED
  BY <1>1, Inductive, PTL

\* No batch is lost or handled twice, although every push ignores its result.
THEOREM NoBatchLostOrDoubled == Spec => []EachBatchOnce
<1>1. IInv => EachBatchOnce
  BY DEF IInv
<1> QED
  BY <1>1, Inductive, PTL

\* *out needs no mutex.
THEOREM OneWriter == Spec => []SingleWriter
<1>1. IInv => SingleWriter
  BY DEF IInv, Control, AggregatorInStep, SingleWriter
<1> QED
  BY <1>1, Inductive, PTL

\* No queue and no mutex is destroyed while a thread may still use it.
THEOREM TeardownIsSafe == Spec => []NothingDestroyedInUse
<1>1. IInv => NothingDestroyedInUse
  <2> SUFFICES ASSUME IInv, Active PROVE main \notin {"setup", "cleanup", "ended"}
    BY DEF IInv, Control, MainInStep, NothingDestroyedInUse
  <2>1. CASE prep = "push"
    BY <2>1 DEF IInv, Control, PrepInStep
  <2>2. ASSUME NEW w \in Workers, worker[w] \in {"take", "run", "give"}
        PROVE  main \notin {"setup", "cleanup", "ended"}
    BY <2>2 DEF IInv, Control, WorkersInStep
  <2>3. CASE agg \in {"collect", "merge"}
    BY <2>3 DEF IInv, Control, AggregatorInStep
  <2> QED
    BY <2>1, <2>2, <2>3 DEF Active
<1> QED
  BY <1>1, Inductive, PTL

\* A run without failures that is past its last join has been through all of
\* its work.
LEMMA ThroughIsAll ==
  ASSUME IInv, Through
  PROVE  /\ fed = NumBatches /\ tasks = <<>> /\ partials = <<>>
         /\ At("run") = {} /\ At("give") = {}
         /\ \A b \in Batches : merged[b] = 1
<1>0. /\ TypeOK /\ PrepInStep /\ WorkersInStep /\ AggregatorInStep
      /\ EachBatchOnce /\ MergedInTurn
      /\ main \in {"post", "cleanup", "ended"} /\ ~failed
  BY DEF IInv, Control, Through
<1>1. \A w \in Workers : worker[w] = "exited"
  BY <1>0 DEF WorkersInStep, TypeOK
<1>2. tasksClosed /\ tasks = <<>>
  BY <1>0, <1>1, IndexRange DEF WorkersInStep
<1>3. fed = NumBatches
  BY <1>0, <1>2 DEF PrepInStep
<1>4. partials = <<>> /\ agg # "merge"
  BY <1>0 DEF AggregatorInStep
<1>5. ASSUME NEW b \in Batches PROVE merged[b] = 1
  <2>1. Copies(b) = 1
    BY <1>0, <1>3, PipelineAssumption DEF EachBatchOnce, Batches
  <2>2. Count(tasks, b) = 0 /\ Count(partials, b) = 0 /\ InMerge(b) = 0
    BY <1>2, <1>4, CountEmpty DEF InMerge
  <2>3. Holders(b) = {}
    BY <1>1 DEF Holders
  <2>4. Cardinality(Holders(b)) = 0
    BY <2>3, FS_EmptySet
  <2>5. merged[b] \in Nat /\ Count(finals, b) \in Nat
    BY <1>0, CopiesType
  <2>6. ~Interactive => merged[b] = Count(finals, b)
    BY <1>0 DEF MergedInTurn
  <2> QED
    BY <2>1, <2>2, <2>4, <2>5, <2>6, CopiesParts
<1>6. At("run") = {} /\ At("give") = {}
  BY <1>1 DEF At
<1> QED
  BY <1>2, <1>3, <1>4, <1>5, <1>6

\* The counters account for the queues' contents, and at the end of a run that
\* returns 0 for every batch.
THEOREM CountersAccount == Spec => []CountersAgree
<1>1. IInv => CountersAgree
  <2> SUFFICES ASSUME IInv PROVE CountersAgree
    OBVIOUS
  <2>1. CountersInStep /\ pushes \in Nat /\ processed \in Nat
    BY DEF IInv, Control, TypeOK
  <2>2. ASSUME main = "ended", rc = 0
        PROVE  /\ processed = NumBatches
               /\ pushes = (IF Interactive THEN 2 ELSE 1) * NumBatches
    <3>1. Through /\ ~failed
      BY <2>2 DEF Through, IInv, Control, MainInStep
    <3>2. /\ fed = NumBatches /\ tasks = <<>>
          /\ At("run") = {} /\ At("give") = {}
      BY <3>1, ThroughIsAll
    <3>3. /\ Len(tasks) = 0 /\ Cardinality(At("run")) = 0
          /\ Cardinality(At("give")) = 0
      BY <3>2, FS_EmptySet
    <3>4. /\ processed = NumBatches
          /\ Interactive => pushes = NumBatches + NumBatches
          /\ ~Interactive => pushes = NumBatches
      BY <2>1, <3>1, <3>2, <3>3, PipelineAssumption DEF CountersInStep
    <3> QED
      BY <3>4, PipelineAssumption
  <2> QED
    BY <2>1, <2>2 DEF CountersInStep, CountersAgree
<1> QED
  BY <1>1, Inductive, PTL

\* Merging adds a batch that had not been merged.
LEMMA MergeIsNew ==
  ASSUME IInv, AggregatorMerge \/ (MainMergeFinal /\ index < Len(finals))
  PROVE  \E x \in Batches :
           /\ merged[x] = 0 /\ merged'[x] = 1
           /\ \A b \in Batches : b # x => merged'[b] = merged[b]
<1>0. TypeOK /\ AggregatorInStep /\ EachBatchOnce /\ MergedInTurn /\ MainInStep
  BY DEF IInv, Control
<1>1. CASE AggregatorMerge
  <2> DEFINE x == collected[Aggregator]
  <2>1. x \in Batches /\ agg = "merge" /\ Interactive
    BY <1>0, <1>1 DEF AggregatorMerge, AggregatorInStep
  <2>2. Copies(x) <= 1 /\ InMerge(x) = 1
    BY <1>0, <2>1 DEF EachBatchOnce, InMerge
  <2>3. merged[x] = 0
    BY <1>0, <2>1, <2>2, CopiesType, CopiesParts
  <2> QED
    BY <1>0, <1>1, <2>1, <2>3 DEF AggregatorMerge, TypeOK
<1>2. CASE MainMergeFinal /\ index < Len(finals)
  <2> DEFINE x == finals[index + 1]
  <2>0. /\ index \in 0 .. Len(finals) - 1 /\ Len(finals) \in Nat
        /\ ~Interactive /\ main = "mergeFinal"
    BY <1>0, <1>2, MergeTurn, LenProperties DEF TypeOK, MainMergeFinal
  <2>1. x \in Batches
    BY <1>0, <2>0, ElementOfSeq DEF TypeOK
  <2>2. /\ merged[x] = CountUpTo(index, x)
        /\ CountUpTo(index + 1, x) = CountUpTo(index, x) + 1
        /\ CountUpTo(index + 1, x) <= Count(finals, x)
    <3>1. merged[x] = CountUpTo(index, x)
      BY <1>2, <2>1, MergeTurn
    <3>2. finals \in Seq(Batches) /\ index + 1 \in 0 .. Len(finals)
      BY <1>0, <2>0 DEF TypeOK
    <3> QED
      BY <2>0, <3>1, <3>2, CountUpToProperties
  <2>3. Count(finals, x) <= 1
    BY <1>0, <2>0, <2>1, CopiesType, CopiesParts DEF EachBatchOnce
  <2>4. merged[x] = 0
    BY <1>0, <2>1, <2>2, <2>3, CopiesType
  <2> QED
    BY <1>0, <1>2, <2>1, <2>4 DEF MainMergeFinal, TypeOK
<1> QED
  BY <1>1, <1>2

\* Every other step leaves what is merged alone.
LEMMA MergedElse ==
  ASSUME IInv, [Next]_vars, ~AggregatorMerge,
         ~(MainMergeFinal /\ index < Len(finals))
  PROVE  UNCHANGED merged
<1> USE DEF mainVars, taskVars, mergeVars, counters, threads
<1>1. CASE PrepStep
  BY <1>1 DEF PrepStep, PrepPush, PrepClose, FramePrep
<1>2. ASSUME NEW w \in Workers, WorkerStep(w) PROVE UNCHANGED merged
  BY <1>2, WorkerKeeps
<1>3. CASE AggregatorTake \/ AggregatorLeave
  BY <1>3 DEF AggregatorTake, AggregatorLeave
<1>4. CASE MainStep
  <2>1. CASE MainMergeFinal
    BY <2>1 DEF MainMergeFinal
  <2>2. CASE Interactive
    BY <1>4, <2>2, MainKeeps
  <2>3. CASE MainJoinWorker
    BY <2>3, JoinWorkerEffect DEF IInv, Control
  <2> QED
    BY <1>4, <2>1, <2>2, <2>3, MainElse
<1>5. CASE UNCHANGED vars
  BY <1>5 DEF vars
<1> QED
  BY <1>1, <1>2, <1>3, <1>4, <1>5 DEF Next, AggregatorStep

\* How main gets to its end: MainCleanup tells a failure from a success, the
\* other ways are failures.
LEMMA EndingStep ==
  ASSUME IInv, [Next]_vars
  PROVE  \/ UNCHANGED <<main, rc>>
         \/ /\ main \notin {"ended", "crashed"} /\ rc = 0
            /\ main' \notin {"ended", "crashed"} /\ rc' = 0
         \/ /\ main \notin {"ended", "crashed"} /\ rc = 0
            /\ \/ main' = "crashed"
               \/ main' = "ended" /\ rc' = -1
               \/ /\ main' = "ended" /\ rc' = 0 /\ Through
                  /\ ~MainMergeFinal /\ ~AggregatorMerge
<1>0. TypeOK /\ MainInStep
  BY DEF IInv, Control
<1> USE <1>0 DEF mainVars, taskVars, mergeVars, counters, threads, MainGoto
<1>1. CASE PrepStep
  BY <1>1 DEF PrepStep, PrepPush, PrepClose, FramePrep
<1>2. ASSUME NEW w \in Workers, WorkerStep(w) PROVE UNCHANGED <<main, rc>>
  BY <1>2, WorkerKeeps
<1>3. CASE AggregatorStep
  BY <1>3, AggregatorKeeps
<1>4. CASE MainNoBatches
  BY <1>4 DEF MainNoBatches, MainInStep
<1>5. CASE MainSetup
  BY <1>5 DEF MainSetup, MainInStep
<1>6. CASE MainCreateAggregator \/ MainCreatePreprocessor
  BY <1>6 DEF MainCreateAggregator, MainCreatePreprocessor, MainInStep
<1>7. CASE MainNoPreprocessor \/ MainAbandonAggregator
  BY <1>7 DEF MainNoPreprocessor, MainAbandonAggregator, MainInStep
<1>8. CASE MainCreateWorker \/ MainNoWorker
  BY <1>8 DEF MainCreateWorker, MainNoWorker, MainInStep
<1>9. CASE MainJoinPreprocessor
  BY <1>9, JoinPreprocessorEffect DEF MainInStep
<1>10. CASE MainJoinWorker
  BY <1>10, JoinWorkerEffect DEF MainInStep
<1>11. CASE MainCloseMerge \/ MainJoinAggregator
  BY <1>11 DEF MainCloseMerge, MainJoinAggregator, MainInStep
<1>12. CASE MainMergeFinal \/ MainPost
  BY <1>12 DEF MainMergeFinal, MainPost, MainInStep
<1>13. CASE MainCleanup
  <2>1. /\ main = "cleanup" /\ main' = "ended" /\ failed' = failed
        /\ rc' = IF failed THEN -1 ELSE 0
        /\ agg' = agg
    BY <1>13 DEF MainCleanup
  <2>2. ~MainMergeFinal
    BY <2>1 DEF MainMergeFinal
  <2>3. ~AggregatorMerge
    BY <2>1 DEF AggregatorMerge
  <2> QED
    BY <2>1, <2>2, <2>3 DEF MainInStep, Through
<1>14. CASE UNCHANGED vars
  BY <1>14 DEF vars
<1> QED
  BY <1>1, <1>2, <1>3, <1>4, <1>5, <1>6, <1>7, <1>8, <1>9, <1>10, <1>11,
     <1>12, <1>13, <1>14 DEF Next, MainStep

\* The whole of Next, one step of SimulationRun or none at a time.
LEMMA StepOfRun == IInv /\ IInv' /\ [Next]_vars => [Run!Next]_(Run!vars)
<1> DEFINE accounted == {b \in Batches : merged[b] = 1}
           status == CASE main = "ended" /\ rc = 0 -> "ok"
                       [] main = "crashed" \/ rc = -1 -> "failed"
                       [] OTHER -> "running"
<1> SUFFICES ASSUME IInv, IInv', [Next]_vars
             PROVE  \/ /\ status = "running" /\ status' = status
                       /\ \E new \in SUBSET (Batches \ accounted) :
                            accounted' = accounted \cup new
                    \/ /\ status = "running" /\ accounted = Batches
                       /\ status' = "ok" /\ accounted' = accounted
                    \/ /\ status = "running" /\ status' = "failed"
                       /\ accounted' = accounted
                    \/ accounted' = accounted /\ status' = status
  BY DEF Run!Next, Run!Account, Run!Succeed, Run!GiveUp, Run!vars
<1>1. CASE AggregatorMerge \/ (MainMergeFinal /\ index < Len(finals))
  <2>1. PICK x \in Batches :
          /\ merged[x] = 0 /\ merged'[x] = 1
          /\ \A b \in Batches : b # x => merged'[b] = merged[b]
    BY <1>1, MergeIsNew
  <2>2. accounted' = accounted \cup {x} /\ {x} \in SUBSET (Batches \ accounted)
    BY <2>1
  <2>3. main \notin {"ended", "crashed"} /\ UNCHANGED <<main, rc>> /\ rc = 0
    <3>1. CASE AggregatorMerge
      BY <3>1 DEF AggregatorMerge, FrameAgg, mainVars, Alive, IInv, Control,
         AggregatorInStep, MainInStep
    <3>2. CASE MainMergeFinal /\ index < Len(finals)
      BY <3>2 DEF MainMergeFinal, IInv, Control, MainInStep
    <3> QED
      BY <1>1, <3>1, <3>2
  <2>4. status = "running" /\ status' = "running"
    BY <2>3
  <2> QED
    BY <2>2, <2>4
<1>2. CASE ~AggregatorMerge /\ ~(MainMergeFinal /\ index < Len(finals))
  <2>1. merged' = merged /\ accounted' = accounted
    BY <1>2, MergedElse
  <2>2. CASE UNCHANGED <<main, rc>>
    BY <2>1, <2>2
  <2>3. CASE /\ main \notin {"ended", "crashed"} /\ rc = 0
             /\ main' \notin {"ended", "crashed"} /\ rc' = 0
    BY <2>1, <2>3
  <2>4. CASE /\ main \notin {"ended", "crashed"} /\ rc = 0
             /\ \/ main' = "crashed"
                \/ main' = "ended" /\ rc' = -1
    <3>1. status = "running" /\ status' = "failed"
      BY <2>4
    <3> QED
      BY <2>1, <3>1
  <2>5. CASE /\ main \notin {"ended", "crashed"} /\ rc = 0
             /\ main' = "ended" /\ rc' = 0 /\ Through
    <3>1. accounted = Batches
      BY <2>5, ThroughIsAll
    <3>2. status = "running" /\ status' = "ok"
      BY <2>5
    <3> QED
      BY <2>1, <3>1, <3>2
  <2> QED
    BY <2>2, <2>3, <2>4, <2>5, EndingStep
<1> QED
  BY <1>1, <1>2

\* run_pipeline_mode implements SimulationRun: 0 only with every batch merged
\* exactly once, and nothing merged twice or after its return.
THEOREM ImplementsSimulationRun == Spec => ImplementsRun
<1>1. Init => Run!Init
  BY DEF Init, Run!Init
<1> QED
  BY <1>1, StepOfRun, Inductive, PTL DEF ImplementsRun, Run!Spec, Spec

-----------------------------------------------------------------------------
(* No standstill: the threads never all wait for each other.               *)

\* What each thread waits for has come, or it waits for nothing: the
\* conditions of task_queue_push and _pop, merge_queue_push and _pop, and of
\* the joins.
PrepMoves ==
  prep = "push" /\ (fed = NumBatches \/ tasksClosed \/ Len(tasks) < QueueSize)

WorkerMoves(w) ==
  \/ worker[w] = "run"
  \/ worker[w] = "take" /\ (tasks # <<>> \/ tasksClosed)
  \/ worker[w] = "give" /\ (Interactive => partialsClosed \/ Len(partials) < QueueSize)

AggregatorMoves ==
  \/ agg = "merge"
  \/ agg = "collect" /\ (partials # <<>> \/ partialsClosed)

MainMoves ==
  /\ main = "joinPreprocessor" => (prepHandle = "live" => prep = "exited")
  /\ main = "joinWorkers" => (handle[index] = "live" => worker[index] = "exited")
  /\ main \in {"abandonAggregator", "joinAggregator"} => agg = "exited"

SomebodyMoves ==
  PrepMoves \/ (\E w \in Workers : WorkerMoves(w)) \/ AggregatorMoves \/ MainMoves

\* Whom main waits for is there, and what closes its queue has been called.
Attended ==
  /\ main \in {"createAggregator", "createPreprocessor", "createWorkers"} =>
       ~failed
  /\ main \in {"joinPreprocessor", "joinWorkers"} /\ failed => tasksClosed
  /\ main \in {"joinAggregator", "abandonAggregator"} => partialsClosed
  /\ Interactive /\ main \in {"createWorkers", "joinPreprocessor", "joinWorkers"} =>
       prep # "absent"
  /\ Interactive /\ main \in {"createPreprocessor", "createWorkers",
                              "joinPreprocessor", "joinWorkers", "closeMerge",
                              "joinAggregator", "abandonAggregator"} =>
       agg # "absent"

LEMMA AttendedStep == IInv /\ Attended /\ [Next]_vars => Attended'
<1> SUFFICES ASSUME IInv, Attended, [Next]_vars PROVE Attended'
  OBVIOUS
<1>0. TypeOK /\ MainInStep /\ PrepInStep /\ AggregatorInStep
  BY DEF IInv, Control
<1> USE <1>0
    DEF mainVars, taskVars, mergeVars, counters, threads, Attended, Interactive
<1>1. CASE PrepPush
  BY <1>1 DEF PrepPush, FramePrep, TaskQueue!Accept
<1>2. CASE PrepClose
  BY <1>2 DEF PrepClose, FramePrep, TaskQueue!Close
<1>3. ASSUME NEW w \in Workers, WorkerStep(w) PROVE Attended'
  BY <1>3, WorkerKeeps
<1>4. CASE AggregatorStep
  <2>1. partialsClosed' = partialsClosed /\ (agg # "absent" => agg' # "absent")
    BY <1>4 DEF AggregatorStep, AggregatorTake, AggregatorMerge,
       AggregatorLeave, MergeQueue!Deliver, MergeQueue!Drain
  <2> QED
    BY <1>4, <2>1, AggregatorKeeps
<1>5. CASE MainNoBatches \/ MainSetup
  BY <1>5 DEF MainNoBatches, MainSetup, MainGoto
<1>6. CASE MainCreateAggregator
  BY <1>6 DEF MainCreateAggregator, MainGoto
<1>7. CASE MainCreatePreprocessor
  BY <1>7 DEF MainCreatePreprocessor, MainGoto
<1>8. CASE MainNoPreprocessor
  BY <1>8 DEF MainNoPreprocessor, MainGoto, MergeQueue!Close
<1>9. CASE MainCreateWorker
  BY <1>9 DEF MainCreateWorker, MainGoto
<1>10. CASE MainNoWorker
  BY <1>10 DEF MainNoWorker, MainGoto, TaskQueue!Close
<1>11. CASE MainJoinPreprocessor
  BY <1>11, JoinPreprocessorEffect
<1>12. CASE MainJoinWorker
  BY <1>12, JoinWorkerEffect
<1>13. CASE MainCloseMerge
  BY <1>13 DEF MainCloseMerge, MainGoto, MergeQueue!Close
<1>14. CASE \/ MainAbandonAggregator \/ MainJoinAggregator \/ MainMergeFinal
            \/ MainPost \/ MainCleanup
  BY <1>14 DEF MainAbandonAggregator, MainJoinAggregator, MainMergeFinal,
     MainPost, MainCleanup, MainGoto
<1>15. CASE UNCHANGED vars
  BY <1>15 DEF vars
<1> QED
  BY <1>1, <1>2, <1>3, <1>4, <1>5, <1>6, <1>7, <1>8, <1>9, <1>10, <1>11,
     <1>12, <1>13, <1>14, <1>15
     DEF Next, PrepStep, AggregatorStep, MainStep

\* As long as the run has not ended some thread can go on: the bounded queues
\* and the joins never make a circle of threads that wait for each other.
\* The one exception is a final merge without a preprocessor.
THEOREM NoStandstill == Spec => [](Ended \/ Unfed \/ SomebodyMoves)
<1>1. Init => Attended
  BY DEF Init, Attended
<1>2. IInv /\ Attended => Ended \/ Unfed \/ SomebodyMoves
  <2> SUFFICES ASSUME IInv, Attended, ~Ended, ~Unfed, ~SomebodyMoves
               PROVE  FALSE
    OBVIOUS
  <2>1. TypeOK /\ MainInStep /\ PrepInStep /\ WorkersInStep /\ AggregatorInStep
    BY DEF IInv, Control
  <2>2. /\ Len(tasks) \in Nat /\ Len(partials) \in Nat /\ QueueSize \in Nat \ {0}
        /\ Len(tasks) = 0 <=> tasks = <<>>
        /\ Len(partials) = 0 <=> partials = <<>>
        /\ 0 \in Workers
    BY <2>1, EmptySeq, PipelineAssumption DEF TypeOK, Workers
  \* Nobody but main waits with an aggregator that has something to do.
  <2>3. ASSUME NEW w \in Workers, worker[w] = "give" PROVE FALSE
    <3>1. Interactive /\ ~partialsClosed /\ Len(partials) >= QueueSize
      BY <2>2, <2>3 DEF SomebodyMoves, WorkerMoves
    <3>2. partials # <<>>
      BY <2>2, <3>1
    <3>3. main \in {"createWorkers", "joinPreprocessor", "joinWorkers"}
      BY <2>1, <2>3 DEF WorkersInStep, Ended, TypeOK
    <3>4. agg \in {"collect", "merge", "exited"}
      BY <2>1, <3>1, <3>3 DEF Attended, TypeOK
    <3> QED
      BY <2>1, <3>1, <3>2, <3>4
         DEF AggregatorInStep, SomebodyMoves, AggregatorMoves
  <2>4. ~MainMoves
    BY DEF SomebodyMoves
  <2>5. CASE main = "joinPreprocessor"
    <3>1. prep = "push" /\ ~tasksClosed /\ Len(tasks) >= QueueSize
      BY <2>1, <2>2, <2>4, <2>5
         DEF MainMoves, PrepInStep, SomebodyMoves, PrepMoves, TypeOK
    <3>2. ~failed
      BY <2>5, <3>1 DEF Attended
    <3>3. worker[0] \in {"take", "run", "give", "exited"}
      BY <2>1, <2>2, <2>5, <3>2 DEF WorkersInStep, TypeOK
    <3> QED
      BY <2>1, <2>2, <2>3, <3>1, <3>3 DEF WorkersInStep, SomebodyMoves, WorkerMoves
  <2>6. CASE main = "joinWorkers"
    <3>1. /\ index \in Workers /\ worker[index] \in {"take", "run", "give"}
      BY <2>1, <2>4, <2>6 DEF MainMoves, MainInStep, WorkersInStep, TypeOK
    <3>2. ~tasksClosed
      BY <2>3, <3>1 DEF SomebodyMoves, WorkerMoves
    <3>3. prep = "absent"
      BY <2>1, <2>6, <3>2 DEF PrepInStep, TypeOK
    <3> QED
      BY <2>1, <2>6, <3>3 DEF PrepInStep, Attended, Unfed
  <2>7. CASE main \in {"abandonAggregator", "joinAggregator"}
    <3>1. partialsClosed /\ Interactive
      BY <2>1, <2>7 DEF Attended, MainInStep
    <3>2. agg \in {"collect", "merge"}
      BY <2>1, <2>4, <2>7, <3>1 DEF MainMoves, Attended, TypeOK
    <3> QED
      BY <3>1, <3>2 DEF SomebodyMoves, AggregatorMoves
  <2> QED
    BY <2>4, <2>5, <2>6, <2>7 DEF MainMoves
<1> QED
  BY <1>1, <1>2, AttendedStep, Inductive, PTL DEF Spec

-----------------------------------------------------------------------------
(* Nobody can go on for ever.                                              *)

\* How far main is from the end, in loops of at most NumWorkers + NumBatches
\* turns.
MainPhase(label) ==
  CASE label = "setup"              -> 11
    [] label = "createAggregator"   -> 10
    [] label = "createPreprocessor" -> 9
    [] label = "createWorkers"      -> 8
    [] label = "joinPreprocessor"   -> 7
    [] label = "joinWorkers"        -> 6
    [] label = "closeMerge"         -> 5
    [] label \in {"joinAggregator", "mergeFinal"} -> 4
    [] label = "abandonAggregator"  -> 3
    [] label = "post"               -> 2
    [] label = "cleanup"            -> 1

MainLeft ==
  IF Ended THEN 0 ELSE MainPhase(main) * (NumWorkers + NumBatches + 1) - index

\* The steps a thread takes from a label on until it waits for another batch
\* or partial, and those that what it hands over causes.
StageLeft(label) ==
  CASE label = "exited" -> 0
    [] label \in {"push", "take", "collect"} -> 1
    [] label \in {"absent", "merge"} -> 2
    [] label = "give" -> 4
    [] label = "run"  -> 5

\* A batch still to be fed causes six steps at most, one in the task queue
\* five, and a partial in the merge queue two.
QueuesLeft == 6 * (NumBatches - fed) + 5 * Len(tasks) + 2 * Len(partials)

\* All but the workers.
RestLeft == MainLeft + StageLeft(prep) + StageLeft(agg) + QueuesLeft

\* No run takes more steps from here.
StepsLeft == RestLeft + SumOf([w \in Workers |-> StageLeft(worker[w])])

LeftOK ==
  /\ MainLeft \in Nat
  /\ StageLeft(prep) \in Nat /\ StageLeft(agg) \in Nat
  /\ QueuesLeft \in Nat
  /\ RestLeft \in Nat
  /\ \A w \in Workers : StageLeft(worker[w]) \in Nat

LEMMA LeftTypes == TypeOK => LeftOK
<1> SUFFICES ASSUME TypeOK PROVE LeftOK
  OBVIOUS
<1>1. MainLeft \in Nat
  <2> DEFINE n == NumWorkers + NumBatches
  <2>1. n \in Nat /\ index \in Nat /\ index <= n
    BY PipelineAssumption DEF TypeOK
  <2>2. Ended \/ MainPhase(main) \in 1 .. 11
    BY DEF TypeOK, Ended, MainPhase
  <2>3. MainLeft = IF Ended THEN 0 ELSE MainPhase(main) * (n + 1) - index
    BY DEF MainLeft
  <2> HIDE DEF n
  <2>4. ASSUME NEW k \in 1 .. 11 PROVE k * (n + 1) - index \in Nat
    <3>1. \E j \in Nat : k = j + 1
      <4>1. k = (k - 1) + 1 /\ k - 1 \in Nat
        OBVIOUS
      <4> QED
        BY <4>1
    <3>2. PICK j \in Nat : k = j + 1
      BY <3>1
    <3>3. (j + 1) * (n + 1) = j * (n + 1) + (n + 1) /\ j * (n + 1) \in Nat
      BY <2>1, TimesSucc
    <3> QED
      BY <2>1, <3>2, <3>3
  <2> QED
    BY <2>2, <2>3, <2>4
<1>2. /\ StageLeft(prep) \in Nat /\ StageLeft(agg) \in Nat
      /\ \A w \in Workers : StageLeft(worker[w]) \in Nat
  BY DEF TypeOK, StageLeft
<1>3. QueuesLeft \in Nat
  <2>1. /\ fed \in Nat /\ NumBatches \in Nat /\ fed <= NumBatches
        /\ Len(tasks) \in Nat /\ Len(partials) \in Nat
    BY PipelineAssumption, LenProperties DEF TypeOK
  <2> QED
    BY <2>1 DEF QueuesLeft
<1>4. RestLeft \in Nat
  BY <1>1, <1>2, <1>3 DEF RestLeft
<1> QED
  BY <1>1, <1>2, <1>3, <1>4 DEF LeftOK

\* A step of one worker, or of none.
LEMMA ShrinkingIsLess ==
  ASSUME LeftOK, LeftOK', NEW w \in Workers,
         \A v \in Workers \ {w} : worker'[v] = worker[v],
         RestLeft' + StageLeft(worker'[w]) < RestLeft + StageLeft(worker[w])
  PROVE  StepsLeft' < StepsLeft
<1> DEFINE r == [v \in Workers |-> StageLeft(worker[v])]
           s == [v \in Workers |-> StageLeft(worker'[v])]
<1>1. /\ RestLeft \in Nat /\ RestLeft' \in Nat
      /\ r \in [Workers -> Nat] /\ s \in [Workers -> Nat]
  BY DEF LeftOK
<1>2. \A v \in Workers \ {w} : s[v] = r[v]
  OBVIOUS
<1>3. StepsLeft = RestLeft + SumOf(r) /\ StepsLeft' = RestLeft' + SumOf(s)
  BY DEF StepsLeft
<1>4. RestLeft' + s[w] < RestLeft + r[w] /\ s[w] \in Nat /\ r[w] \in Nat
  BY <1>1
<1>5. IsFiniteSet(Workers)
  BY FS_Interval, PipelineAssumption DEF Workers
<1> HIDE DEF r, s
<1>6. /\ SumOf(r) \in Nat /\ SumOf(s) \in Nat
      /\ SumOf(s) + r[w] = SumOf(r) + s[w]
  BY <1>1, <1>2, <1>5, SumChange
<1> QED
  BY <1>1, <1>3, <1>4, <1>6

\* An item that goes in or out of the queues.
LEMMA QueuesChange ==
  ASSUME TypeOK, NEW b \in Batches
  PROVE  /\ fed' = fed /\ UNCHANGED <<tasks, partials>> => QueuesLeft' = QueuesLeft
         /\ fed' = fed + 1 /\ UNCHANGED <<tasks, partials>> =>
              QueuesLeft' = QueuesLeft - 6
         /\ fed' = fed + 1 /\ tasks' = Append(tasks, b) /\ UNCHANGED partials =>
              QueuesLeft' = QueuesLeft - 1
         /\ tasks # <<>> /\ tasks' = Tail(tasks) /\ UNCHANGED <<fed, partials>> =>
              QueuesLeft' = QueuesLeft - 5
         /\ partials' = Append(partials, b) /\ UNCHANGED <<fed, tasks>> =>
              QueuesLeft' = QueuesLeft + 2
         /\ partials # <<>> /\ partials' = Tail(partials) /\ UNCHANGED <<fed, tasks>> =>
              QueuesLeft' = QueuesLeft - 2
<1> DEFINE t == Len(tasks)
           u == Len(tasks')
           p == Len(partials)
           q == Len(partials')
<1>1. /\ tasks' = tasks => u = t
      /\ tasks' = Append(tasks, b) => u = t + 1
      /\ tasks # <<>> /\ tasks' = Tail(tasks) => u = t - 1
      /\ partials' = partials => q = p
      /\ partials' = Append(partials, b) => q = p + 1
      /\ partials # <<>> /\ partials' = Tail(partials) => q = p - 1
  <2>1. tasks \in Seq(Batches) /\ partials \in Seq(Batches)
    BY DEF TypeOK
  <2>2. ASSUME NEW z \in Seq(Batches)
        PROVE  /\ Len(Append(z, b)) = Len(z) + 1
               /\ z # <<>> => Len(Tail(z)) = Len(z) - 1
    BY <2>2, AppendProperties, HeadTailProperties
  <2> QED
    BY <2>1, <2>2
<1>2. /\ t \in Nat /\ p \in Nat /\ fed \in Nat /\ NumBatches \in Nat
      /\ tasks # <<>> => t - 1 \in Nat
  BY PipelineAssumption, LenProperties DEF TypeOK
<1>3. /\ QueuesLeft = 6 * (NumBatches - fed) + 5 * t + 2 * p
      /\ QueuesLeft' = 6 * (NumBatches - fed') + 5 * u + 2 * q
  BY DEF QueuesLeft
<1> HIDE DEF t, u, p, q
<1>4. /\ fed' = fed /\ u = t /\ q = p => QueuesLeft' = QueuesLeft
      /\ fed' = fed + 1 /\ u = t /\ q = p => QueuesLeft' = QueuesLeft - 6
      /\ fed' = fed + 1 /\ u = t + 1 /\ q = p => QueuesLeft' = QueuesLeft - 1
      /\ fed' = fed /\ u = t - 1 /\ q = p => QueuesLeft' = QueuesLeft - 5
      /\ fed' = fed /\ u = t /\ q = p + 1 => QueuesLeft' = QueuesLeft + 2
      /\ fed' = fed /\ u = t /\ q = p - 1 => QueuesLeft' = QueuesLeft - 2
  <2> DEFINE f == fed'
             x == QueuesLeft
             y == QueuesLeft'
  <2>1. x = 6 * (NumBatches - fed) + 5 * t + 2 * p
    BY <1>3
  <2>2. y = 6 * (NumBatches - f) + 5 * u + 2 * q
    BY <1>3
  <2> HIDE DEF f, x, y
  <2>3. /\ f = fed /\ u = t /\ q = p => y = x
        /\ f = fed + 1 /\ u = t /\ q = p => y = x - 6
        /\ f = fed + 1 /\ u = t + 1 /\ q = p => y = x - 1
        /\ f = fed /\ u = t - 1 /\ q = p => y = x - 5
        /\ f = fed /\ u = t /\ q = p + 1 => y = x + 2
        /\ f = fed /\ u = t /\ q = p - 1 => y = x - 2
    BY <1>2, <2>1, <2>2, SMTT(60)
  <2> QED
    BY <2>3 DEF f, x, y
<1> QED
  BY <1>1, <1>4

LEMMA SomeBatch == 0 \in Batches
BY PipelineAssumption DEF Batches

LEMMA PrepShrinks ==
  ASSUME IInv, LeftOK, PrepStep
  PROVE  UNCHANGED worker /\ RestLeft' < RestLeft
<1>0. TypeOK
  BY DEF IInv, Control
<1>1. UNCHANGED <<worker, agg, partials, main, index>>
  BY DEF PrepStep, PrepPush, PrepClose, FramePrep, mainVars, mergeVars
<1>2. MainLeft' = MainLeft
  BY <1>1 DEF MainLeft, Ended
<1>3. CASE PrepPush
  <2>1. prep' = prep /\ fed' = fed + 1 /\ fed < NumBatches
    BY <1>3 DEF PrepPush
  <2>2. tasks' = tasks \/ tasks' = Append(tasks, fed)
    BY <1>3 DEF PrepPush, TaskQueue!Accept, taskVars
  <2>3. fed \in Batches
    BY <1>0, <2>1, PipelineAssumption DEF TypeOK, Batches
  <2>4. QueuesLeft' = QueuesLeft - 6 \/ QueuesLeft' = QueuesLeft - 1
    BY <1>0, <1>1, <2>1, <2>2, <2>3, QueuesChange
  <2> QED
    BY <1>1, <1>2, <2>1, <2>4 DEF LeftOK, RestLeft
<1>4. CASE PrepClose
  <2>1. prep = "push" /\ prep' = "exited" /\ fed' = fed /\ tasks' = tasks
    BY <1>4 DEF PrepClose, TaskQueue!Close
  <2>2. StageLeft(prep) = 1 /\ StageLeft(prep') = 0
    BY <2>1 DEF StageLeft
  <2>3. QueuesLeft' = QueuesLeft
    BY <1>1, <2>1 DEF QueuesLeft
  <2> QED
    BY <1>1, <1>2, <2>2, <2>3 DEF LeftOK, RestLeft
<1> QED
  BY <1>1, <1>3, <1>4 DEF PrepStep

LEMMA WorkerShrinks ==
  ASSUME IInv, LeftOK, NEW w \in Workers, WorkerStep(w)
  PROVE  /\ \A v \in Workers \ {w} : worker'[v] = worker[v]
         /\ RestLeft' + StageLeft(worker'[w]) < RestLeft + StageLeft(worker[w])
<1>0. TypeOK /\ WorkersInStep
  BY DEF IInv, Control
<1>1. UNCHANGED <<main, index, prep, fed, agg>>
  BY WorkerKeeps DEF mainVars
<1>2. MainLeft' = MainLeft
  BY <1>1 DEF MainLeft, Ended
<1>3. \A v \in Workers \ {w} : worker'[v] = worker[v]
  BY <1>0 DEF WorkerStep, WorkerTake, WorkerLeave, WorkerRun, WorkerGive,
     WorkerAppend, WorkerGoto, TypeOK
<1>4. CASE WorkerTake(w)
  <2>1. worker[w] = "take" /\ worker'[w] = "run"
    BY <1>0, <1>4 DEF WorkerTake, WorkerGoto, TypeOK
  <2>2. QueuesLeft' = QueuesLeft - 5
    <3>1. tasks # <<>> /\ tasks' = Tail(tasks) /\ partials' = partials
      BY <1>4 DEF WorkerTake, TaskQueue!Deliver, mergeVars
    <3> QED
      BY <1>0, <1>1, <3>1, SomeBatch, QueuesChange
  <2>3. StageLeft(worker[w]) = 1 /\ StageLeft(worker'[w]) = 5
    BY <2>1 DEF StageLeft
  <2> QED
    BY <1>1, <1>2, <1>3, <2>2, <2>3 DEF LeftOK, RestLeft
<1>5. CASE WorkerLeave(w) \/ WorkerRun(w) \/ WorkerAppend(w)
  <2>1. /\ UNCHANGED <<tasks, partials>>
        /\ \/ worker[w] = "take" /\ worker'[w] = "exited"
           \/ worker[w] = "run" /\ worker'[w] = "give"
           \/ worker[w] = "give" /\ worker'[w] = "take"
    BY <1>0, <1>5 DEF WorkerLeave, WorkerRun, WorkerAppend, WorkerGoto, TypeOK,
       TaskQueue!Drain, taskVars, mergeVars
  <2>2. /\ StageLeft(worker[w]) \in Nat /\ StageLeft(worker'[w]) \in Nat
        /\ StageLeft(worker'[w]) < StageLeft(worker[w])
    BY <2>1 DEF StageLeft
  <2>3. QueuesLeft' = QueuesLeft
    BY <1>1, <2>1 DEF QueuesLeft
  <2> QED
    BY <1>1, <1>2, <1>3, <2>2, <2>3 DEF LeftOK, RestLeft
<1>6. CASE WorkerGive(w)
  <2>1. worker[w] = "give" /\ worker'[w] = "take" /\ hold[w] \in Batches
    BY <1>0, <1>6 DEF WorkerGive, WorkerGoto, TypeOK, WorkersInStep
  <2>2. tasks' = tasks /\ (partials' = partials \/ partials' = Append(partials, hold[w]))
    BY <1>6 DEF WorkerGive, MergeQueue!Accept, taskVars, mergeVars
  <2>3. QueuesLeft' = QueuesLeft \/ QueuesLeft' = QueuesLeft + 2
    BY <1>0, <1>1, <2>1, <2>2, QueuesChange
  <2>4. StageLeft(worker[w]) = 4 /\ StageLeft(worker'[w]) = 1
    BY <2>1 DEF StageLeft
  <2> QED
    BY <1>1, <1>2, <1>3, <2>3, <2>4 DEF LeftOK, RestLeft
<1> QED
  BY <1>4, <1>5, <1>6 DEF WorkerStep

LEMMA AggregatorShrinks ==
  ASSUME IInv, LeftOK, AggregatorStep
  PROVE  UNCHANGED worker /\ RestLeft' < RestLeft
<1>0. TypeOK
  BY DEF IInv, Control
<1>1. UNCHANGED <<main, index, prep, fed, worker, tasks>>
  BY AggregatorKeeps DEF mainVars, taskVars
<1>2. MainLeft' = MainLeft
  BY <1>1 DEF MainLeft, Ended
<1>3. CASE AggregatorTake
  <2>1. /\ agg = "collect" /\ agg' = "merge"
        /\ partials # <<>> /\ partials' = Tail(partials)
    BY <1>3 DEF AggregatorTake, MergeQueue!Deliver
  <2>2. StageLeft(agg) = 1 /\ StageLeft(agg') = 2
    BY <2>1 DEF StageLeft
  <2>3. QueuesLeft' = QueuesLeft - 2
    BY <1>0, <1>1, <2>1, SomeBatch, QueuesChange
  <2> QED
    BY <1>1, <1>2, <2>2, <2>3 DEF LeftOK, RestLeft
<1>4. CASE AggregatorMerge \/ AggregatorLeave
  <2>1. /\ partials' = partials
        /\ \/ agg = "merge" /\ agg' = "collect"
           \/ agg = "collect" /\ agg' = "exited"
    BY <1>4 DEF AggregatorMerge, AggregatorLeave, MergeQueue!Drain, mergeVars
  <2>2. StageLeft(agg) \in Nat /\ StageLeft(agg') \in Nat /\ StageLeft(agg') < StageLeft(agg)
    BY <2>1 DEF StageLeft
  <2>3. QueuesLeft' = QueuesLeft
    BY <1>1, <2>1 DEF QueuesLeft
  <2> QED
    BY <1>1, <1>2, <2>2, <2>3 DEF LeftOK, RestLeft
<1> QED
  BY <1>1, <1>3, <1>4 DEF AggregatorStep

\* A turn of a loop of main, or a step to a later label.
LEMMA MainGoesOnLess ==
  ASSUME TypeOK, ~Ended,
         \/ main' = main /\ index' = index + 1
         \/ Ended'
         \/ index' = 0 /\ MainPhase(main') \in 1 .. 11 /\ MainPhase(main') < MainPhase(main)
  PROVE  MainLeft' < MainLeft /\ MainLeft \in Nat
<1> DEFINE n == NumWorkers + NumBatches + 1
           a == MainPhase(main)
           b == MainPhase(main')
<1>1. n \in Nat /\ index \in Nat /\ index < n
  BY PipelineAssumption DEF TypeOK
<1>2. a \in 1 .. 11
  BY DEF TypeOK, Ended, MainPhase
<1>3. /\ MainLeft = a * n - index
      /\ MainLeft' = IF Ended' THEN 0 ELSE b * n - index'
  BY DEF MainLeft
<1>4. MainLeft \in Nat
  BY LeftTypes DEF LeftOK
<1>5. a * n \in Nat /\ a * n - index >= 1
  <2>1. PICK j \in Nat : a = j + 1
    <3>1. a = (a - 1) + 1 /\ a - 1 \in Nat
      BY <1>2
    <3> QED
      BY <3>1
  <2> HIDE DEF a, n
  <2>2. (j + 1) * n = j * n + n /\ j * n \in Nat
    BY <1>1, <2>1, TimesSucc
  <2> QED
    BY <1>1, <2>1, <2>2
<1>6. CASE Ended'
  <2>1. MainLeft' = 0 /\ MainLeft >= 1
    BY <1>3, <1>5, <1>6
  <2> QED
    BY <1>4, <2>1
<1>7. CASE main' = main /\ index' = index + 1 /\ ~Ended'
  <2>1. b = a
    BY <1>7
  <2>2. MainLeft' = a * n - (index + 1)
    BY <1>3, <1>7, <2>1
  <2> HIDE DEF a, b, n
  <2> QED
    BY <1>1, <1>3, <1>4, <1>5, <2>2
<1>8. CASE index' = 0 /\ b \in 1 .. 11 /\ b < a /\ ~Ended'
  <2> HIDE DEF a, b, n
  <2>1. PICK j \in Nat : a = (b + 1) + j
    <3>1. a = (b + 1) + (a - b - 1) /\ a - b - 1 \in Nat
      BY <1>2, <1>8
    <3> QED
      BY <3>1
  <2>2. /\ ((b + 1) + j) * n = (b + 1) * n + j * n /\ j * n \in Nat
        /\ (b + 1) * n = b * n + n /\ b * n \in Nat
    <3>1. b \in Nat /\ b + 1 \in Nat
      BY <1>8
    <3> QED
      BY <1>1, <3>1, TimesPlus, TimesSucc
  <2>3. a * n = b * n + n + j * n
    BY <2>1, <2>2
  <2>4. MainLeft' = b * n - 0
    BY <1>3, <1>8
  <2> DEFINE bn == b * n
             jn == j * n
             an == a * n
  <2>5. /\ an = bn + n + jn /\ bn \in Nat /\ jn \in Nat
        /\ MainLeft = an - index /\ MainLeft' = bn - 0
    BY <1>3, <2>2, <2>3, <2>4
  <2> HIDE DEF an, bn, jn
  <2>6. MainLeft' < MainLeft
    BY <1>1, <2>5
  <2> QED
    BY <1>4, <2>6
<1> QED
  BY <1>6, <1>7, <1>8

LEMMA MainPhases ==
  /\ MainPhase("setup") = 11
  /\ MainPhase("createAggregator") = 10
  /\ MainPhase("createPreprocessor") = 9
  /\ MainPhase("createWorkers") = 8
  /\ MainPhase("joinPreprocessor") = 7
  /\ MainPhase("joinWorkers") = 6
  /\ MainPhase("closeMerge") = 5
  /\ MainPhase("joinAggregator") = 4 /\ MainPhase("mergeFinal") = 4
  /\ MainPhase("abandonAggregator") = 3
  /\ MainPhase("post") = 2
  /\ MainPhase("cleanup") = 1
BY DEF MainPhase

\* What a step of main leaves as it was, and how far main gets.
LEMMA MainStepEffect ==
  ASSUME IInv, MainStep
  PROVE  /\ UNCHANGED <<fed, tasks, partials>>
         /\ prep' = prep \/ (prep = "absent" /\ prep' = "push")
         /\ agg' = agg \/ (agg = "absent" /\ agg' = "collect")
         /\ ~Ended
         /\ \/ main' = main /\ index' = index + 1
            \/ Ended'
            \/ index' = 0 /\ MainPhase(main') \in 1 .. 11 /\ MainPhase(main') < MainPhase(main)
<1>0. TypeOK /\ MainInStep /\ PrepInStep /\ AggregatorInStep
  BY DEF IInv, Control
<1> USE MainPhases DEF Ended, MainGoto, threads, taskVars, mergeVars
<1>1. CASE MainNoBatches \/ MainSetup
  BY <1>1 DEF MainNoBatches, MainSetup
<1>2. CASE MainCreateAggregator
  BY <1>0, <1>2 DEF MainCreateAggregator, AggregatorInStep
<1>3. CASE MainCreatePreprocessor
  BY <1>0, <1>3 DEF MainCreatePreprocessor, PrepInStep
<1>4. CASE MainNoPreprocessor
  BY <1>4 DEF MainNoPreprocessor, MergeQueue!Close
<1>5. CASE MainAbandonAggregator \/ MainCreateWorker
  BY <1>5 DEF MainAbandonAggregator, MainCreateWorker
<1>6. CASE MainNoWorker
  BY <1>6 DEF MainNoWorker, TaskQueue!Close
<1>7. CASE MainJoinPreprocessor
  BY <1>7, JoinPreprocessorEffect
<1>8. CASE MainJoinWorker
  BY <1>0, <1>8, JoinWorkerEffect
<1>9. CASE MainCloseMerge
  BY <1>9 DEF MainCloseMerge, MergeQueue!Close
<1>10. CASE MainJoinAggregator \/ MainMergeFinal \/ MainPost \/ MainCleanup
  BY <1>10 DEF MainJoinAggregator, MainMergeFinal, MainPost, MainCleanup
<1> QED
  BY <1>1, <1>2, <1>3, <1>4, <1>5, <1>6, <1>7, <1>8, <1>9, <1>10 DEF MainStep

\* A step of main leaves it less to do; creating a thread is that thread's first
\* step.
LEMMA MainShrinks ==
  ASSUME IInv, LeftOK, LeftOK', MainStep
  PROVE  \E w \in Workers :
           /\ \A v \in Workers \ {w} : worker'[v] = worker[v]
           /\ RestLeft' + StageLeft(worker'[w]) < RestLeft + StageLeft(worker[w])
<1>0. TypeOK
  BY DEF IInv, Control
<1>1. MainLeft' < MainLeft /\ QueuesLeft' = QueuesLeft
  BY <1>0, MainStepEffect, MainGoesOnLess DEF QueuesLeft
<1>2. StageLeft(prep') <= StageLeft(prep) /\ StageLeft(agg') <= StageLeft(agg)
  <2>1. \A l : StageLeft(l) \in Nat => StageLeft(l) <= StageLeft(l)
    OBVIOUS
  <2>2. StageLeft("absent") = 2 /\ StageLeft("push") = 1 /\ StageLeft("collect") = 1
    BY DEF StageLeft
  <2> QED
    BY <2>1, <2>2, MainStepEffect DEF LeftOK
<1>3. RestLeft' < RestLeft
  BY <1>1, <1>2 DEF RestLeft, LeftOK
<1>4. PICK w \in Workers : /\ \A v \in Workers \ {w} : worker'[v] = worker[v]
                           /\ \/ worker'[w] = worker[w]
                              \/ worker[w] = "absent" /\ worker'[w] = "take"
  <2>1. CASE MainCreateWorker
    BY <1>0, <2>1, MainKeeps DEF MainCreateWorker, TypeOK, IInv, Control, MainInStep
  <2>2. CASE ~MainCreateWorker
    <3>1. UNCHANGED worker
      BY <2>2 DEF MainStep, MainNoBatches, MainSetup, MainCreateAggregator,
         MainCreatePreprocessor, MainNoPreprocessor, MainAbandonAggregator,
         MainNoWorker, MainJoinPreprocessor, MainJoinWorker, JoinUndefined,
         MainCloseMerge, MainJoinAggregator, MainMergeFinal, MainPost, MainCleanup,
         threads
    <3> QED
      BY <3>1, IndexRange
  <2> QED
    BY <2>1, <2>2
<1>5. StageLeft(worker'[w]) <= StageLeft(worker[w])
  <2>1. StageLeft("absent") = 2 /\ StageLeft("take") = 1
    BY DEF StageLeft
  <2> QED
    BY <1>4, <2>1 DEF LeftOK
<1>6. RestLeft' + StageLeft(worker'[w]) < RestLeft + StageLeft(worker[w])
  BY <1>3, <1>5 DEF LeftOK
<1> QED
  BY <1>4, <1>6

LEMMA StepShrinks ==
  IInv /\ IInv' /\ [Next]_vars => [StepsLeft' < StepsLeft]_vars
<1> SUFFICES ASSUME IInv, IInv', [Next]_vars, ~UNCHANGED vars
             PROVE  StepsLeft' < StepsLeft
  OBVIOUS
<1>1. TypeOK /\ TypeOK'
  BY DEF IInv, Control
<1>2. LeftOK /\ LeftOK'
  BY <1>1, LeftTypes, PTL
<1>3. \E w \in Workers :
        /\ \A v \in Workers \ {w} : worker'[v] = worker[v]
        /\ RestLeft' + StageLeft(worker'[w]) < RestLeft + StageLeft(worker[w])
  <2>1. CASE PrepStep \/ AggregatorStep
    <3>1. UNCHANGED worker /\ RestLeft' < RestLeft /\ 0 \in Workers
      BY <1>2, <2>1, PrepShrinks, AggregatorShrinks, IndexRange
    <3>2. RestLeft' + StageLeft(worker[0]) < RestLeft + StageLeft(worker[0])
      BY <1>2, <3>1 DEF LeftOK
    <3> QED
      BY <3>1, <3>2
  <2> QED
    BY <1>2, <2>1, WorkerShrinks, MainShrinks DEF Next
<1> QED
  BY <1>2, <1>3, ShrinkingIsLess

\* Every step leaves fewer to take, so nobody can go on for ever: with
\* NoStandstill, run_pipeline_mode returns if its threads are scheduled,
\* whichever pthread_create fails, unless nobody feeds the task queue.
THEOREM StepsRunOut ==
  Spec => [](StepsLeft \in Nat) /\ [][StepsLeft' < StepsLeft]_vars
<1>1. IInv => StepsLeft \in Nat
  <2> SUFFICES ASSUME IInv PROVE StepsLeft \in Nat
    OBVIOUS
  <2>1. LeftOK
    BY LeftTypes DEF IInv, Control
  <2>2. IsFiniteSet(Workers)
    BY FS_Interval, PipelineAssumption DEF Workers
  <2>3. SumOf([w \in Workers |-> StageLeft(worker[w])]) \in Nat
    BY <2>1, <2>2, SumType DEF LeftOK
  <2> QED
    BY <2>1, <2>3 DEF LeftOK, StepsLeft
<1> QED
  BY <1>1, StepShrinks, Inductive, PTL DEF Spec

=============================================================================
