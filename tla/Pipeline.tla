------------------------------ MODULE Pipeline ------------------------------
(***************************************************************************)
(* run_pipeline_mode of src/src/pipeline_mode.c: the main thread, the      *)
(* preprocessor that feeds the task queue, the workers, and in interactive *)
(* merge mode the aggregator behind the merge queue.  In final merge mode  *)
(* the workers append to an array that the main thread merges at the end.  *)
(*                                                                         *)
(* The two queues are the closeable channels that MonitorQueue is proved   *)
(* to implement, so a thread asleep in push or pop is one whose channel    *)
(* operation is not enabled.  A batch, its Result and its PartialResult    *)
(* are the number of the batch.                                            *)
(*                                                                         *)
(* Every pthread_create may fail.  A failed call leaves the handle it was  *)
(* given as it was (zero from calloc, or uninitialised) or overwritten;    *)
(* joining a handle that names no thread is undefined, and is taken to     *)
(* return or to crash the process.                                         *)
(***************************************************************************)
EXTENDS Integers, Sequences, FiniteSets

CONSTANTS
  NumWorkers,   \* cfg->threads
  NumBatches,   \* batch_count
  QueueSize,    \* cfg->queue_size, the capacity of both queues
  Aggregator,   \* the one consumer of the merge queue
  NoBatch       \* the uninitialised batch or partial of a thread

\* What config_validate and create_batches let through.
ASSUME PipelineAssumption ==
  /\ NumWorkers \in Nat \ {0}
  /\ NumBatches \in Nat \ {0}
  /\ QueueSize \in Nat \ {0}
  /\ NoBatch \notin 0 .. NumBatches - 1

Workers == 0 .. NumWorkers - 1
Batches == 0 .. NumBatches - 1

\* The objects set up before any thread starts and destroyed at cleanup.
Objects == {"task_queue", "merge_queue", "final_mutex", "metrics_mutex"}

VARIABLES
  mergeMode,                \* cfg->merge_mode: "final" or "interactive"
  main,                     \* where run_pipeline_mode is
  index,                    \* i of its current loop
  failed, rc, ready,
  prep, fed,                \* the preprocessor, and its loop index
  prepHandle,               \* what pthread_t preprocessor holds
  worker, hold,             \* each worker, and its batch
  handle,                   \* what workers[i] holds
  agg, collected,           \* the aggregator, and its partial
  tasks, tasksClosed,       \* the task queue
  partials, partialsClosed, \* the merge queue
  finals,                   \* final_partials[0 .. final_count - 1]
  merged,                   \* how often each batch was merged into *out
  pushes, pops, processed   \* queue_push_count, queue_pop_count, processed_batches

mainVars  == <<main, index, failed, rc, ready, prepHandle, handle>>
taskVars  == <<tasks, tasksClosed>>
mergeVars == <<partials, partialsClosed>>
counters  == <<pushes, pops, processed>>
threads   == <<prep, fed, worker, hold, agg, collected>>

vars == <<mergeMode, mainVars, prep, fed, worker, hold, agg, collected, taskVars,
          mergeVars, finals, merged, counters>>

Interactive == mergeMode = "interactive"

TaskQueue == INSTANCE BoundedChannel
  WITH Items <- Batches, Consumers <- Workers, Capacity <- QueueSize,
       NoItem <- NoBatch, items <- tasks, closed <- tasksClosed, out <- hold,
       drained <- {w \in Workers : worker[w] = "exited"}

MergeQueue == INSTANCE BoundedChannel
  WITH Items <- Batches, Consumers <- {Aggregator}, Capacity <- QueueSize,
       NoItem <- NoBatch, items <- partials, closed <- partialsClosed,
       out <- collected,
       drained <- {a \in {Aggregator} : agg = "exited"}

-----------------------------------------------------------------------------
Init ==
  /\ mergeMode \in {"final", "interactive"}
  /\ main = "setup"
  /\ index = 0
  /\ failed = FALSE
  /\ rc = 0
  /\ ready = {}
  /\ prep = "absent"
  /\ fed = 0
  /\ prepHandle = "garbage"
  /\ worker = [w \in Workers |-> "absent"]
  /\ hold = [w \in Workers |-> NoBatch]
  /\ handle = [w \in Workers |-> "null"]
  /\ agg = "absent"
  /\ collected = [a \in {Aggregator} |-> NoBatch]
  /\ tasks = <<>>
  /\ tasksClosed = FALSE
  /\ partials = <<>>
  /\ partialsClosed = FALSE
  /\ finals = <<>>
  /\ merged = [b \in Batches |-> 0]
  /\ pushes = 0
  /\ pops = 0
  /\ processed = 0

\* Once the process has crashed nothing runs any more.
Alive == main # "crashed"

-----------------------------------------------------------------------------
(* Faulty variants of the definitions below; nothing here uses them.  Each *)
(* is a slip the code could contain, and some property tells it apart.     *)

PrepGoto(label) ==
  /\ prep' = label
  /\ UNCHANGED <<mergeMode, mainVars, worker, hold, agg, collected, mergeVars,
                 finals, merged, pops, processed>>

\* The loop runs to i <= batch_count.
PrepPushOneMore ==
  /\ prep = "push"
  /\ fed <= NumBatches
  /\ fed' = fed + 1
  /\ PrepGoto("push")
  /\ \/ Len(tasks) < QueueSize /\ tasks' = Append(tasks, fed)
        /\ pushes' = pushes + 1 /\ UNCHANGED tasksClosed
     \/ tasksClosed /\ UNCHANGED <<taskVars, pushes>>

\* A pop that finds the queue closed and empty is counted.
WorkerLeaveCounted(w) ==
  /\ worker[w] = "take"
  /\ tasksClosed /\ tasks = <<>>
  /\ worker' = [worker EXCEPT ![w] = "exited"]
  /\ pops' = pops + 1
  /\ UNCHANGED <<mergeMode, mainVars, prep, fed, hold, agg, collected,
                 taskVars, mergeVars, finals, merged, pushes, processed>>

\* A worker that finds the queue closed and empty tries again.
WorkerLeaveSpins(w) ==
  /\ worker[w] = "take"
  /\ tasksClosed /\ tasks = <<>>
  /\ UNCHANGED vars

\* final_partials is written without final_mutex.
WorkerAppendUnlocked(w) ==
  /\ ~Interactive
  /\ worker[w] = "give"
  /\ worker' = [worker EXCEPT ![w] = "take"]
  /\ \/ finals' = Append(finals, hold[w])
     \/ finals # <<>> /\ finals' = [finals EXCEPT ![Len(finals)] = hold[w]]
  /\ UNCHANGED <<mergeMode, mainVars, prep, fed, hold, agg, collected,
                 taskVars, mergeVars, merged, counters>>

\* A main thread that goes on without waiting.
MainGoesOn(from, to) ==
  /\ main = from
  /\ main' = to
  /\ index' = 0
  /\ UNCHANGED <<mergeMode, failed, rc, ready, prepHandle, handle, threads,
                 taskVars, mergeVars, finals, merged, counters>>

AbandonNotJoined == MainGoesOn("abandonAggregator", "cleanup")

AggregatorNotJoined == MainGoesOn("joinAggregator", "post")

\* A failure on the way is forgotten.
MainCleanupReturnsZero ==
  /\ main = "cleanup"
  /\ main' = "ended"
  /\ ready' = {}
  /\ UNCHANGED <<mergeMode, index, failed, rc, prepHandle, handle, threads,
                 taskVars, mergeVars, finals, merged, counters>>

-----------------------------------------------------------------------------
(* ---- preprocessor_thread ------------------------------------------------*)

FramePrep == UNCHANGED <<mergeMode, mainVars, worker, hold, agg, collected,
                         mergeVars, finals, merged, pops, processed>>

\* One turn of the loop; the result of task_queue_push is ignored.
PrepPush ==
  /\ Alive
  /\ prep = "push"
  /\ fed < NumBatches
  /\ fed' = fed + 1
  /\ UNCHANGED prep
  /\ FramePrep
  /\ \/ TaskQueue!Accept(fed) /\ pushes' = pushes + 1
     \/ tasksClosed /\ UNCHANGED <<taskVars, pushes>>

PrepClose ==
  /\ Alive
  /\ prep = "push"
  /\ fed = NumBatches
  /\ prep' = "exited"
  /\ UNCHANGED <<mergeMode, fed, pushes>>
  /\ FramePrep
  /\ TaskQueue!Close

(* ---- pipeline_worker ----------------------------------------------------*)

FrameWorker == UNCHANGED <<mergeMode, mainVars, prep, fed, agg, collected>>

WorkerGoto(w, label) == worker' = [worker EXCEPT ![w] = label]

WorkerTake(w) ==
  /\ Alive
  /\ worker[w] = "take"
  /\ WorkerGoto(w, "run")
  /\ TaskQueue!Deliver(w)
  /\ pops' = pops + 1
  /\ UNCHANGED <<mergeMode, mergeVars, finals, merged, pushes, processed>>
  /\ FrameWorker

\* task_queue_pop returns 0 and the thread ends.
WorkerLeave(w) ==
  /\ Alive
  /\ worker[w] = "take"
  /\ WorkerGoto(w, "exited")
  /\ TaskQueue!Drain(w)
  /\ UNCHANGED <<mergeMode, mergeVars, finals, merged, counters>>
  /\ FrameWorker

\* run_batch and increment_processed_batches.
WorkerRun(w) ==
  /\ Alive
  /\ worker[w] = "run"
  /\ WorkerGoto(w, "give")
  /\ processed' = processed + 1
  /\ UNCHANGED <<mergeMode, hold, taskVars, mergeVars, finals, merged, pushes,
                 pops>>
  /\ FrameWorker

\* Interactive: the result of merge_queue_push is ignored, so a partial
\* refused by a closed queue is lost.
WorkerGive(w) ==
  /\ Alive
  /\ Interactive
  /\ worker[w] = "give"
  /\ WorkerGoto(w, "take")
  /\ UNCHANGED <<mergeMode, hold, taskVars, finals, merged, pops, processed>>
  /\ FrameWorker
  /\ \/ MergeQueue!Accept(hold[w]) /\ pushes' = pushes + 1
     \/ partialsClosed /\ UNCHANGED <<mergeVars, pushes>>

\* Final: append to final_partials under final_mutex.
WorkerAppend(w) ==
  /\ Alive
  /\ ~Interactive
  /\ worker[w] = "give"
  /\ WorkerGoto(w, "take")
  /\ finals' = Append(finals, hold[w])
  /\ UNCHANGED <<mergeMode, hold, taskVars, mergeVars, merged, counters>>
  /\ FrameWorker

(* ---- aggregator_thread --------------------------------------------------*)

FrameAgg == UNCHANGED <<mergeMode, mainVars, prep, fed, worker, hold, taskVars,
                        finals, pushes, processed>>

AggregatorTake ==
  /\ Alive
  /\ agg = "collect"
  /\ agg' = "merge"
  /\ MergeQueue!Deliver(Aggregator)
  /\ pops' = pops + 1
  /\ UNCHANGED merged
  /\ FrameAgg

\* result_merge(out, &partial.result)
AggregatorMerge ==
  /\ Alive
  /\ agg = "merge"
  /\ agg' = "collect"
  /\ merged' = [merged EXCEPT ![collected[Aggregator]] = @ + 1]
  /\ UNCHANGED <<mergeMode, mergeVars, collected, pops>>
  /\ FrameAgg

AggregatorLeave ==
  /\ Alive
  /\ agg = "collect"
  /\ agg' = "exited"
  /\ MergeQueue!Drain(Aggregator)
  /\ UNCHANGED <<mergeMode, merged, pops>>
  /\ FrameAgg

(* ---- run_pipeline_mode --------------------------------------------------*)

MainGoto(label) == main' = label /\ index' = 0

\* create_batches fails: return -1 at once.
MainNoBatches ==
  /\ main = "setup"
  /\ MainGoto("ended")
  /\ rc' = -1
  /\ UNCHANGED <<mergeMode, failed, ready, prepHandle, handle, threads,
                 taskVars, mergeVars, finals, merged, counters>>

\* The callocs and inits, in order; the first failure goes to cleanup with
\* what is ready so far.
MainSetup ==
  /\ main = "setup"
  /\ ready' \in {{}, {"task_queue"}, {"task_queue", "merge_queue"},
                 Objects \ {"metrics_mutex"}, Objects}
  /\ failed' = (ready' # Objects)
  /\ MainGoto(IF ready' # Objects THEN "cleanup"
              ELSE IF Interactive THEN "createAggregator"
              ELSE "createPreprocessor")
  /\ UNCHANGED <<mergeMode, rc, prepHandle, handle, threads, taskVars,
                 mergeVars, finals, merged, counters>>

MainCreateAggregator ==
  /\ main = "createAggregator"
  /\ \/ agg' = "collect" /\ MainGoto("createPreprocessor") /\ UNCHANGED failed
     \/ failed' = TRUE /\ MainGoto("cleanup") /\ UNCHANGED agg
  /\ UNCHANGED <<mergeMode, rc, ready, prepHandle, handle, prep, fed, worker,
                 hold, collected, taskVars, mergeVars, finals, merged,
                 counters>>

MainCreatePreprocessor ==
  /\ main = "createPreprocessor"
  /\ prep' = "push"
  /\ prepHandle' = "live"
  /\ MainGoto("createWorkers")
  /\ UNCHANGED <<mergeMode, failed, rc, ready, handle, fed, worker, hold, agg,
                 collected, taskVars, mergeVars, finals, merged, counters>>

\* Interactive: the failure is seen, the merge queue is closed and the
\* aggregator joined.  Final: the result of pthread_create is ignored.
MainNoPreprocessor ==
  /\ main = "createPreprocessor"
  /\ UNCHANGED <<mergeMode, rc, ready, prepHandle, handle, threads, taskVars,
                 finals, merged, counters>>
  /\ IF Interactive
       THEN /\ failed' = TRUE
            /\ MergeQueue!Close
            /\ MainGoto("abandonAggregator")
       ELSE /\ MainGoto("createWorkers")
            /\ UNCHANGED <<failed, mergeVars>>

MainAbandonAggregator ==
  /\ main = "abandonAggregator"
  /\ agg = "exited"
  /\ MainGoto("cleanup")
  /\ UNCHANGED <<mergeMode, failed, rc, ready, prepHandle, handle, threads,
                 taskVars, mergeVars, finals, merged, counters>>

MainCreateWorker ==
  /\ main = "createWorkers"
  /\ worker' = [worker EXCEPT ![index] = "take"]
  /\ handle' = [handle EXCEPT ![index] = "live"]
  /\ IF index + 1 < NumWorkers
       THEN index' = index + 1 /\ UNCHANGED main
       ELSE MainGoto("joinPreprocessor")
  /\ UNCHANGED <<mergeMode, failed, rc, ready, prepHandle, prep, fed, hold,
                 agg, collected, taskVars, mergeVars, finals, merged,
                 counters>>

\* task_queue_close lets the threads there are run dry.
MainNoWorker ==
  /\ main = "createWorkers"
  /\ \E h \in {"null", "stale"} : handle' = [handle EXCEPT ![index] = h]
  /\ failed' = TRUE
  /\ MainGoto("joinPreprocessor")
  /\ UNCHANGED <<mergeMode, rc, ready, prepHandle, threads, mergeVars, finals,
                 merged, counters>>
  /\ TaskQueue!Close

\* pthread_join on a handle that names no thread.
JoinUndefined ==
  /\ main' = "crashed"
  /\ UNCHANGED <<mergeMode, index, failed, rc, ready, prepHandle, handle,
                 threads, taskVars, mergeVars, finals, merged, counters>>

MainJoinPreprocessor ==
  /\ main = "joinPreprocessor"
  /\ prepHandle = "live" => prep = "exited"
  /\ \/ MainGoto("joinWorkers")
        /\ UNCHANGED <<mergeMode, failed, rc, ready, prepHandle, handle,
                       threads, taskVars, mergeVars, finals, merged, counters>>
     \/ prepHandle = "garbage" /\ JoinUndefined

\* One turn of the loop over workers[]; zero handles are skipped.
MainJoinWorker ==
  /\ main = "joinWorkers"
  /\ handle[index] = "live" => worker[index] = "exited"
  /\ \/ /\ IF index + 1 < NumWorkers
             THEN index' = index + 1 /\ UNCHANGED main
             ELSE MainGoto(IF Interactive THEN "closeMerge" ELSE "mergeFinal")
        /\ UNCHANGED <<mergeMode, failed, rc, ready, prepHandle, handle,
                       threads, taskVars, mergeVars, finals, merged, counters>>
     \/ handle[index] = "stale" /\ JoinUndefined

MainCloseMerge ==
  /\ main = "closeMerge"
  /\ MainGoto("joinAggregator")
  /\ UNCHANGED <<mergeMode, failed, rc, ready, prepHandle, handle, threads,
                 taskVars, finals, merged, counters>>
  /\ MergeQueue!Close

MainJoinAggregator ==
  /\ main = "joinAggregator"
  /\ agg = "exited"
  /\ MainGoto("post")
  /\ UNCHANGED <<mergeMode, failed, rc, ready, prepHandle, handle, threads,
                 taskVars, mergeVars, finals, merged, counters>>

\* Final: result_merge(out, &final_partials[i]), one turn of the loop.
MainMergeFinal ==
  /\ main = "mergeFinal"
  /\ IF index < Len(finals)
       THEN /\ merged' = [merged EXCEPT ![finals[index + 1]] = @ + 1]
            /\ index' = index + 1
            /\ UNCHANGED main
       ELSE MainGoto("post") /\ UNCHANGED merged
  /\ UNCHANGED <<mergeMode, failed, rc, ready, prepHandle, handle, threads,
                 taskVars, mergeVars, finals, counters>>

\* Postprocessing reads *out.
MainPost ==
  /\ main = "post"
  /\ MainGoto("cleanup")
  /\ UNCHANGED <<mergeMode, failed, rc, ready, prepHandle, handle, threads,
                 taskVars, mergeVars, finals, merged, counters>>

\* Destroy what is ready, free everything, return failed ? -1 : 0.
MainCleanup ==
  /\ main = "cleanup"
  /\ ready' = {}
  /\ rc' = IF failed THEN -1 ELSE 0
  /\ MainGoto("ended")
  /\ UNCHANGED <<mergeMode, failed, prepHandle, handle, threads, taskVars,
                 mergeVars, finals, merged, counters>>

-----------------------------------------------------------------------------
PrepStep == PrepPush \/ PrepClose

WorkerStep(w) ==
  \/ WorkerTake(w) \/ WorkerLeave(w) \/ WorkerRun(w)
  \/ WorkerGive(w) \/ WorkerAppend(w)

AggregatorStep == AggregatorTake \/ AggregatorMerge \/ AggregatorLeave

MainStep ==
  \/ MainNoBatches \/ MainSetup
  \/ MainCreateAggregator \/ MainCreatePreprocessor \/ MainNoPreprocessor
  \/ MainAbandonAggregator \/ MainCreateWorker \/ MainNoWorker
  \/ MainJoinPreprocessor \/ MainJoinWorker
  \/ MainCloseMerge \/ MainJoinAggregator \/ MainMergeFinal
  \/ MainPost \/ MainCleanup

\* run_pipeline_mode has returned, or the process is gone.
Ended == main \in {"ended", "crashed"}

Next ==
  \/ PrepStep
  \/ \E w \in Workers : WorkerStep(w)
  \/ AggregatorStep
  \/ MainStep
  \/ Ended /\ UNCHANGED vars

Spec == Init /\ [][Next]_vars

\* Every thread that can run is run.
Fairness ==
  /\ WF_vars(PrepStep)
  /\ \A w \in Workers : WF_vars(WorkerStep(w))
  /\ WF_vars(AggregatorStep)
  /\ WF_vars(MainStep)

FairSpec == Spec /\ Fairness

-----------------------------------------------------------------------------
(* Properties. *)

TypeOK ==
  /\ mergeMode \in {"final", "interactive"}
  /\ main \in {"setup", "createAggregator", "createPreprocessor",
               "abandonAggregator", "createWorkers", "joinPreprocessor",
               "joinWorkers", "closeMerge", "joinAggregator", "mergeFinal",
               "post", "cleanup", "ended", "crashed"}
  /\ index \in 0 .. NumWorkers + NumBatches
  /\ failed \in BOOLEAN
  /\ rc \in {0, -1}
  /\ ready \subseteq Objects
  /\ prep \in {"absent", "push", "exited"}
  /\ fed \in 0 .. NumBatches
  /\ prepHandle \in {"garbage", "live"}
  /\ worker \in [Workers -> {"absent", "take", "run", "give", "exited"}]
  /\ hold \in [Workers -> Batches \cup {NoBatch}]
  /\ handle \in [Workers -> {"null", "live", "stale"}]
  /\ agg \in {"absent", "collect", "merge", "exited"}
  /\ collected \in [{Aggregator} -> Batches \cup {NoBatch}]
  /\ tasks \in Seq(Batches)
  /\ tasksClosed \in BOOLEAN
  /\ partials \in Seq(Batches)
  /\ partialsClosed \in BOOLEAN
  /\ finals \in Seq(Batches)
  /\ merged \in [Batches -> Nat]
  /\ pushes \in Nat
  /\ pops \in Nat
  /\ processed \in Nat

\* How often b occurs in a queue or in final_partials.
Count(q, b) == Cardinality({k \in DOMAIN q : q[k] = b})

\* The workers that have b in hand.
Holders(b) == {w \in Workers : worker[w] \in {"run", "give"} /\ hold[w] = b}

\* The places a batch goes through: task queue, worker, then merge queue,
\* aggregator and *out, or final_partials.
Copies(b) ==
  Count(tasks, b)
  + Cardinality(Holders(b))
  + IF Interactive
      THEN Count(partials, b)
           + (IF agg = "merge" /\ collected[Aggregator] = b THEN 1 ELSE 0)
           + merged[b]
      ELSE Count(finals, b)

\* No batch is lost or handled twice on its way through the queues and the
\* threads, although every push ignores its result.  Only a batch pushed
\* after a failed pthread_create has closed the task queue may be missing.
EachBatchOnce ==
  \A b \in Batches :
    /\ Copies(b) <= 1
    /\ b < fed /\ ~failed => Copies(b) = 1
    /\ ~Interactive => merged[b] <= Count(finals, b)

\* *out has one writer at a time, without a mutex: the aggregator merges
\* only before the main thread merges, postprocesses or returns.
SingleWriter ==
  agg = "merge" => main \notin {"mergeFinal", "post", "cleanup", "ended"}

\* A thread that may still use a queue or a mutex.
Active ==
  \/ prep = "push"
  \/ \E w \in Workers : worker[w] \in {"take", "run", "give"}
  \/ agg \in {"collect", "merge"}

\* Queues and mutexes are destroyed, and the stack frame they live in left,
\* only when every thread created so far has ended, on every failure path.
NothingDestroyedInUse == Active => ready = Objects

\* The counters kept under metrics_mutex account for the queues' contents,
\* and a successful run has pushed and popped everything.
CountersAgree ==
  /\ pushes - pops = Len(tasks) + Len(partials)
  /\ main = "ended" /\ rc = 0 =>
       /\ processed = NumBatches
       /\ pushes = (IF Interactive THEN 2 ELSE 1) * NumBatches

Run == INSTANCE SimulationRun
  WITH Pieces <- Batches,
       accounted <- {b \in Batches : merged[b] = 1},
       status <- CASE main = "ended" /\ rc = 0 -> "ok"
                   [] main = "crashed" \/ rc = -1 -> "failed"
                   [] OTHER -> "running"

\* run_pipeline_mode keeps the promise of every mode: it returns 0 only with
\* every batch merged into *out exactly once.
ImplementsRun == Run!Spec

\* Final merge mode with no preprocessor: nobody will feed or close the
\* task queue, and the workers wait for ever.
Unfed == ~Interactive /\ prepHandle = "garbage" /\ main = "joinWorkers"

\* The run comes to an end whichever pthread_create fails, except when it is
\* the preprocessor's in final merge mode.
EndsUnlessUnfed == <>(Ended \/ Unfed)

=============================================================================
