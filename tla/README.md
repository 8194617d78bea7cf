# A verification of the Monte Carlo car-following simulator

The program runs a fixed number of Monte Carlo trials of a car-following
scenario and adds each outcome to a `Result` (totals, collisions, a histogram of
risk levels). The trials can be run by one thread, by threads, by processes, by
processes with threads, or by a pipeline of threads and queues, and every mode
must produce the same numbers. The TLA+ modules here model how the work is
divided, how threads and processes hand it around, how the parts come back
together, and what happens when a `pthread_create`, `fork`, `pipe` or write fails
or a child is killed. TLC checks small instances; TLAPS proves, for every
size, every safety property that TLC checks, and of each mode that it comes to its
end but for the scheduling.

Paths below are relative to the repository.

## The system

| Part | Source | State | Operations |
|---|---|---|---|
| bounded queues | `src/task_queue.c`, `src/merge_queue.c` | ring buffer, head, tail, count, closed; one mutex, two condition variables | push, pop, close (init and destroy by the owner) |
| pipeline mode | `src/pipeline_mode.c` | two queues, `final_partials`, counters, thread handles, `*out` | preprocessor, workers, aggregator, main thread |
| thread mode | `src/thread_mode.c`, `src/result.c` | `*out`, one `local_result` per thread, `result_mutex` | workers, main thread |
| process mode | `src/process_mode.c` | `pids`, `pipes` or the shared table, `failed` | parent, children |
| hand-over | `src/ipc_pipe.c`, `src/ipc_shm.c` | bytes in pipes, slots and done flags | write/read a Result |
| hybrid mode | `src/hybrid_mode.c` | process mode's, and per child `args`, `threads`, `result_mutex`, `*out` | parent, children, threads of a child |
| trial plan | `src/preprocess.c`, `partition_work` and its two copies | the array of batches | `create_batches`, the partition arithmetic |
| driver, configuration | `src/main.c`, `src/cli.c`, `src/config.c`, `src/sync.c` | `Config` | parse, validate, dispatch, print |
| trials | `src/simulation.c` | the seed, the two cars and the worst time to collision of one trial | `run_trial_for_index`, `run_batch` |
| affinity | `src/affinity.c` and a call in every worker | the CPU mask of every child and thread | `pin_current_to_core` |
| sequential mode, postprocessing, metrics | `src/sequential.c`, `src/postprocess.c`, `src/metrics.c` | local | one loop; pure functions; clocks and ratios |

How they interact. `main` parses a `Config`, calls one `run_*_mode(cfg, &result,
&metrics)`, exits with 1 if that returns nonzero, and otherwise prints a row with
`valid = result_validate(&result, trials)`. Nothing else is told about a failure,
so the whole contract of a mode is: *0 only if every trial is in `*out` exactly
once*. In pipeline mode the preprocessor pushes batches into the task queue and
closes it; workers pop a batch, run it, and push a partial Result into the merge
queue (interactive merge) or append it to an array (final merge); the aggregator,
or at the end the main thread, merges into `*out`. In thread mode the threads add
to one shared Result or to one each. In process mode each child runs its
partition and writes its Result to its own pipe or slot; the parent first waits
for *all* children and only then reads. Hybrid mode puts a group of threads
inside each child.

What is hard here:

* signals and broadcasts of two condition variables, with spurious wake-ups, and
  a close that may race with any push or pop;
* failure paths half-way through creating threads, with the objects those threads
  use in the frame that is about to be left;
* results of `push`, `write` and one `pthread_create` that are ignored;
* joins of `pthread_t`s that a failed `pthread_create` left undefined;
* reaping before reading, end of file as the only sign of a lost Result,
  descriptor 0 standing for "no pipe" after a failed `pipe`;
* shared memory written by children without any synchronization but `waitpid`;
* unsynchronized counters (`nosync`) and a validity test that looks at some of them;
* divisions with remainders at two levels, `long` and `int` conversions;
* one seed handed through extra work to the generator, cut to 32 bits;
* a `Config` that `main` changes between parsing it and printing it;
* CPU masks that children and threads inherit, and pins that fail.

What makes each part correct: the queue is a closeable FIFO channel that loses
no wake-up; each mode keeps the promise of `SimulationRun`; nothing is destroyed
while a thread may use it; nothing waits for ever; parts tile the trials; the
outcome of a trial depends on its index, the base seed and the steps alone; the
printed row describes the run that was made, and `valid=1` and the exit status
tell how it went; workers are spread over the cores.
`PROJECT.json` lists the hazards line by line with the property for each.

## The modules

`SimulationRun` is the abstract specification of a mode: pieces of work are
accounted for, each at most once, the run succeeds only when all are, and `*out`
does not change after the return. `Pipeline` and `ProcessMode` are checked and proved
to implement it, `HybridMode` implements `ProcessMode` and so does too, and for
`ThreadMode` it is proved.

`BoundedChannel` is the abstract specification of a queue. `MonitorQueue`
implements it (checked and proved); `Pipeline` uses its actions for both queues.

```
  BoundedChannel <--implements-- MonitorQueue        SimulationRun
        ^                                              ^       ^
        +------------- uses (2x) ------ Pipeline ------+       |
                                                         ProcessMode
  Partition <-- ThreadMode                                     ^
      ^------------------------------ HybridMode --implements--+
  TrialPlan (the batches the Pipeline is given)
  Trial     (what a worker does with a batch)
  Driver    (main, around any one mode)
  Affinity  (where the workers of every mode run)
```

| Module | Models | Proofs | Runs |
|---|---|---|---|
| `BoundedChannel`, `SimulationRun` | what a queue and a mode promise | the refinements below | |
| `MonitorQueue` | `task_queue.c`, `merge_queue.c` | `MonitorQueue_proofs` | `MonitorQueue` |
| `Pipeline` | `pipeline_mode.c` | `Pipeline_proofs` | `Pipeline` |
| `ThreadMode`, `Partition` | `thread_mode.c`, `result.c` | `ThreadMode_proofs`, `Partition_proofs` | `ThreadMode`, `ThreadMode_valid` |
| `ProcessMode` | `process_mode.c`, `ipc_pipe.c`, `ipc_shm.c` | `ProcessMode_proofs` | `ProcessMode` |
| `HybridMode` | `hybrid_mode.c` | `HybridMode_proofs` | `HybridMode` |
| `TrialPlan` | `preprocess.c` | `Distribution_proofs` | `TrialPlan_batches`, `TrialPlan_valid` |
| `Trial` | `simulation.c` | `Distribution_proofs` | `Trial` |
| `Driver` | `main.c`, `cli.c`, `config.c`, `sync.c`, `sequential.c` | `Driver_proofs` | `Driver` |
| `Affinity` | `affinity.c` and its callers | `Distribution_proofs` | `Affinity`, `Affinity_restricted` |

`MC_*` modules hold the values of the constants.

### MonitorQueue and BoundedChannel

Taking the mutex, the body of the critical section, the signal and the release
are separate steps of a per-thread program counter. `PushWait`/`PopWait` are
`pthread_cond_wait` releasing the mutex; a woken thread competes for the mutex
and runs its `while` test again. `Signal` wakes one waiter, any of them, and
`Broadcast` all; `SpuriousWakeup` is what POSIX permits. `task_queue.c` and
`merge_queue.c` are the same code over different element types, so one module
stands for both. Calls with a null or uninitialised queue are left out.

`DrainIsFinal`, `NoSleeperAfterClose`, `EnoughWakeups` and the refinement are the
properties to read first: a consumer told "over" leaves nothing behind, close
leaves nobody asleep, and no signal is lost to a thread that does not need it.

### Pipeline

One program counter for the main thread (`main`, with `index` for its loops), the
preprocessor (`prep`), each worker and the aggregator. A batch, its Result and
its partial are the batch's number. `merged[b]` counts merges of batch `b` into
`*out`, `Copies(b)` the places a batch is in. Both values of `cfg->merge_mode`
are initial states. `handle` and `prepHandle` say what a `pthread_t` holds: after a
failed create it is zero, or undefined ("stale", "garbage"); joining such a
handle returns or crashes (`JoinUndefined`).

Queue operations are atomic here. That is what the refinement of `MonitorQueue`
justifies for safety, and `EveryCallReturns`/`EnoughWakeups` for progress: a
thread whose channel operation stays enabled is not left asleep.

In final merge mode the code ignores the result of creating the preprocessor
(`src/pipeline_mode.c:241`). If that call fails nothing feeds or closes the task
queue: the workers wait for ever, or joining the uninitialised handle crashes.
The properties name that state (`Unfed`) instead of hiding it, and
`EndsUnlessUnfed` says it is the only way not to end. Deadlock checking is off
in this run because of it.

### ThreadMode and Partition

Each increment is a load and a store. `pending` is what `result_add_trial` has
still to increment, in its order. The three values of `cfg->sync_mode` are initial
states. Unprotected increments race, which is undefined behaviour in C; the build
(gcc, -O2, `result_add_trial` in another translation unit) makes each one a load
and a store, and these are what interleaves. `Partition` is `partition_work`, of which the
other two modes have their own copies.

### ProcessMode

The parent's three loops (fork, wait, read), each child, each pipe as a number of
chunks with the set of processes that have its write end open. `pipe`, `fork` and
`calloc` may fail; `ChildAborts` kills a child at any point; `ChildClose`
closes after a complete Result or after a failed write, of which the code makes no difference.
The two stores to a shared slot happen in either order. Both values of
`cfg->ipc_mode` are initial states. No handler is installed, so EINTR does not occur.

### HybridMode

Instantiates `ProcessMode` for the parent and the hand-over and replaces the
child's work by a group of threads: create, join, merge, `_exit(1)` on failure.
Unlike thread mode this code joins every nonzero `threads[i]`, also the one a
failed `pthread_create` left undefined; that join returns or crashes the child.
Of a Result only `total_trials` is kept, `ThreadMode` has the others. Which trials
a thread has run follows from its start and `next`: `Ran(i, t)`. `ExactTotal` is
about these sets as well as about the sum, because a slip in one of the two
divisions (a thread that starts at the beginning of the run instead of that of its
child's part) leaves every sum right.

### TrialPlan

`create_batches` with `long` and `int` as parameters of few values, so that every
pair of trials and batch size, and every wrap-around, can be enumerated.

### Trial

`run_batch` trial by trial and step by step. C's `^` is the constant operator
`ExclusiveOr`, of which `ExclusiveOrAssumption` says what every result needs;
`MC_Trial` gives it the bitwise operator. `unsigned` has `Modulus` values, and
the `double`s are fixed-point numbers in units in which a step of 0.1 s needs no
division: speeds in 0.1 m/s, positions in cm. So the rounding of the model is
not that of the code; what it keeps is every comparison, the clamping, the order
(the time to collision before the test for a collision), and the data flow of the
seed. `Burn` and `BurnInner` are the loops of extra work, which get the seed by
value and end in a volatile that nothing reads. `BatchResult` compares the
`Result` with `RiskOf`, a definition of a trial's risk without a loop: the ways of
both cars in closed form, the first closed gap, the least time to collision.
Every other module takes the outcome of a trial as given by its index, and
`BatchResult` is why it may.

### Driver

`main` for every command line of up to `MaxArgs` options. `args` is the command
line, `k` the option being read, `cfg` the struct with enumerators as numbers, so
that the two tables of `sync.c` (`Parse`, `ToString`) are really composed. `Value` is the
cast to the field's width. A mode is one step that either fails or returns a
`Result`: the exact one, one with lost updates where threads share counters
without synchronization (`RunPartitioned`), or that of a plan whose number of
batches has wrapped around (`Batched`), as the modules of the modes show. The
sequential mode is here, as `RunSequential`. The row is a record of its columns
as texts and numbers, and of the ratios as fractions of clock ticks.

### Affinity

Every child and thread with its CPU mask: inherited at `fork` and
`pthread_create`, replaced by one core in `Placed` when the machine lets it.
One module stands for the four modes, with the worker's number and the default
number of cores of each. `cpus` is what `sched_setaffinity` accepts, any nonempty set.

Definitions headed *faulty* are deliberately wrong variants of the definition
that follows; no specification uses them. They document what each property
detects: with the faulty variant in place of the right one, the property
fails (`PROJECT.json`, "mutants").

## What TLC checks

| Run | Instance | States | Shows |
|---|---|---|---|
| `MonitorQueue` | 2 producers with 2 items each, 2 consumers, 2 closers, 2 slots, 1 spurious wake-up | 146,462 | mutual exclusion, no sleeper after close, nothing left after "over", no lost wake-up, implements `BoundedChannel`, every call returns |
| `Pipeline` | 3 workers, 4 batches, queues of 2, both merge modes | 138,093 | each batch once, one writer of `*out`, nothing destroyed in use, counters agree, implements `SimulationRun`, ends |
| `ThreadMode` | 3 threads, 4 trials, 2 risk levels, all sync modes | 52,765 | exact results with mutex and reduce; without, never too many; a valid histogram is right; ends |
| `ThreadMode_valid` | 2 threads, 3 trials | | **violated**: `valid=1` with a wrong collision count |
| `ProcessMode` | 3 children, Results of 2 chunks, pipes of 2, both hand-overs | 7,467 | all reaped, reads do not block, descriptors restored, implements `SimulationRun`, ends |
| `HybridMode` | 2 children of 2 threads, 3 trials, all sync modes, both hand-overs | 157k | no trial run by two threads, all run and counted at the end, no thread left, implements `ProcessMode`, ends |
| `TrialPlan_batches` | 4-bit int, 7-bit long, every accepted input | 2,427 | batches are consecutive, non-empty, in range, and enough if their number fits an int |
| `TrialPlan_valid` | the same | | **violated**: a run with trials left out |
| `Trial` | 63 batches of 2 trials of 50 steps, 2 base seeds, 6-bit `unsigned`, uniform or skewed, with or without extra work | 42,948 | the Result of a batch is what the physics gives for its seeds; seeds distinct; no car rolls back |
| `Driver` | all command lines of up to 2 of the 22 options, 5 numbers for each, 5 clock readings | 84,667 | the row says what was run; the exit status and `valid` tell how it went; ratios are shares |
| `Affinity` | 2 children, 3 threads, 6 cores, any usable set, any core count, 4 modes | 234,360 | workers spread evenly over the cores asked for |
| `Affinity_restricted` | the same with 2 threads | | **violated**: threads of a child confined to one core |

Why these bounds are enough to meet the interesting cases. The queue: two slots
wrap; two threads of a role can overtake each other between a signal and the
mutex; two producers with two items fill the ring while one sleeps; two closers
race. Pipeline: queues shorter than the batches fill; a worker may fail to be
created before, between and after others; more batches than workers, so a worker
comes back. Threads: one has two of the four trials and all meet on each counter;
the remainder is not zero. Processes: a first, a middle and a last child, each
failing or not; a Result can be cut in the middle and can fill the pipe. Hybrid:
3 trials over 2 x 2 threads, so one level has a remainder and one thread has nothing to
do. Plan: all pairs. Trial: the seeds of the 64 trials give 12 safe, 7 low, 5 medium
and 6 high risks and 34 collisions; one batch lies across the start of the heavy
quarter. Driver: two options show every pair, so
repeated options, an option before `--help` or before a mistake, and each option
that changes what another one means; among the numbers is one that an `int`
cuts to a valid value, and the default trials in batches of one wrap around to a
plan that is too short. Affinity: both remainders of workers to cores, and
sets of usable cores with gaps.

Constants bound everything except `spurious` wake-ups, bounded by `MaxSpurious`
in the guard of `SpuriousWakeup` (the proofs hold for any bound).

Fairness. Every liveness property assumes weak fairness of each thread's or
process's own step, which is what a preemptive scheduler gives: a thread that can
go on does so eventually. Nothing is assumed of who gets a mutex, of
the order of wake-ups, or of failures (`ChildAborts` and failing calls are never
forced). Weak fairness of a step that takes a mutex is enough because the others
run out of steps (`StepsRunOut`) and so cannot take it for ever.

### Findings

* `result_validate` (`src/result.c:66`) compares the total and the histogram but
  only bounds the collision count. With `--sync nosync` a lost update of
  `collision_count` alone leaves `valid=1`; `README.md` says of `valid` that it
  verifies the result and expects `valid=0` from `nosync` (lines 130, 736). Run
  `ThreadMode_valid`. `ValidHistogram` states what `valid=1` does guarantee.
* `create_batches` (`src/preprocess.c:35`) converts the number of batches to
  `int`. With more than 2^31 - 1 batches a run can return 0 having simulated only
  the first ones (main then prints `valid=0`), where `README.md:340` promises
  `valid=1` of the normal modes. Run `TrialPlan_valid`.
* In hybrid mode a child pins itself to its own core (`src/hybrid_mode.c:185`)
  before it creates its threads. In a container whose CPU set leaves out the
  cores of two of its threads, their pins fail, and both stay confined to the
  child's core although other cores are usable: with the cores 0, 1, 4 and 5, both
  threads of the second child run on core 1. `README.md:327` and `README.md:555` say that
  such a run just goes on and that worker numbers prevent this. Run `Affinity_restricted`.

## What TLAPS proves

For every value of the constants that the named assumptions allow. Every
invariant, every action property and every refinement that a passing run checks is a
theorem; what is left to TLC is the liveness (see *Only model-checked*).

**That a run ends.** The queue and each of the modes have two theorems besides.
`NoStandstill` (`NoDeadlock` for the queue): until all is over somebody has what it
waits for, in the pipeline unless nobody feeds it (`Unfed`). `StepsRunOut`: every step that is not stuttering lowers a natural
number, `StepsLeft`. Together they leave one thing to be assumed for the run to
end: that who can go on is scheduled. They hold whichever `pthread_create`, `fork`
or write fails and whichever child is killed. The measures:

* queue: each push is worth 12, of which a producer spends some at each label,
  each item in the ring 6, each spurious wake-up still allowed 3, and every thread
  has two steps in reserve for each broadcast to come. A signal costs the
  signaller more than it gives the thread it wakes, whoever that is; a broadcast
  gives nobody more than the reserve (`AllShrink`, a sum of smaller terms). So a
  consumer that is overtaken and sleeps again has used up somebody's push.
* pipeline: `main`'s phase times the longest loop, plus what each batch still
  causes where it is: 6 unfed, 5 in the task queue, 2 in the merge queue
  (`QueuesLeft`), and each thread's label (`StageLeft`).
* thread mode: the trials and increments left to each thread, and `main`'s loops.
* process mode: the turns of the parent's loops, and for each child its phase and
  its chunks, each written once and read once.
* hybrid mode: that of process mode, whose theorem is used, and a sum over the groups
  and their threads.

A sum changes where one term does (`SumChange`, `SumShrinks` in `Partition_proofs`).
The bound on spurious wake-ups is a constant of any size: without one,
threads could be woken for ever, and POSIX does not say otherwise.

**The queue.** `MonitorQueue_proofs` assumes `QueueAssumption`: positive capacity,
disjoint roles, finitely many threads. The inductive invariant
`IInv` adds to the checked properties that a producer not yet done has pushes
left (`PushesLeft`), without which `sent` could leave its range, and that after a
close any sleeper is one the closer, still owning the mutex, is about to wake
(`BroadcastPending`), which is why `NoSleeperAfterClose` holds although between
setting `closed` and the broadcasts it does not hold of the wait sets themselves.
Theorems: types, mutual exclusion, ring alignment, drain finality, no sleeper
after close, and

* `NoLostWakeup`: the items never outnumber the consumers on their way to
  them while another sleeps, likewise free slots and producers (`EnoughWakeups`).
  It is a counting argument: `At(S, f, L)` is the number of threads of `S` at the labels
  `L`, every step moves one thread (`AtMoves`), and each action's move is
  compared with what it does to `count`. The delicate one is a signal, which
  picks *any* waiter. A woken thread counts as on its way until it has tested
  again, so a spurious wake-up or an overtaking thread cannot break the balance.
* `NoDeadlock`: if there is a closer at all, then until every call has returned
  some thread owns the mutex or can take it (`CanRun`). A closer that has
  not set `closed` can itself run; once it is through, nobody sleeps. With
  `StepsRunOut` every call returns: `EveryCallReturns` but for the scheduling.
* `ImplementsBoundedChannel`, whose proof describes the abstract queue as a window
  of the ring (`Window`) that a push extends and a pop shortens.

**Pipeline.** `Pipeline_proofs` assumes `PipelineAssumption` (positive numbers) and
uses the queues only through the actions of `BoundedChannel`. The invariant has
two layers. `Control` ties the labels together: which threads exist where `main` is
(`PrepInStep`, `WorkersInStep`, `AggregatorInStep`), that `ready` holds all
objects from setup to cleanup (`MainInStep`), and that a worker that has ended
leaves a closed and empty task queue behind. On top of it `CountersInStep` says
what the counters amount to (`pushes - pops` is what the two queues
hold, and each push of a worker is one of the batches it has taken), and
`EachBatchOnce`, `UnfedNowhere` and `MergedInTurn` where each batch is.
`EachBatchOnce` is not inductive alone: that a push of batch `fed` does not
double it needs that it is nowhere yet, and that the final merge counts right
needs how far it is into `final_partials`. Theorems: types, `EachBatchOnce`,
`SingleWriter`, `NothingDestroyedInUse`, `CountersAgree`,
`ImplementsSimulationRun`, and

* `NoStandstill`: until the run has ended or is `Unfed`, some thread has what it
  waits for: room or an item in its queue, a closed queue, an exited thread to
  join (`SomebodyMoves`). So the two bounded queues and the joins never make
  a circle. It needs `Attended`: whom `main` waits for was created, and what
  ends that thread was called before the join. With `StepsRunOut` and weak fairness
  of every thread this is `EndsUnlessUnfed`, which remains with TLC.

**Thread mode.** `ThreadMode_proofs` assumes `ThreadAssumption`: positive numbers of
threads and trials, finitely many risk levels. The proof gives each counter the
set of trials it stands for: `Counted(w, c)` is what thread `w` has counted in
`c`, the trials recorded and the current one once its increment is stored, and an
increment adds one trial to it. `SharedCounts` says that a shared counter, and
every value loaded from it, is at most the size of the union, and with the mutex
equal to it; `LocalCounts` that a reduction's local Results are exact, and the
merge so far is their sum. The parts of different threads are disjoint
(`PartsTile`), so the sizes add up. Theorems: types, `ExactResult`, `NeverTooMany`,
and `ValidHistogram`: if no counter exceeds its due and the histogram has the right
sum, each bucket is right (`SumSame`, a sum of smaller terms is smaller).
`NoStandstill` needs `LocksInStep`: the owner of `result_mutex` is a thread that is
adding, so it is never the one `main` has already joined. `ImplementsSimulationRun`
has the trials as pieces, accounted for once recorded, in a reduction once merged;
that nobody records one after the return is `NobodyLeft`, and `OutIsAccounted` ties the
accounted trials to the counters of `*out`.

**Process mode.** `ProcessMode_proofs` assumes `ProcessAssumption`: at least one
process, a Result no larger than a pipe. `IInv` follows the parent's three loops:
what `fork` has produced up to `index` (`ForkedSoFar`), what each child is and has
stored (`ChildrenInStep`), who holds write ends (`WriteEndsClosed`), what has been
merged (`MergedInTurn`) and which read ends are open (`DescriptorsInStep`). None of
the checked properties is inductive alone: that a read cannot block needs that all
children are reaped *and* that the parent closed each write end right after
`fork`; that a slot marked done is whole needs that a child with status 0 stored
both. Theorems: types, all reaped, reads never block, descriptors restored, and
`ImplementsSimulationRun`. The parent reads only after it has reaped everybody, so
`NoStandstill` needs that no child waits in `write` for it: `WritesNeverBlock`, which
no run checks. It rests on `PipesFill`: until the parent reads, a pipe
holds just what its child has written, and a whole Result fits.

**Hybrid mode.** `HybridMode_proofs` assumes `HybridAssumption`, which is
`ProcessAssumption` with positive numbers of threads and trials.
`ImplementsProcess` shows step by step that a child with its group of threads is a
child of `ProcessMode`, so all theorems of `ProcessMode_proofs` are available
here (`ProcessInvariant`). `IInv` has the rest: where the group is and which of its
threads exist (`GroupsInStep`), each thread within its part (`ThreadsInStep`), the
total as the number of counted trials (`LocalsCount`, `MutexCounts`,
`NeverTooMany`), and that a child that goes on to hand its Result over has
run and counted its whole part (`HandedOver`). Theorems: types with each created
thread between the start and the end of its part, `NoThreadLeft`, and `ExactTotal`.
The last needs the partition at both levels: the parts of all threads of all
children are disjoint (`PartsApart`) and cover the trials (`PartsCover`), from
`PartsTile` used once for the child and once for the thread (`TwoLevels`); what a
child's threads have counted is no more than the different trials they ran
(`CountedAreRan`, an injection); and the sums of the parts' sizes are the number of
trials (`PartsSum` twice).
`NoStandstill` adds to that of process mode that a working child has a thread, or its
own create or join, to go on with, for which it needs who owns each child's mutex
(`OwnersInStep`).

**Division of the trials.** `Partition_proofs` assumes only natural numbers and at
least one part. `PartsTile`: every trial lies in exactly one part, also when the
division leaves a remainder or there are fewer trials than threads. Uniqueness
comes from `PartsOrdered` (a part ends before any later one starts), existence
from `SomePart`, which names the part: `t \div (q + 1)` among the first `r`,
longer parts, `(t - r) \div q` after them. `PartsPartition`: the parts are a
partition of any run of trials, and so their sizes add up to it (`PartsSum`). The
products are nonlinear, so the lemmas before them state what is used of a product.

The module also has the lemmas on sums that the modes need: a fold of `+` over a finite
set is the number of elements of a set of pairs (`Pile`), of which the library's
facts about cardinalities give the rest. `FoldIs` is itself an induction over
finite sets. The induction theorems with an operator parameter cannot be used
here; it takes a smallest counterexample instead (`SmallestSet`, from the
well-foundedness of strict inclusion).

**The plan.** `Distribution_proofs` assumes, for `PlanSpec`, `PlanAssumption`: an `int` with an even
number of values, a `long` whose number of values is a multiple of that, and whose
greatest value is at least `INT_MAX * INT_MAX + INT_MAX`, as with 32 and 64 bits.
The number of batches may still wrap around in the conversion to `int`. The
argument is that a positive count, wrong as it may be, never lets a batch start
behind the last trial (`StartsBelow`), and that the end of a batch that starts
there is within `long` before it is cut (`EndIs`). Theorems: `BatchesConsecutive`,
`EnoughBatches`, and `EachTrialInOneBatch`: if the number of batches is an
`int`, each trial lies in exactly one batch.

**The trials.** The same module, for `Trial`: `unsigned` of any width, any generator,
any number of steps, with or without extra work. `TrialInv` says what `run_batch`
has counted when trial `i` is next (`Counts`), and in the loop of a trial where the cars
are: `Loop(s)` compares the loop's locals after `step` turns with the closed
forms of `RiskOf`. The hard part is `minTtc`, a minimum of fractions kept by
cross-multiplication: `Fits` says that it is below a limit exactly if the time to
collision of some step was (`FitsNext`), which is all that the risk levels look at.
Theorems: `ResultIsTheRisks`, `CarsNeverReverse`, and `SeedsAreDistinct`: equal
seeds mean equal indices, because the exclusive or can be undone
(`ExclusiveOrAssumption`) and the factor 2654435761 is odd, so it has an inverse
(`FactorAssumption`). TLC evaluates both assumptions for the operator of `MC_Trial`.

**One result for all modes.** Counting a batch is counting the trials of its range
(`BatchCountsItsRange`). `BatchesAddUp` says that the counts of the batches of the plan
add up, risk by risk, to those of a single loop over all trials, as long as
the number of batches is an `int`; `PartsAddUp` says the same of the parts of the other
modes. With the refinement of `SimulationRun`, that all pieces are merged once, this
is why every mode prints the sequential numbers.

**Affinity.** `AffinityInv`: a placed worker is on the core of its number, when the
program may use that core. `WorkersSpread` then is a matter of counting: the workers of each
mode are numbered without gaps (`WorkersNumbered`), and of the numbers from 0 to
`n - 1` each remainder modulo the number of cores occurs equally often or once more
(`DealtEvenly`). Hypothesis: the machine's cores are ones a `cpu_set_t` can name
(`MaxCpu < SetSize`, as in the runs); `pin_current_to_core` refuses any others.

**The driver.** `Driver_proofs` assumes `DriverAssumption`: the widths of `int`,
`unsigned` and `long` in order, and default values that fit; command lines may be
of any length. `CfgFollowsArgs` says that the Config while parsing is what the
options read so far make of the defaults (`CfgAfter`: the last of each counts) and
after it what the profile and the mode make of that; `Progress` how `main` ended;
`RowInStep` what the row was made of. Each accepted text comes back from the
field it was cast to (`ValueIsText`), and each enumerator back from its name
(`TextsBack`). Theorems: `RowEchoesCommandLine`, `StatusTellsOutcome`,
`ValidRowsAgree`, `RatiosInRange`.

**Only model-checked.**

* All liveness: `EveryCallReturns`, `Ends`, `EndsUnlessUnfed` rest on fairness, and
  `ENABLED` is outside the prover. `NoDeadlock`, `NoStandstill` and `StepsRunOut`
  prove what they need of states and steps. `CanRun`, `SomebodyMoves` and the like
  state the conditions of the code's calls, not `ENABLED`; that they imply it is
  read off the actions.
* That each violated run's property fails: a counterexample is a matter for TLC.

## Not modelled

* Floating-point rounding: `Trial` has exact arithmetic in fixed-point units.
* The checksum, a hash of the counters that are modelled; throughput and CPU usage;
  the wording of the usage text, of warnings, and of `--verbose`.
* The extra work before and after a run (`--pre-work`, `--post-work`): loops over a
  local variable whose result nothing reads. `--enable-pipeline` is parsed
  (`Driver`) and never used.
* `init`/`destroy` of the queues one by one: `Pipeline` has them as the set `ready`.
* Scripts and reports around the program: shell and Python that run it.

## Plan

Done: models of the queue, the pipeline, thread, process and hybrid modes, the plan,
the trials, the driver and affinity; proofs of all their safety properties, of
every refinement, and of termination up to scheduling. What could follow:

1. Floating point in `Trial`: how far rounding can move a time to collision across a
   threshold.
2. Shorter proofs: `ThreadMode_proofs` and `HybridMode_proofs` have much in
   common below the level of their counters.
