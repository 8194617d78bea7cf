----------------------------- MODULE ThreadMode -----------------------------
(***************************************************************************)
(* run_thread_mode_metrics of src/src/thread_mode.c with the Result it     *)
(* fills in (src/src/result.c): the trials are divided among the threads,  *)
(* and each outcome is added to one shared Result, with no protection      *)
(* ("nosync") or under result_mutex ("mutex"), or to a Result of the       *)
(* thread's own that the main thread merges after the joins ("reduce").    *)
(*                                                                         *)
(* An increment of a counter is a load and a store.  Unprotected, that is  *)
(* a data race; the increments compile to one load and one store each, and *)
(* these interleave in any way.                                            *)
(***************************************************************************)
EXTENDS Integers, Sequences, FiniteSets, Functions, Partition

CONSTANTS
  NumThreads,       \* cfg->threads
  NumTrials,        \* cfg->trials
  Buckets,          \* the RiskLevels
  RiskCollision,    \* the one of a trial that collided
  Risk,             \* what run_trial_for_index returns for each trial
  NoThread,         \* result_mutex has no owner
  NoValue           \* nothing is loaded

Threads  == 0 .. NumThreads - 1
Trials   == 0 .. NumTrials - 1
Counters == {"total_trials", "collision_count"} \cup Buckets

ASSUME ThreadAssumption ==
  /\ NumThreads \in Nat \ {0}
  /\ NumTrials \in Nat \ {0}
  /\ IsFiniteSet(Buckets) /\ RiskCollision \in Buckets
  /\ {"total_trials", "collision_count"} \cap Buckets = {}
  /\ Risk \in [Trials -> Buckets]
  /\ NoThread \notin Threads
  /\ NoValue \notin Nat

VARIABLES
  syncMode,                          \* cfg->sync_mode
  main, index, created, failed, rc,  \* the main thread and its locals
  worker,                            \* where each thread is
  next,                              \* i of its loop over the trials
  pending,                           \* the counters it has still to increment
  loaded,                            \* what it read of the first of them
  out, local,                        \* *out and each local_result
  mutex                              \* the owner of result_mutex

mainVars   == <<main, index, created, failed, rc>>
workerVars == <<worker, next, pending, loaded, local, mutex>>
vars       == <<syncMode, mainVars, workerVars, out>>

-----------------------------------------------------------------------------
(* partition_work *)

StartIdx(w) == PartStart(NumTrials, NumThreads, w)
EndIdx(w)   == PartEnd(NumTrials, NumThreads, w)

(* result.c *)

ResultZero == [c \in Counters |-> 0]

\* The counters result_add_trial increments, in order.
Increments(t) ==
  <<"total_trials">>
  \o (IF Risk[t] = RiskCollision THEN <<"collision_count">> ELSE <<>>)
  \o <<Risk[t]>>

Merge(dst, src) == [c \in Counters |-> dst[c] + src[c]]

-----------------------------------------------------------------------------
(* Faulty variants of the definitions below; nothing here uses them.  Each *)
(* is a slip the code could contain, and some property tells it apart.     *)

\* The loop runs to i <= end_idx.
WorkerTrialOneMore(w) ==
  /\ worker[w] = "trial"
  /\ next[w] <= EndIdx(w) /\ next[w] < NumTrials
  /\ pending' = [pending EXCEPT ![w] = Increments(next[w])]
  /\ worker' = [worker EXCEPT ![w] = IF syncMode = "mutex" THEN "lock" ELSE "add"]
  /\ UNCHANGED <<syncMode, mainVars, next, loaded, out, local, mutex>>

\* A thread that has read a counter increments it once more than it should.
WorkerStoreTwice(w) ==
  /\ worker[w] = "add"
  /\ loaded[w] # NoValue
  /\ out' = [out EXCEPT ![Head(pending[w])] = loaded[w] + 2]
  /\ pending' = [pending EXCEPT ![w] = Tail(@)]
  /\ loaded' = [loaded EXCEPT ![w] = NoValue]
  /\ UNCHANGED <<syncMode, mainVars, worker, next, local, mutex>>

\* A thread with nothing left to do goes round its loop for ever.
WorkerExitSpins(w) ==
  /\ worker[w] = "trial"
  /\ next[w] = EndIdx(w)
  /\ UNCHANGED vars

-----------------------------------------------------------------------------
Init ==
  /\ syncMode \in {"nosync", "mutex", "reduce"}
  /\ main = "setup"
  /\ index = 0
  /\ created = 0
  /\ failed = FALSE
  /\ rc = 0
  /\ worker = [w \in Threads |-> "absent"]
  /\ next = [w \in Threads |-> StartIdx(w)]
  /\ pending = [w \in Threads |-> <<>>]
  /\ loaded = [w \in Threads |-> NoValue]
  /\ out = ResultZero
  /\ local = [w \in Threads |-> ResultZero]
  /\ mutex = NoThread

WorkerGoto(w, label) == worker' = [worker EXCEPT ![w] = label]

\* Run trial i; record_trial_result then picks the Result to add it to.
WorkerTrial(w) ==
  /\ worker[w] = "trial"
  /\ next[w] < EndIdx(w)
  /\ pending' = [pending EXCEPT ![w] = Increments(next[w])]
  /\ WorkerGoto(w, IF syncMode = "mutex" THEN "lock" ELSE "add")
  /\ UNCHANGED <<syncMode, mainVars, next, loaded, out, local, mutex>>

WorkerLock(w) ==
  /\ worker[w] = "lock"
  /\ mutex = NoThread
  /\ mutex' = w
  /\ WorkerGoto(w, "add")
  /\ UNCHANGED <<syncMode, mainVars, next, pending, loaded, out, local>>

\* The first half of an increment.
WorkerLoad(w) ==
  /\ worker[w] = "add"
  /\ pending[w] # <<>>
  /\ loaded[w] = NoValue
  /\ loaded' = [loaded EXCEPT ![w] =
                  IF syncMode = "reduce" THEN local[w][Head(pending[w])]
                                         ELSE out[Head(pending[w])]]
  /\ UNCHANGED <<syncMode, mainVars, worker, next, pending, out, local, mutex>>

\* The second half.
WorkerStore(w) ==
  /\ worker[w] = "add"
  /\ loaded[w] # NoValue
  /\ IF syncMode = "reduce"
       THEN /\ local' = [local EXCEPT ![w][Head(pending[w])] = loaded[w] + 1]
            /\ UNCHANGED out
       ELSE /\ out' = [out EXCEPT ![Head(pending[w])] = loaded[w] + 1]
            /\ UNCHANGED local
  /\ pending' = [pending EXCEPT ![w] = Tail(@)]
  /\ loaded' = [loaded EXCEPT ![w] = NoValue]
  /\ UNCHANGED <<syncMode, mainVars, worker, next, mutex>>

\* The trial is recorded; unlock if locked, and go on.
WorkerRecorded(w) ==
  /\ worker[w] = "add"
  /\ pending[w] = <<>>
  /\ next' = [next EXCEPT ![w] = @ + 1]
  /\ mutex' = IF syncMode = "mutex" THEN NoThread ELSE mutex
  /\ WorkerGoto(w, "trial")
  /\ UNCHANGED <<syncMode, mainVars, pending, loaded, out, local>>

WorkerExit(w) ==
  /\ worker[w] = "trial"
  /\ next[w] = EndIdx(w)
  /\ WorkerGoto(w, "exited")
  /\ UNCHANGED <<syncMode, mainVars, next, pending, loaded, out, local, mutex>>

(* ---- run_thread_mode_metrics --------------------------------------------*)

MainGoto(label) == main' = label /\ index' = 0

\* calloc or pthread_mutex_init fails: return -1, *out untouched.
MainNoMemory ==
  /\ main = "setup"
  /\ MainGoto("ended")
  /\ rc' = -1
  /\ UNCHANGED <<syncMode, created, failed, workerVars, out>>

MainSetup ==
  /\ main = "setup"
  /\ MainGoto("create")
  /\ out' = ResultZero
  /\ UNCHANGED <<syncMode, created, failed, rc, workerVars>>

MainCreate ==
  /\ main = "create"
  /\ index < NumThreads
  /\ worker' = [worker EXCEPT ![index] = "trial"]
  /\ created' = created + 1
  /\ index' = index + 1
  /\ UNCHANGED <<syncMode, main, failed, rc, next, pending, loaded, local,
                 mutex, out>>

\* pthread_create fails: no more threads are created.
MainCreateFails ==
  /\ main = "create"
  /\ index < NumThreads
  /\ failed' = TRUE
  /\ MainGoto("join")
  /\ UNCHANGED <<syncMode, created, rc, workerVars, out>>

MainCreated ==
  /\ main = "create"
  /\ index = NumThreads
  /\ MainGoto("join")
  /\ UNCHANGED <<syncMode, created, failed, rc, workerVars, out>>

MainJoin ==
  /\ main = "join"
  /\ index < created
  /\ worker[index] = "exited"
  /\ index' = index + 1
  /\ UNCHANGED <<syncMode, main, created, failed, rc, workerVars, out>>

\* After the joins a reduction starts from an empty *out; a failed one and
\* the other sync modes leave *out as the threads left it.
MainJoined ==
  /\ main = "join"
  /\ index = created
  /\ IF ~failed /\ syncMode = "reduce"
       THEN MainGoto("merge") /\ out' = ResultZero
       ELSE MainGoto("post") /\ UNCHANGED out
  /\ UNCHANGED <<syncMode, created, failed, rc, workerVars>>

MainMerge ==
  /\ main = "merge"
  /\ IF index < NumThreads
       THEN /\ out' = Merge(out, local[index])
            /\ index' = index + 1
            /\ UNCHANGED main
       ELSE MainGoto("post") /\ UNCHANGED out
  /\ UNCHANGED <<syncMode, created, failed, rc, workerVars>>

\* Postprocessing, free, and return failed ? -1 : 0.
MainReturn ==
  /\ main = "post"
  /\ rc' = IF failed THEN -1 ELSE 0
  /\ MainGoto("ended")
  /\ UNCHANGED <<syncMode, created, failed, workerVars, out>>

-----------------------------------------------------------------------------
WorkerStep(w) ==
  \/ WorkerTrial(w) \/ WorkerLock(w) \/ WorkerLoad(w)
  \/ WorkerStore(w) \/ WorkerRecorded(w) \/ WorkerExit(w)

MainStep ==
  \/ MainNoMemory \/ MainSetup \/ MainCreate \/ MainCreateFails
  \/ MainCreated \/ MainJoin \/ MainJoined \/ MainMerge \/ MainReturn

Next ==
  \/ \E w \in Threads : WorkerStep(w)
  \/ MainStep
  \/ main = "ended" /\ UNCHANGED vars

Spec == Init /\ [][Next]_vars

\* Every thread that can run is run.
Fairness == WF_vars(MainStep) /\ \A w \in Threads : WF_vars(WorkerStep(w))

FairSpec == Spec /\ Fairness

-----------------------------------------------------------------------------
(* Properties. *)

TypeOK ==
  /\ syncMode \in {"nosync", "mutex", "reduce"}
  /\ main \in {"setup", "create", "join", "merge", "post", "ended"}
  /\ index \in 0 .. NumThreads
  /\ created \in 0 .. NumThreads
  /\ failed \in BOOLEAN
  /\ rc \in {0, -1}
  /\ worker \in [Threads -> {"absent", "trial", "lock", "add", "exited"}]
  /\ next \in [Threads -> 0 .. NumTrials]
  /\ \A w \in Threads : next[w] \in StartIdx(w) .. EndIdx(w)
  /\ pending \in [Threads -> Seq(Counters)]
  /\ loaded \in [Threads -> Nat \cup {NoValue}]
  /\ out \in [Counters -> Nat]
  /\ local \in [Threads -> [Counters -> Nat]]
  /\ mutex \in Threads \cup {NoThread}

\* The trials of S that increment counter c.
Hits(S, c) ==
  {t \in S : \/ c = "total_trials"
             \/ c = "collision_count" /\ Risk[t] = RiskCollision
             \/ c = Risk[t]}

\* The Result of the trials of S.
ResultOf(S) == [c \in Counters |-> Cardinality(Hits(S, c))]

\* The trials a thread is done with, and the one it is at.
Recorded(w) == StartIdx(w) .. next[w] - 1
Begun(w)    == StartIdx(w) .. Lesser(next[w], EndIdx(w) - 1)

AllRecorded == UNION {Recorded(w) : w \in Threads}

Returned == main = "ended" /\ rc = 0

\* Under result_mutex the shared Result counts exactly the trials recorded so
\* far whenever the mutex is free, and in a reduction each thread's own
\* Result counts exactly that thread's.
NothingLost ==
  /\ syncMode = "mutex" /\ mutex = NoThread /\ main # "setup" =>
       out = ResultOf(AllRecorded)
  /\ syncMode = "reduce" =>
       \A w \in Threads : worker[w] # "add" => local[w] = ResultOf(Recorded(w))

\* With mutex or reduce a successful run returns exactly the Result of all
\* the trials, each counted once: what a sequential run computes.
ExactResult == Returned /\ syncMode # "nosync" => out = ResultOf(Trials)

\* The unprotected counters may miss trials; they never count one twice.
NeverTooMany ==
  \A c \in Counters :
    out[c] <= Cardinality(Hits(UNION {Begun(w) : w \in Threads}, c))

\* The sum of the histogram.
HistSum(r) == FoldFunctionOnSet(+, 0, r, Buckets)

\* Faulty variant: the histogram is not looked at.
ValidTotalOnly(r) ==
  /\ r["total_trials"] = NumTrials
  /\ r["collision_count"] \in 0 .. NumTrials

\* result_validate
Valid(r) ==
  /\ r["total_trials"] = NumTrials
  /\ HistSum(r) = NumTrials
  /\ r["collision_count"] \in 0 .. NumTrials

\* For the total and the histogram valid=1 is reliable even without any
\* synchronization: a lost update there cannot be made up for by another.
ValidHistogram ==
  Returned /\ Valid(out) =>
    \A c \in Counters \ {"collision_count"} : out[c] = ResultOf(Trials)[c]

\* What the README says of valid=1: the result passed the correctness check.
ValidMeansExact == Returned /\ Valid(out) => out = ResultOf(Trials)

\* run_thread_mode_metrics returns, also when a pthread_create fails.
Ends == <>(main = "ended")

=============================================================================
