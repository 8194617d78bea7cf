----------------------------- MODULE HybridMode -----------------------------
(***************************************************************************)
(* run_hybrid_mode of src/src/hybrid_mode.c.  The parent and the way a     *)
(* child hands its Result over are those of ProcessMode; what differs is   *)
(* the child's work, which a group of threads does here: partition,        *)
(* create, join, merge, and _exit(1) when the group failed.                *)
(*                                                                         *)
(* Of a Result this module keeps total_trials.  ThreadMode has the other   *)
(* counters and the increments one by one.                                 *)
(***************************************************************************)
EXTENDS Integers, FiniteSets, Functions, Partition

CONSTANTS
  NumProcesses, ResultSize, PipeCapacity,  \* as in ProcessMode
  NumThreads,  \* cfg->threads
  NumTrials,   \* cfg->trials
  NoThread     \* result_mutex has no owner

Threads == 0 .. NumThreads - 1

ASSUME HybridAssumption ==
  /\ NumProcesses \in Nat \ {0}
  /\ ResultSize \in Nat \ {0}
  /\ PipeCapacity \in Nat
  /\ ResultSize <= PipeCapacity
  /\ NumThreads \in Nat \ {0}
  /\ NumTrials \in Nat \ {0}
  /\ NoThread \notin Threads

VARIABLES ipcMode, main, index, failed, rc, pids, child, written, inPipe, got,
          writers, readOpen, stdinOpen, slots, done, merged  \* as in ProcessMode

P == INSTANCE ProcessMode

VARIABLES
  syncMode,     \* cfg->sync_mode
  group,        \* child i's main thread in run_child_thread_group
  turn,         \* i of its loops over the threads
  groupFailed,  \* its failed
  handle,       \* threads[t]: zero, a thread, or what a failed create left
  thread,       \* where each thread is
  next,         \* i of its loop over its trials
  loaded,       \* the total_trials it read
  local,        \* args[t].local
  total,        \* *out of the group, the child's Result
  owner         \* of result_mutex

processVars   == <<ipcMode, main, index, failed, rc, pids, child, written, inPipe,
                   got, writers, readOpen, stdinOpen, slots, done, merged>>
groupMainVars == <<group, turn, groupFailed, handle>>
threadVars    == <<next, loaded, local, owner>>
groupVars     == <<syncMode, groupMainVars, thread, threadVars, total>>
vars          == <<processVars, groupVars>>

PerThread(x) == [i \in P!Processes |-> [t \in Threads |-> x]]

(* hybrid_partition, and the division of its part among the threads *)

ChildStart(i) == PartStart(NumTrials, NumProcesses, i)
ChildTrials(i) == PartEnd(NumTrials, NumProcesses, i) - ChildStart(i)

\* Faulty: the part of the child is forgotten.
ThreadStartFromZero(i, t) == PartStart(ChildTrials(i), NumThreads, t)

ThreadStart(i, t) == ChildStart(i) + PartStart(ChildTrials(i), NumThreads, t)
ThreadEnd(i, t) ==
  ThreadStart(i, t) + PartEnd(ChildTrials(i), NumThreads, t)
    - PartStart(ChildTrials(i), NumThreads, t)

Init ==
  /\ P!Init
  /\ syncMode \in {"nosync", "mutex", "reduce"}
  /\ group = [i \in P!Processes |-> "start"]
  /\ turn = [i \in P!Processes |-> 0]
  /\ groupFailed = [i \in P!Processes |-> FALSE]
  /\ handle = PerThread("zero")
  /\ thread = PerThread("absent")
  /\ next = PerThread(0)
  /\ loaded = PerThread(0)
  /\ local = PerThread(0)
  /\ total = [i \in P!Processes |-> 0]
  /\ owner = [i \in P!Processes |-> NoThread]

-----------------------------------------------------------------------------
(* Faulty variants of the definitions below; nothing here uses them. *)

\* The loop over the trials runs to i <= end_idx.
MoreTrialsIncluding(i, t) == next[i][t] <= ThreadEnd(i, t)

\* The lock is left out.
MayLoadUnlocked(i) == TRUE

\* The last thread is not joined.
JoinableEarly(i) ==
  \/ handle[i][turn[i]] # "thread"
  \/ thread[i][turn[i]] = "exited"
  \/ turn[i] = NumThreads - 1

\* _exit(0) after a failed group.
GroupExitsZero(i) ==
  IF groupFailed[i]
    THEN /\ child[i] = "work"
         /\ P!ChildGoto(i, "exited")
         /\ writers' = [writers EXCEPT ![i] = @ \ {"child"}]
         /\ UNCHANGED <<ipcMode, main, index, failed, rc, pids, written, inPipe, got,
                        readOpen, stdinOpen, slots, done, merged>>
    ELSE P!ChildWork(i)

\* A thread never returns.
ThreadExitSpins(i, t) ==
  /\ thread[i][t] = "trial"
  /\ next[i][t] = ThreadEnd(i, t)
  /\ UNCHANGED vars

-----------------------------------------------------------------------------
(* The threads of child i, which run while the child works. *)

MoreTrials(i, t) == next[i][t] < ThreadEnd(i, t)

\* pthread_mutex_lock returns.
MayLoad(i) == syncMode = "mutex" => owner[i] = NoThread

\* Another trial: take the mutex if there is one, load total_trials of *out.
ThreadLoad(i, t) ==
  /\ thread[i][t] = "trial"
  /\ MoreTrials(i, t)
  /\ syncMode # "reduce"
  /\ MayLoad(i)
  /\ loaded' = [loaded EXCEPT ![i][t] = total[i]]
  /\ owner' = IF syncMode = "mutex" THEN [owner EXCEPT ![i] = t] ELSE owner
  /\ thread' = [thread EXCEPT ![i][t] = "add"]
  /\ UNCHANGED <<syncMode, processVars, groupMainVars, next, local, total>>

\* Store it, and unlock.
ThreadStore(i, t) ==
  /\ thread[i][t] = "add"
  /\ total' = [total EXCEPT ![i] = loaded[i][t] + 1]
  /\ next' = [next EXCEPT ![i][t] = @ + 1]
  /\ owner' = IF syncMode = "mutex" THEN [owner EXCEPT ![i] = NoThread] ELSE owner
  /\ thread' = [thread EXCEPT ![i][t] = "trial"]
  /\ UNCHANGED <<syncMode, processVars, groupMainVars, loaded, local>>

\* Another trial, counted in args[t].local.
ThreadCount(i, t) ==
  /\ thread[i][t] = "trial"
  /\ MoreTrials(i, t)
  /\ syncMode = "reduce"
  /\ local' = [local EXCEPT ![i][t] = @ + 1]
  /\ next' = [next EXCEPT ![i][t] = @ + 1]
  /\ UNCHANGED <<syncMode, processVars, groupMainVars, thread, loaded, total,
                 owner>>

ThreadExit(i, t) ==
  /\ thread[i][t] = "trial"
  /\ ~MoreTrials(i, t)
  /\ thread' = [thread EXCEPT ![i][t] = "exited"]
  /\ UNCHANGED <<syncMode, processVars, groupMainVars, threadVars, total>>

ThreadStep(i, t) ==
  /\ child[i] = "work"
  /\ ThreadLoad(i, t) \/ ThreadStore(i, t) \/ ThreadCount(i, t) \/ ThreadExit(i, t)

(* ---- run_child_thread_group ---------------------------------------------*)

GroupGoto(i, label) ==
  /\ group' = [group EXCEPT ![i] = label]
  /\ turn' = [turn EXCEPT ![i] = 0]

\* calloc or pthread_mutex_init fails: return -1, and _exit(1).
GroupNoMemory(i) ==
  /\ group[i] = "start"
  /\ GroupGoto(i, "done")
  /\ P!ChildAborts(i)
  /\ UNCHANGED <<syncMode, groupFailed, handle, thread, threadVars, total>>

GroupSetup(i) ==
  /\ group[i] = "start"
  /\ GroupGoto(i, "create")
  /\ UNCHANGED <<syncMode, processVars, groupFailed, handle, thread,
                 threadVars, total>>

GroupCreate(i) ==
  LET t == turn[i] IN
  /\ group[i] = "create"
  /\ handle' = [handle EXCEPT ![i][t] = "thread"]
  /\ thread' = [thread EXCEPT ![i][t] = "trial"]
  /\ next' = [next EXCEPT ![i][t] = ThreadStart(i, t)]
  /\ IF t + 1 < NumThreads
       THEN turn' = [turn EXCEPT ![i] = t + 1] /\ UNCHANGED group
       ELSE GroupGoto(i, "join")
  /\ UNCHANGED <<syncMode, processVars, groupFailed, loaded, local, owner,
                 total>>

\* A failed pthread_create leaves threads[t] undefined: zero or anything.
GroupCreateFails(i) ==
  /\ group[i] = "create"
  /\ \E h \in {"zero", "stale"} : handle' = [handle EXCEPT ![i][turn[i]] = h]
  /\ groupFailed' = [groupFailed EXCEPT ![i] = TRUE]
  /\ GroupGoto(i, "join")
  /\ UNCHANGED <<syncMode, processVars, thread, threadVars, total>>

\* pthread_join returns; of a stale handle it returns at once or crashes, and
\* ChildAborts is that crash.
Joinable(i) ==
  \/ handle[i][turn[i]] # "thread"
  \/ thread[i][turn[i]] = "exited"

GroupJoin(i) ==
  /\ group[i] = "join"
  /\ Joinable(i)
  /\ IF turn[i] + 1 < NumThreads
       THEN turn' = [turn EXCEPT ![i] = @ + 1] /\ UNCHANGED group
       ELSE GroupGoto(i, "return")
  /\ UNCHANGED <<syncMode, processVars, groupFailed, handle, thread,
                 threadVars, total>>

\* Go on to hand the Result over, or _exit(1).
GroupResult(i) == IF groupFailed[i] THEN P!ChildAborts(i) ELSE P!ChildWork(i)

\* Merge the locals unless a create failed, free, return.
GroupReturn(i) ==
  /\ group[i] = "return"
  /\ GroupGoto(i, "done")
  /\ total' = IF syncMode = "reduce" /\ ~groupFailed[i]
                THEN [total EXCEPT ![i] = @ + FoldFunction(+, 0, local[i])]
                ELSE total
  /\ GroupResult(i)
  /\ UNCHANGED <<syncMode, groupFailed, handle, thread, threadVars>>

GroupStep(i) ==
  /\ child[i] = "work"
  /\ \/ GroupNoMemory(i) \/ GroupSetup(i)
     \/ GroupCreate(i) \/ GroupCreateFails(i) \/ GroupJoin(i) \/ GroupReturn(i)

(* ---- the rest of the child, and the parent ------------------------------*)

ChildSend(i) == P!ChildSend(i) /\ UNCHANGED groupVars

ChildAborts(i) == P!ChildAborts(i) /\ UNCHANGED groupVars

MainStep == P!MainStep /\ UNCHANGED groupVars

-----------------------------------------------------------------------------
Next ==
  \/ \E i \in P!Processes :
       \/ \E t \in Threads : ThreadStep(i, t)
       \/ GroupStep(i) \/ ChildSend(i) \/ ChildAborts(i)
  \/ MainStep
  \/ main = "ended" /\ UNCHANGED vars

Spec == Init /\ [][Next]_vars

\* Every process and every thread is scheduled, and a released mutex is
\* obtained in the end.
Fairness ==
  /\ WF_vars(MainStep)
  /\ \A i \in P!Processes :
       /\ WF_vars(ChildSend(i))
       /\ WF_vars(GroupStep(i))
       /\ \A t \in Threads : WF_vars(ThreadStep(i, t))

FairSpec == Spec /\ Fairness

-----------------------------------------------------------------------------
(* Properties. *)

\* The types, and every thread within its part of its child's part of the trials.
TypeOK ==
  /\ P!TypeOK
  /\ syncMode \in {"nosync", "mutex", "reduce"}
  /\ group \in [P!Processes -> {"start", "create", "join", "return", "done"}]
  /\ turn \in [P!Processes -> Threads]
  /\ groupFailed \in [P!Processes -> BOOLEAN]
  /\ handle \in [P!Processes -> [Threads -> {"zero", "thread", "stale"}]]
  /\ thread \in [P!Processes -> [Threads -> {"absent", "trial", "add", "exited"}]]
  /\ next \in [P!Processes -> [Threads -> 0 .. NumTrials]]
  /\ \A i \in P!Processes, t \in Threads :
       thread[i][t] # "absent" => next[i][t] \in ThreadStart(i, t) .. ThreadEnd(i, t)
  /\ loaded \in [P!Processes -> [Threads -> Nat]]
  /\ local \in [P!Processes -> [Threads -> Nat]]
  /\ total \in [P!Processes -> Nat]
  /\ owner \in [P!Processes -> Threads \cup {NoThread}]

\* When run_child_thread_group frees args and destroys result_mutex, and its
\* caller's *out is read, none of its threads is left to use them, also after
\* a pthread_create that failed half-way.
NoThreadLeft ==
  \A i \in P!Processes :
    group[i] = "done" => \A t \in Threads : thread[i][t] \in {"absent", "exited"}

\* total_trials of the parent's *out.
OutTotal ==
  FoldFunction(+, 0, [i \in P!Processes |-> merged[i] * total[i]])

\* The trials a thread, the threads of a child, and all threads have run.
Ran(i, t) ==
  IF thread[i][t] = "absent" THEN {} ELSE ThreadStart(i, t) .. next[i][t] - 1

RanBy(i) == UNION {Ran(i, t) : t \in Threads}

AllRan == UNION {RanBy(i) : i \in P!Processes}

\* No two threads, of one child or of two, ever run the same trial.
NoTrialTwice ==
  \A i, j \in P!Processes, t, u \in Threads :
    <<i, t>> # <<j, u>> => Ran(i, t) \cap Ran(j, u) = {}

\* No trial is run twice, and no Result counts more trials than the threads of
\* its child have run.  A successful run has run all trials, and its total is
\* their number, through two levels of partitions and two levels of merges, if
\* the threads synchronize; threads that do not may lose counts of their child.
ExactTotal ==
  /\ NoTrialTwice
  /\ \A i \in P!Processes : total[i] <= Cardinality(RanBy(i))
  /\ OutTotal <= NumTrials
  /\ main = "ended" /\ rc = 0 =>
       /\ AllRan = 0 .. NumTrials - 1
       /\ syncMode # "nosync" => OutTotal = NumTrials

\* A child whose work is done by a group of threads is, to the parent, a
\* child of run_process_mode: it hands over a Result or fails.
ImplementsProcessMode == P!Spec

\* The run ends whichever pthread_create, fork or write fails and whichever
\* child is killed.
Ends == <>(main = "ended")

=============================================================================
