------------------------------ MODULE Affinity ------------------------------
(***************************************************************************)
(* CPU affinity: pin_current_to_core of src/src/affinity.c and its callers *)
(* at the beginning of every worker.  A child or thread starts with the    *)
(* mask of whoever made it; pinning replaces the mask by one core, if the  *)
(* machine (or a container's CPU set) lets the program use that core, and  *)
(* otherwise warns and leaves the mask as it is.                           *)
(***************************************************************************)
EXTENDS Integers, FiniteSets

CONSTANTS
  Processes,    \* cfg->processes
  Threads,      \* cfg->threads
  MaxCpu,       \* the highest core of the machine
  SetSize       \* CPU_SETSIZE

ASSUME AffinityAssumption ==
  /\ {Processes, Threads} \subseteq Nat \ {0}
  /\ {MaxCpu, SetSize} \subseteq Nat

\* The threads of thread and pipeline mode are those of process 0.
Pids == 0 .. Processes - 1
Tids == 0 .. Threads - 1

VARIABLES
  mode, enabled, coreCount, \* of cfg: the mode, affinity_enabled, core_count
  cpus,                     \* the cores the program may use
  child, childMask,         \* of every child: how far it is, and its mask
  thread, threadMask        \* of every thread

setting  == <<mode, enabled, coreCount, cpus>>
children == <<child, childMask>>
threads  == <<thread, threadMask>>
affinityVars == <<setting, children, threads>>

AffinityInit ==
  /\ mode \in {"thread", "pipeline", "process", "hybrid"}
  /\ enabled \in BOOLEAN
  /\ coreCount \in 0 .. MaxCpu
  /\ cpus \in (SUBSET (0 .. MaxCpu)) \ {{}}
  /\ child = [i \in Pids |-> "absent"]
  /\ childMask = [i \in Pids |-> cpus]
  /\ thread = [i \in Pids |-> [t \in Tids |-> "absent"]]
  /\ threadMask = [i \in Pids |-> [t \in Tids |-> cpus]]

-----------------------------------------------------------------------------
\* pin_current_to_core: the mask of a caller that had another one.
Pin(core, current) == IF core < SetSize /\ core \in cpus THEN {core} ELSE current

\* The core for a worker, and its mask after the code at its beginning.
CoreFor(id, workers) == id % (IF coreCount > 0 THEN coreCount ELSE workers)

Placed(id, workers, current) ==
  IF enabled THEN Pin(CoreFor(id, workers), current) ELSE current

\* fork, in the order of the children; the parent is never pinned.
Fork(i) ==
  /\ mode \in {"process", "hybrid"}
  /\ child[i] = "absent"
  /\ \A j \in 0 .. i - 1 : child[j] # "absent"
  /\ child' = [child EXCEPT ![i] = "started"]
  /\ childMask' = [childMask EXCEPT ![i] = cpus]
  /\ UNCHANGED <<setting, threads>>

PinChild(i) ==
  /\ child[i] = "started"
  /\ child' = [child EXCEPT ![i] = "placed"]
  /\ childMask' = [childMask EXCEPT ![i] = Placed(i, Processes, @)]
  /\ UNCHANGED <<setting, threads>>

\* pthread_create, in the order of the threads, by main or by a child.
Create(i, t) ==
  /\ IF mode = "hybrid" THEN child[i] = "placed"
                        ELSE mode \in {"thread", "pipeline"} /\ i = 0
  /\ thread[i][t] = "absent"
  /\ \A u \in 0 .. t - 1 : thread[i][u] # "absent"
  /\ thread' = [thread EXCEPT ![i][t] = "started"]
  /\ threadMask' = [threadMask EXCEPT ![i][t] = childMask[i]]
  /\ UNCHANGED <<setting, children>>

\* Faulty: every child numbers its threads from 0.
WorkerIdLocal(i, t) == t

\* The worker's number in the whole run; thread and pipeline mode have only
\* the thread's.
WorkerId(i, t) == i * Threads + t

PinThread(i, t) ==
  /\ thread[i][t] = "started"
  /\ thread' = [thread EXCEPT ![i][t] = "placed"]
  /\ threadMask' =
       [threadMask EXCEPT ![i][t] =
          Placed(WorkerId(i, t), IF mode = "hybrid" THEN Processes * Threads ELSE Threads, @)]
  /\ UNCHANGED <<setting, children>>

\* The workers, and their masks.
Workers == CASE mode = "process" -> Pids \X {0}
             [] mode = "hybrid"  -> Pids \X Tids
             [] OTHER            -> {0} \X Tids

Mask(w) == IF mode = "process" THEN childMask[w[1]] ELSE threadMask[w[1]][w[2]]
IsPlaced(w) == (IF mode = "process" THEN child[w[1]] ELSE thread[w[1]][w[2]]) = "placed"
AllPlaced == \A w \in Workers : IsPlaced(w)

AffinityNext ==
  \/ \E i \in Pids : Fork(i) \/ PinChild(i) \/ \E t \in Tids : Create(i, t) \/ PinThread(i, t)
  \/ AllPlaced /\ UNCHANGED affinityVars

AffinitySpec == AffinityInit /\ [][AffinityNext]_affinityVars

-----------------------------------------------------------------------------
(* Properties. *)

Load(core) == Cardinality({w \in Workers : Mask(w) = {core}})

\* When the program may use all cores asked for, the workers are spread over
\* them evenly in every mode, whatever the order in which children and
\* threads start and whatever masks they inherit.
Spread ==
  LET workers == Cardinality(Workers)
      cores   == 0 .. (IF coreCount > 0 THEN coreCount ELSE workers) - 1
  IN  AllPlaced /\ enabled /\ cores \subseteq cpus =>
        /\ \A c, d \in cores : Load(c) - Load(d) <= 1
        /\ \A w \in Workers : Cardinality(Mask(w)) = 1

\* What the README says of a run whose cores are restricted: it goes on
\* after a warning, and the number of a worker in the whole run keeps the
\* threads of a child from being placed on the same core.  Where there are
\* cores enough and none of them is asked for twice, no two threads of a
\* child should be confined to one.
ThreadsOfChildApart ==
  mode = "hybrid" /\ AllPlaced /\ coreCount = 0
      /\ Cardinality(cpus) >= Processes * Threads =>
    \A i \in Pids : \A t, u \in Tids :
      t # u => Cardinality(threadMask[i][t] \cup threadMask[i][u]) > 1

=============================================================================
