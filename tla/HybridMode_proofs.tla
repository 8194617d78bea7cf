-------------------------- MODULE HybridMode_proofs --------------------------
(***************************************************************************)
(* Proofs about HybridMode for any number of processes, threads and        *)
(* trials: a child of run_hybrid_mode is, to its parent, a child of        *)
(* run_process_mode; no thread outlives its group; no two threads run the  *)
(* same trial; and a run that succeeds has run all of them and, if its     *)
(* threads synchronize, counted each once.  Processes and threads never    *)
(* all wait, and the steps left go down in every step.                     *)
(***************************************************************************)
EXTENDS HybridMode, Partition_proofs

PP == INSTANCE ProcessMode_proofs

(* ---- the invariant ------------------------------------------------------*)

\* The types of the variables ProcessMode does not have.
GroupTypeOK ==
  /\ syncMode \in {"nosync", "mutex", "reduce"}
  /\ group \in [P!Processes -> {"start", "create", "join", "return", "done"}]
  /\ turn \in [P!Processes -> Threads]
  /\ groupFailed \in [P!Processes -> BOOLEAN]
  /\ handle \in [P!Processes -> [Threads -> {"zero", "thread", "stale"}]]
  /\ thread \in [P!Processes -> [Threads -> {"absent", "trial", "add", "exited"}]]
  /\ next \in [P!Processes -> [Threads -> 0 .. NumTrials]]
  /\ loaded \in [P!Processes -> [Threads -> Nat]]
  /\ local \in [P!Processes -> [Threads -> Nat]]
  /\ total \in [P!Processes -> Nat]
  /\ owner \in [P!Processes -> Threads \cup {NoThread}]

\* Where a group is, what has become of its threads: created in order, joined
\* in order, and all there unless a create failed.
GroupsInStep ==
  \A i \in P!Processes : \A t \in Threads :
    /\ handle[i][t] = "thread" <=> thread[i][t] # "absent"
    /\ group[i] = "start" => thread[i][t] = "absent" /\ turn[i] = 0
    /\ group[i] = "create" => (thread[i][t] = "absent" <=> turn[i] <= t)
    /\ group[i] = "join" /\ t < turn[i] => thread[i][t] \in {"absent", "exited"}
    /\ group[i] \in {"return", "done"} => thread[i][t] \in {"absent", "exited"}
    /\ group[i] \in {"join", "return"} /\ ~groupFailed[i] =>
         thread[i][t] # "absent"
    /\ groupFailed[i] => group[i] \in {"join", "return", "done"}

\* A thread keeps to its part of the trials and exits at its end.
ThreadsInStep ==
  \A i \in P!Processes : \A t \in Threads :
    /\ thread[i][t] # "absent" =>
         ThreadStart(i, t) <= next[i][t] /\ next[i][t] <= ThreadEnd(i, t)
    /\ thread[i][t] = "add" =>
         next[i][t] < ThreadEnd(i, t) /\ syncMode # "reduce"
    /\ thread[i][t] = "exited" => next[i][t] = ThreadEnd(i, t)

\* The trials each thread of child i has counted.
Counted(i) ==
  [t \in Threads |->
     IF thread[i][t] = "absent" THEN 0 ELSE next[i][t] - ThreadStart(i, t)]

AllCounted(i) == Cardinality(Pile(Counted(i), Threads))

\* Before the locals are merged each holds the trials of its thread.
LocalsCount ==
  syncMode = "reduce" =>
    \A i \in P!Processes :
      /\ \A t \in Threads : local[i][t] = Counted(i)[t]
      /\ group[i] # "done" => total[i] = 0

\* Under the mutex *out holds the trials of all threads, and what the owner
\* has read is still there when it stores.
MutexCounts ==
  syncMode = "mutex" =>
    \A i \in P!Processes :
      /\ total[i] = AllCounted(i)
      /\ \A t \in Threads :
           thread[i][t] = "add" => owner[i] = t /\ loaded[i][t] = total[i]

\* Without it *out, and what a thread has read of it, may be short of them.
NeverTooMany ==
  \A i \in P!Processes :
    /\ total[i] <= AllCounted(i)
    /\ \A t \in Threads : thread[i][t] = "add" => loaded[i][t] <= AllCounted(i)

\* A child that goes on to hand its Result over has run its whole part and, if its
\* threads synchronize, counted it; the parent notices every child that did not.
Handing(i) ==
  child[i] \in {"send", "exit", "exited"} \/ (child[i] = "reaped" /\ ~failed)

HandedOver ==
  \A i \in P!Processes :
    Handing(i) =>
      /\ group[i] = "done"
      /\ \A t \in Threads : thread[i][t] = "exited"
      /\ syncMode # "nosync" => total[i] = ChildTrials(i)

\* No Result is merged twice, whatever fails.
MergedOnce == \A i \in P!Processes : merged[i] \in {0, 1}

IInv ==
  /\ GroupTypeOK
  /\ GroupsInStep
  /\ ThreadsInStep
  /\ LocalsCount
  /\ MutexCounts
  /\ NeverTooMany
  /\ HandedOver
  /\ MergedOnce

-----------------------------------------------------------------------------
(* The parent's view: every step is one of ProcessMode or none. *)

\* What a child's group does leaves the parent alone until the child hands its
\* Result over or ends.
LEMMA StepOfProcess == [Next]_vars => [P!Next]_(P!vars)
<1> SUFFICES ASSUME [Next]_vars PROVE P!Next \/ UNCHANGED P!vars
  OBVIOUS
<1>1. ASSUME UNCHANGED processVars PROVE UNCHANGED P!vars
  BY <1>1 DEF processVars, P!vars, P!mainVars, P!pipeVars, P!fdVars, P!shmVars
<1>2. ASSUME NEW i \in P!Processes, NEW t \in Threads, ThreadStep(i, t)
      PROVE  UNCHANGED processVars
  BY <1>2 DEF ThreadStep, ThreadLoad, ThreadStore, ThreadCount, ThreadExit
<1>3. ASSUME NEW i \in P!Processes, GroupStep(i)
      PROVE  P!ChildAborts(i) \/ P!ChildWork(i) \/ UNCHANGED processVars
  BY <1>3 DEF GroupStep, GroupNoMemory, GroupSetup, GroupCreate,
              GroupCreateFails, GroupJoin, GroupReturn, GroupResult
<1>4. CASE UNCHANGED vars
  BY <1>1, <1>4 DEF vars
<1>5. CASE Next
  BY <1>1, <1>2, <1>3, <1>5
     DEF Next, vars, ChildSend, ChildAborts, MainStep, P!Next, P!ChildStep
<1> QED
  BY <1>4, <1>5

\* A child whose work is done by a group of threads is, to the parent, a child
\* of run_process_mode: it hands over a Result or fails.
THEOREM ImplementsProcess == Spec => ImplementsProcessMode
<1>1. Init => P!Init
  BY DEF Init
<1> QED
  BY <1>1, StepOfProcess, PTL DEF Spec, ImplementsProcessMode, P!Spec

\* What is needed here of the invariant of ProcessMode.
ProcessFacts ==
  /\ P!TypeOK
  /\ main = "read" => \A i \in P!Processes : i >= index => merged[i] = 0
  /\ main = "ended" /\ rc = 0 =>
       /\ ~failed
       /\ \A i \in P!Processes : merged[i] = 1 /\ child[i] = "reaped"

\* What is proved of ProcessMode holds of HybridMode too: the two instances are
\* of the same definitions and the same variables.
LEMMA SpecOfProcess == Spec => PP!Spec
<1>1. P!Spec => PP!Spec
  BY DEF P!Spec, PP!Spec, P!mainVars, PP!mainVars, P!pipeVars, PP!pipeVars,
         P!fdVars, PP!fdVars, P!shmVars, PP!shmVars, P!vars, PP!vars,
         P!UsePipe, PP!UsePipe, P!Running, PP!Running, P!Processes,
         PP!Processes, P!Init, PP!Init, P!ChildGoto, PP!ChildGoto,
         P!ChildWork, PP!ChildWork, P!ChildWrite, PP!ChildWrite,
         P!ChildClose, PP!ChildClose, P!ChildStoreSlot, PP!ChildStoreSlot,
         P!ChildStoreDone, PP!ChildStoreDone, P!ChildStored, PP!ChildStored,
         P!ChildExit, PP!ChildExit, P!ChildAborts, PP!ChildAborts,
         P!MainGoto, PP!MainGoto, P!NextTurn, PP!NextTurn, P!MainNoMemory,
         PP!MainNoMemory, P!MainSetup, PP!MainSetup, P!MainFork, PP!MainFork,
         P!MainPipeFails, PP!MainPipeFails, P!MainForkFails,
         PP!MainForkFails, P!MainWait, PP!MainWait, P!MainRead, PP!MainRead,
         P!CloseReadEnd, PP!CloseReadEnd, P!MainMergeRead, PP!MainMergeRead,
         P!MainReadEnds, PP!MainReadEnds, P!MainSkipRead, PP!MainSkipRead,
         P!MainReadSlot, PP!MainReadSlot, P!MainReturn, PP!MainReturn,
         P!ChildSend, PP!ChildSend, P!ChildStep, PP!ChildStep, P!MainStep,
         PP!MainStep, P!Next, PP!Next
<1>2. Spec => P!Spec
  BY ImplementsProcess DEF ImplementsProcessMode
<1> QED
  BY <1>1, <1>2

LEMMA ProcessAssumed == PP!ProcessAssumption
BY HybridAssumption DEF PP!ProcessAssumption

LEMMA ProcessInductive == Spec => []PP!IInv
BY PP!Inductive, SpecOfProcess, ProcessAssumed

LEMMA ProcessInvariant == Spec => []ProcessFacts
<1>1. PP!IInv => ProcessFacts
  <2> SUFFICES ASSUME PP!IInv PROVE ProcessFacts
    OBVIOUS
  <2>1. P!TypeOK
    BY DEF PP!IInv, PP!TypeOK, P!TypeOK, PP!Processes, P!Processes, PP!Running,
           P!Running
  <2>2. main = "read" => \A i \in P!Processes : i >= index => merged[i] = 0
    BY DEF PP!IInv, PP!MergedInTurn, PP!Processes, P!Processes
  <2>3. ASSUME main = "ended", rc = 0
        PROVE  /\ ~failed
               /\ \A i \in P!Processes : merged[i] = 1 /\ child[i] = "reaped"
    BY <2>3 DEF PP!IInv, PP!MergedInTurn, PP!AllReaped, PP!ForkedSoFar,
                PP!ChildrenInStep, PP!DescriptorsInStep, PP!Processes, P!Processes
  <2> QED
    BY <2>1, <2>2, <2>3 DEF ProcessFacts
<1> QED
  BY <1>1, ProcessInductive, PTL

-----------------------------------------------------------------------------
(* What the parts and the sums are. *)

LEMMA Ranges ==
  ASSUME NEW i \in P!Processes, NEW t \in Threads
  PROVE  /\ ThreadStart(i, t) \in Nat /\ ThreadEnd(i, t) \in Nat
         /\ ThreadStart(i, t) <= ThreadEnd(i, t)
         /\ ThreadEnd(i, t) <= NumTrials
         /\ ThreadEnd(i, t) - ThreadStart(i, t)
              = PartEnd(ChildTrials(i), NumThreads, t)
                  - PartStart(ChildTrials(i), NumThreads, t)
         /\ ChildTrials(i) \in Nat
<1> DEFINE start == PartStart(NumTrials, NumProcesses, i)
           end == PartEnd(NumTrials, NumProcesses, i)
           from == PartStart(ChildTrials(i), NumThreads, t)
           to == PartEnd(ChildTrials(i), NumThreads, t)
<1>1. /\ start \in Nat /\ end \in Nat /\ start <= end /\ end <= NumTrials
      /\ NumTrials \in Nat
  BY PartBounds, HybridAssumption DEF P!Processes
<1>2. ChildTrials(i) = end - start /\ ChildStart(i) = start
  BY DEF ChildTrials, ChildStart
<1>3. ChildTrials(i) \in Nat
  BY <1>1, <1>2
<1>4. from \in Nat /\ to \in Nat /\ from <= to /\ to <= ChildTrials(i)
  BY <1>3, PartBounds, HybridAssumption DEF Threads
<1>5. ThreadStart(i, t) = start + from /\ ThreadEnd(i, t) = start + from + to - from
  BY <1>2 DEF ThreadStart, ThreadEnd
<1> HIDE DEF start, end, from, to
<1>6. /\ ThreadStart(i, t) \in Nat /\ ThreadEnd(i, t) \in Nat
      /\ ThreadStart(i, t) <= ThreadEnd(i, t) /\ ThreadEnd(i, t) <= NumTrials
      /\ ThreadEnd(i, t) - ThreadStart(i, t) = to - from
  BY <1>1, <1>2, <1>3, <1>4, <1>5
<1> QED
  BY <1>3, <1>6 DEF from, to

LEMMA ThreadsFinite == IsFiniteSet(Threads) /\ Threads = 0 .. NumThreads - 1
BY FS_Interval, HybridAssumption DEF Threads

\* What the threads of a child have counted is at most the child's part, and all
\* of it when they have all come to their end.
LEMMA CountedBounds ==
  ASSUME GroupTypeOK, ThreadsInStep, NEW i \in P!Processes
  PROVE  /\ \A t \in Threads : Counted(i)[t] \in Nat
         /\ AllCounted(i) \in Nat
         /\ AllCounted(i) <= ChildTrials(i)
         /\ (\A t \in Threads : thread[i][t] = "exited") =>
              AllCounted(i) = ChildTrials(i)
<1> DEFINE part == [t \in Threads |-> ThreadEnd(i, t) - ThreadStart(i, t)]
<1>1. ASSUME NEW t \in Threads
      PROVE  /\ Counted(i)[t] \in Nat /\ part[t] \in Nat
             /\ Counted(i)[t] <= part[t]
             /\ thread[i][t] = "exited" => Counted(i)[t] = part[t]
  <2>1. /\ ThreadStart(i, t) \in Nat /\ ThreadEnd(i, t) \in Nat
        /\ ThreadStart(i, t) <= ThreadEnd(i, t)
    BY Ranges
  <2>2. next[i][t] \in Nat
    BY DEF GroupTypeOK
  <2>3. /\ thread[i][t] # "absent" =>
             ThreadStart(i, t) <= next[i][t] /\ next[i][t] <= ThreadEnd(i, t)
        /\ thread[i][t] = "exited" => next[i][t] = ThreadEnd(i, t)
    BY DEF ThreadsInStep
  <2>4. /\ thread[i][t] = "absent" => Counted(i)[t] = 0
        /\ thread[i][t] # "absent" =>
             Counted(i)[t] = next[i][t] - ThreadStart(i, t)
    BY DEF Counted
  <2> QED
    BY <2>1, <2>2, <2>3, <2>4
<1>2. Cardinality(Pile(part, Threads)) = ChildTrials(i)
  <2>1. \A t \in Threads :
          part[t] = PartEnd(ChildTrials(i), NumThreads, t)
                      - PartStart(ChildTrials(i), NumThreads, t)
    BY Ranges
  <2>2. 0 \in Threads
    BY HybridAssumption DEF Threads
  <2>3. ChildTrials(i) \in Nat
    BY <2>2, Ranges
  <2> HIDE DEF part
  <2> QED
    BY <2>1, <2>3, ThreadsFinite, PartsSum, HybridAssumption
<1> HIDE DEF part
<1>3. AllCounted(i) \in Nat /\ AllCounted(i) <= ChildTrials(i)
  BY <1>1, <1>2, ThreadsFinite, SumMonotone DEF AllCounted
<1>4. ASSUME \A t \in Threads : thread[i][t] = "exited"
      PROVE  AllCounted(i) = ChildTrials(i)
  BY <1>1, <1>2, <1>4, SumSame DEF AllCounted
<1> QED
  BY <1>1, <1>3, <1>4

-----------------------------------------------------------------------------
(* Which trials are run.  A trial is in the part of one child, and at its  *)
(* place there in the part of one thread.                                  *)

InChild(n, i) == InPart(n, NumTrials, NumProcesses, i)

InThread(n, i, t) == InPart(n - ChildStart(i), ChildTrials(i), NumThreads, t)

LEMMA TwoLevels ==
  ASSUME NEW i \in P!Processes, NEW t \in Threads, NEW n \in Int
  PROVE  ThreadStart(i, t) <= n /\ n < ThreadEnd(i, t)
           <=> InChild(n, i) /\ InThread(n, i, t)
<1> DEFINE start == ChildStart(i)
           trials == ChildTrials(i)
           end == PartEnd(NumTrials, NumProcesses, i)
           from == PartStart(trials, NumThreads, t)
           to == PartEnd(trials, NumThreads, t)
<1>1. start = PartStart(NumTrials, NumProcesses, i) /\ trials = end - start
  BY DEF ChildStart, ChildTrials
<1>2. start \in Nat /\ end \in Nat
  BY <1>1, PartBounds, HybridAssumption DEF P!Processes
<1>3. trials \in Nat
  BY Ranges
<1>4. from \in Nat /\ to \in Nat /\ to <= trials
  BY <1>3, PartBounds, HybridAssumption DEF Threads
<1>5. ThreadStart(i, t) = start + from /\ ThreadEnd(i, t) = start + from + to - from
  BY DEF ThreadStart, ThreadEnd
<1>6. InChild(n, i) <=> start <= n /\ n < end
  BY <1>1 DEF InChild, InPart
<1>7. InThread(n, i, t) <=> from <= n - start /\ n - start < to
  BY DEF InThread, InPart
<1> HIDE DEF start, trials, end, from, to
<1> QED
  BY <1>1, <1>2, <1>3, <1>4, <1>5, <1>6, <1>7

\* No trial is in two parts.
LEMMA PartsApart ==
  ASSUME NEW i \in P!Processes, NEW t \in Threads,
         NEW j \in P!Processes, NEW u \in Threads, NEW n \in Int,
         ThreadStart(i, t) <= n, n < ThreadEnd(i, t),
         ThreadStart(j, u) <= n, n < ThreadEnd(j, u)
  PROVE  i = j /\ t = u
<1>1. /\ InChild(n, i) /\ InThread(n, i, t)
      /\ InChild(n, j) /\ InThread(n, j, u)
  BY TwoLevels
<1>2. n \in 0 .. NumTrials - 1 /\ NumTrials \in Nat
  BY Ranges, HybridAssumption
<1>3. i = j
  BY <1>1, <1>2, PartsTile, HybridAssumption DEF InChild, P!Processes
<1> DEFINE k == n - ChildStart(i)
           trials == ChildTrials(i)
<1>4. k \in 0 .. trials - 1 /\ trials \in Nat
  <2>1. /\ PartStart(NumTrials, NumProcesses, i) \in Nat
        /\ PartEnd(NumTrials, NumProcesses, i) \in Nat
    BY PartBounds, HybridAssumption DEF P!Processes
  <2>2. ChildStart(i) <= n /\ n < PartEnd(NumTrials, NumProcesses, i)
    BY <1>1 DEF InChild, InPart, ChildStart
  <2>3. ChildTrials(i) \in Nat
    BY Ranges
  <2> QED
    BY <2>1, <2>2, <2>3 DEF ChildStart, ChildTrials
<1>5. InPart(k, trials, NumThreads, t) /\ InPart(k, trials, NumThreads, u)
  BY <1>1, <1>3 DEF InThread
<1> HIDE DEF k, trials
<1>6. t = u
  BY <1>4, <1>5, PartsTile, HybridAssumption DEF Threads
<1> QED
  BY <1>3, <1>6

\* Every trial is in some part.
LEMMA PartsCover ==
  ASSUME NEW n \in 0 .. NumTrials - 1
  PROVE  \E i \in P!Processes : \E t \in Threads :
           ThreadStart(i, t) <= n /\ n < ThreadEnd(i, t)
<1>1. PICK i \in P!Processes : InChild(n, i)
  BY PartsTile, HybridAssumption DEF InChild, P!Processes
<1> DEFINE k == n - ChildStart(i)
           trials == ChildTrials(i)
<1>2. k \in 0 .. trials - 1 /\ trials \in Nat
  <2>1. /\ PartStart(NumTrials, NumProcesses, i) \in Nat
        /\ PartEnd(NumTrials, NumProcesses, i) \in Nat
    BY PartBounds, HybridAssumption DEF P!Processes
  <2>2. ChildStart(i) <= n /\ n < PartEnd(NumTrials, NumProcesses, i)
    BY <1>1 DEF InChild, InPart, ChildStart
  <2> QED
    BY <2>1, <2>2 DEF ChildStart, ChildTrials
<1> HIDE DEF k, trials
<1>3. PICK t \in Threads : InPart(k, trials, NumThreads, t)
  BY <1>2, PartsTile, HybridAssumption DEF Threads
<1>4. InThread(n, i, t)
  BY <1>3 DEF InThread, k, trials
<1> QED
  BY <1>1, <1>4, TwoLevels

\* A thread runs trials of its part only, in their order.
LEMMA RanIs ==
  ASSUME GroupTypeOK, ThreadsInStep, NEW i \in P!Processes, NEW t \in Threads
  PROVE  \A n \in Ran(i, t) :
           /\ n \in 0 .. NumTrials - 1
           /\ thread[i][t] # "absent"
           /\ ThreadStart(i, t) <= n /\ n < next[i][t] /\ n < ThreadEnd(i, t)
<1>1. /\ next[i][t] \in Nat /\ ThreadStart(i, t) \in Nat
      /\ ThreadEnd(i, t) \in Nat /\ ThreadEnd(i, t) <= NumTrials
      /\ NumTrials \in Nat
      /\ thread[i][t] # "absent" => next[i][t] <= ThreadEnd(i, t)
  BY Ranges, HybridAssumption DEF GroupTypeOK, ThreadsInStep
<1> QED
  BY <1>1 DEF Ran

LEMMA NeverTwice == GroupTypeOK /\ ThreadsInStep => NoTrialTwice
<1> SUFFICES ASSUME GroupTypeOK, ThreadsInStep,
                    NEW i \in P!Processes, NEW j \in P!Processes,
                    NEW t \in Threads, NEW u \in Threads,
                    NEW n \in Ran(i, t) \cap Ran(j, u)
             PROVE  <<i, t>> = <<j, u>>
  BY DEF NoTrialTwice
<1>1. /\ n \in Int
      /\ ThreadStart(i, t) <= n /\ n < ThreadEnd(i, t)
      /\ ThreadStart(j, u) <= n /\ n < ThreadEnd(j, u)
  BY RanIs
<1> QED
  BY <1>1, PartsApart

\* What the threads of a child have counted are different trials.
LEMMA CountedAreRan ==
  ASSUME GroupTypeOK, ThreadsInStep, NEW i \in P!Processes
  PROVE  /\ IsFiniteSet(RanBy(i))
         /\ Cardinality(RanBy(i)) \in Nat
         /\ AllCounted(i) <= Cardinality(RanBy(i))
<1> DEFINE pile == Pile(Counted(i), Threads)
           trial == [p \in pile |-> ThreadStart(i, p[1]) + p[2] - 1]
<1>1. IsFiniteSet(RanBy(i)) /\ Cardinality(RanBy(i)) \in Nat
  <2>1. RanBy(i) \subseteq 0 .. NumTrials - 1
    BY RanIs DEF RanBy
  <2>2. IsFiniteSet(0 .. NumTrials - 1)
    BY FS_Interval, HybridAssumption
  <2> QED
    BY <2>1, <2>2, FS_Subset, FS_CardinalityType
<1>2. IsFiniteSet(pile)
  BY CountedBounds, ThreadsFinite, PileFinite
<1>3. ASSUME NEW p \in pile
      PROVE  /\ p[1] \in Threads /\ p[2] \in Nat /\ p = <<p[1], p[2]>>
             /\ trial[p] \in Ran(i, p[1])
             /\ ThreadStart(i, p[1]) \in Nat
             /\ trial[p] = ThreadStart(i, p[1]) + p[2] - 1
  <2>1. p[1] \in Threads /\ p[2] \in 1 .. Counted(i)[p[1]] /\ p = <<p[1], p[2]>>
    BY DEF Pile
  <2>2. Counted(i)[p[1]] \in Nat
    BY <2>1, CountedBounds
  <2>3. /\ thread[i][p[1]] # "absent"
        /\ Counted(i)[p[1]] = next[i][p[1]] - ThreadStart(i, p[1])
    BY <2>1, <2>2 DEF Counted
  <2>4. ThreadStart(i, p[1]) \in Nat /\ next[i][p[1]] \in Nat
    BY <2>1, Ranges DEF GroupTypeOK
  <2>5. trial[p] = ThreadStart(i, p[1]) + p[2] - 1
    OBVIOUS
  <2> HIDE DEF trial
  <2>6. trial[p] \in ThreadStart(i, p[1]) .. next[i][p[1]] - 1
    BY <2>1, <2>2, <2>3, <2>4, <2>5
  <2> QED
    BY <2>1, <2>2, <2>3, <2>4, <2>5, <2>6 DEF Ran
<1> HIDE DEF pile
<1>4. trial \in [pile -> RanBy(i)]
  BY <1>3 DEF RanBy
<1>5. ASSUME NEW p \in pile, NEW q \in pile, trial[p] = trial[q] PROVE p = q
  <2> HIDE DEF trial
  <2>1. p[1] = q[1]
    BY <1>3, <1>5, NeverTwice DEF NoTrialTwice
  <2>2. p[2] = q[2]
    BY <1>3, <1>5, <2>1
  <2> QED
    BY <1>3, <2>1, <2>2
<1> HIDE DEF trial
<1>6. Cardinality(pile) <= Cardinality(RanBy(i))
  <2>1. trial \in Injection(pile, RanBy(i))
    BY <1>4, <1>5 DEF Injection, IsInjective
  <2> QED
    BY <1>1, <1>2, <2>1, FS_Injection DEF ExistsInjection
<1> QED
  BY <1>1, <1>6 DEF AllCounted, pile

-----------------------------------------------------------------------------
(* The steps. *)

\* A step is one of a thread, of a group, or of neither.
LEMMA Steps ==
  [Next]_vars =>
    \/ \E i \in P!Processes : \E t \in Threads : ThreadStep(i, t)
    \/ \E i \in P!Processes : GroupStep(i)
    \/ UNCHANGED groupVars
BY DEF Next, vars, ChildSend, ChildAborts, MainStep

LEMMA TypeStep == IInv /\ [Next]_vars => GroupTypeOK'
<1> SUFFICES ASSUME IInv, [Next]_vars PROVE GroupTypeOK'
  OBVIOUS
<1>0. GroupTypeOK /\ ThreadsInStep
  BY DEF IInv
<1>1. CASE UNCHANGED groupVars
  BY <1>0, <1>1 DEF GroupTypeOK, groupVars, groupMainVars, threadVars
<1>2. ASSUME NEW i \in P!Processes, NEW t \in Threads, ThreadStep(i, t)
      PROVE  GroupTypeOK'
  <2>1. /\ ThreadEnd(i, t) \in Nat /\ ThreadEnd(i, t) <= NumTrials
        /\ NumTrials \in Nat
    BY Ranges, HybridAssumption
  <2>2. CASE ThreadLoad(i, t)
    BY <1>0, <2>2 DEF ThreadLoad, groupMainVars, GroupTypeOK
  <2>3. CASE ThreadStore(i, t)
    <3>1. next[i][t] \in Nat /\ next[i][t] + 1 \in 0 .. NumTrials
      BY <1>0, <2>1, <2>3 DEF ThreadStore, ThreadsInStep, GroupTypeOK
    <3>2. loaded[i][t] + 1 \in Nat
      BY <1>0 DEF GroupTypeOK
    <3> QED
      BY <1>0, <2>3, <3>1, <3>2 DEF ThreadStore, groupMainVars, GroupTypeOK
  <2>4. CASE ThreadCount(i, t)
    <3>1. next[i][t] \in Nat /\ next[i][t] + 1 \in 0 .. NumTrials
      BY <1>0, <2>1, <2>4 DEF ThreadCount, MoreTrials, GroupTypeOK
    <3>2. local[i][t] + 1 \in Nat
      BY <1>0 DEF GroupTypeOK
    <3> QED
      BY <1>0, <2>4, <3>1, <3>2 DEF ThreadCount, groupMainVars, GroupTypeOK
  <2>5. CASE ThreadExit(i, t)
    BY <1>0, <2>5 DEF ThreadExit, groupMainVars, threadVars, GroupTypeOK
  <2> QED
    BY <1>2, <2>2, <2>3, <2>4, <2>5 DEF ThreadStep
<1>3. ASSUME NEW i \in P!Processes, GroupStep(i) PROVE GroupTypeOK'
  <2>1. turn[i] \in Threads /\ 0 \in Threads
    BY <1>0, HybridAssumption DEF GroupTypeOK, Threads
  <2>2. CASE GroupNoMemory(i)
    BY <1>0, <2>1, <2>2 DEF GroupNoMemory, GroupGoto, threadVars, GroupTypeOK
  <2>3. CASE GroupSetup(i)
    BY <1>0, <2>1, <2>3 DEF GroupSetup, GroupGoto, threadVars, GroupTypeOK
  <2>4. CASE GroupCreate(i)
    <3>1. turn[i] + 1 < NumThreads => turn[i] + 1 \in Threads
      BY <2>1, HybridAssumption DEF Threads
    <3>2. ThreadStart(i, turn[i]) \in 0 .. NumTrials
      <4>1. /\ ThreadStart(i, turn[i]) \in Nat /\ ThreadEnd(i, turn[i]) \in Nat
            /\ ThreadStart(i, turn[i]) <= ThreadEnd(i, turn[i])
            /\ ThreadEnd(i, turn[i]) <= NumTrials
        BY <2>1, Ranges
      <4> QED
        BY <4>1, HybridAssumption
    <3>3. /\ group' \in [P!Processes -> {"start", "create", "join", "return", "done"}]
          /\ turn' \in [P!Processes -> Threads]
      BY ZenonT(60), <1>0, <2>1, <2>4, <3>1 DEF GroupCreate, GroupGoto, GroupTypeOK
    <3> QED
      BY <1>0, <2>1, <2>4, <3>2, <3>3 DEF GroupCreate, GroupTypeOK
  <2>5. CASE GroupCreateFails(i)
    BY <1>0, <2>1, <2>5 DEF GroupCreateFails, GroupGoto, threadVars, GroupTypeOK
  <2>6. CASE GroupJoin(i)
    <3>1. turn[i] + 1 < NumThreads => turn[i] + 1 \in Threads
      BY <2>1, HybridAssumption DEF Threads
    <3> QED
      BY ZenonT(60), <1>0, <2>1, <2>6, <3>1 DEF GroupJoin, GroupGoto, threadVars, GroupTypeOK
  <2>7. CASE GroupReturn(i)
    <3>1. ASSUME ~groupFailed[i], syncMode = "reduce"
          PROVE  total[i] + FoldFunction(+, 0, local[i]) \in Nat
      <4>1. local[i] \in [Threads -> Nat]
        BY <1>0 DEF GroupTypeOK
      <4>2. FoldFunction(+, 0, local[i]) = Cardinality(Pile(local[i], Threads))
        BY <4>1, ThreadsFinite, FoldAllIs
      <4>3. Cardinality(Pile(local[i], Threads)) \in Nat
        <5>1. \A t \in Threads : local[i][t] \in Nat /\ local[i][t] <= local[i][t]
          BY <4>1
        <5> QED
          BY <5>1, ThreadsFinite, SumMonotone
      <4>4. total[i] \in Nat
        BY <1>0 DEF GroupTypeOK
      <4> DEFINE sum == FoldFunction(+, 0, local[i])
      <4>5. sum \in Nat
        BY <4>2, <4>3
      <4> HIDE DEF sum
      <4>6. total[i] + sum \in Nat
        BY <4>4, <4>5
      <4> QED
        BY <4>6 DEF sum
    <3>2. total' \in [P!Processes -> Nat]
      BY <1>0, <2>7, <3>1 DEF GroupReturn, GroupTypeOK
    <3> QED
      BY <1>0, <2>1, <2>7, <3>2 DEF GroupReturn, GroupGoto, threadVars, GroupTypeOK
  <2> QED
    BY <1>3, <2>2, <2>3, <2>4, <2>5, <2>6, <2>7 DEF GroupStep
<1> QED
  BY <1>1, <1>2, <1>3, Steps

LEMMA GroupsStep == IInv /\ [Next]_vars => GroupsInStep'
<1> SUFFICES ASSUME IInv, [Next]_vars PROVE GroupsInStep'
  OBVIOUS
<1>0. GroupTypeOK /\ GroupsInStep
  BY DEF IInv
<1>1. CASE UNCHANGED groupVars
  BY <1>0, <1>1 DEF GroupsInStep, groupVars, groupMainVars
<1>2. ASSUME NEW i \in P!Processes, NEW t \in Threads, ThreadStep(i, t)
      PROVE  GroupsInStep'
  <2>1. UNCHANGED <<group, turn, groupFailed, handle>>
    BY <1>2 DEF ThreadStep, ThreadLoad, ThreadStore, ThreadCount, ThreadExit,
                groupMainVars
  <2>2. /\ thread[i][t] \in {"trial", "add"}
        /\ \/ thread' = thread
           \/ \E x \in {"trial", "add", "exited"} :
                thread' = [thread EXCEPT ![i][t] = x]
    BY <1>2 DEF ThreadStep, ThreadLoad, ThreadStore, ThreadCount, ThreadExit
  <2>3. \A j \in P!Processes : \A u \in Threads :
          /\ thread'[j][u] = "absent" <=> thread[j][u] = "absent"
          /\ thread[j][u] = "exited" => thread'[j][u] = "exited"
    BY <1>0, <2>2 DEF GroupTypeOK
  <2> QED
    BY <1>0, <2>1, <2>3 DEF GroupsInStep
<1>3. ASSUME NEW i \in P!Processes, GroupStep(i) PROVE GroupsInStep'
  <2>1. turn[i] \in Threads
    BY <1>0 DEF GroupTypeOK
  \* Only child i is concerned.
  <2>2. ASSUME NEW j \in P!Processes, j # i
        PROVE  /\ group'[j] = group[j] /\ turn'[j] = turn[j]
               /\ groupFailed'[j] = groupFailed[j] /\ handle'[j] = handle[j]
               /\ thread'[j] = thread[j]
    BY <1>0, <1>3, <2>2
       DEF GroupStep, GroupNoMemory, GroupSetup, GroupCreate, GroupCreateFails,
           GroupJoin, GroupReturn, GroupGoto, GroupTypeOK
  <2>3. SUFFICES ASSUME NEW t \in Threads
        PROVE  /\ handle'[i][t] = "thread" <=> thread'[i][t] # "absent"
               /\ group'[i] = "start" => thread'[i][t] = "absent" /\ turn'[i] = 0
               /\ group'[i] = "create" =>
                    (thread'[i][t] = "absent" <=> turn'[i] <= t)
               /\ group'[i] = "join" /\ t < turn'[i] =>
                    thread'[i][t] \in {"absent", "exited"}
               /\ group'[i] \in {"return", "done"} =>
                    thread'[i][t] \in {"absent", "exited"}
               /\ group'[i] \in {"join", "return"} /\ ~groupFailed'[i] =>
                    thread'[i][t] # "absent"
               /\ groupFailed'[i] => group'[i] \in {"join", "return", "done"}
    BY <1>0, <2>2 DEF GroupsInStep
  <2>4. /\ t \in Nat /\ t < NumThreads /\ 0 <= t
        /\ turn[i] \in Nat /\ turn[i] < NumThreads /\ NumThreads \in Nat
    BY <2>1, HybridAssumption DEF Threads
  <2>5. /\ handle[i][t] = "thread" <=> thread[i][t] # "absent"
        /\ group[i] = "start" => thread[i][t] = "absent" /\ turn[i] = 0
        /\ group[i] = "create" => (thread[i][t] = "absent" <=> turn[i] <= t)
        /\ group[i] = "join" /\ t < turn[i] => thread[i][t] \in {"absent", "exited"}
        /\ group[i] \in {"return", "done"} => thread[i][t] \in {"absent", "exited"}
        /\ group[i] \in {"join", "return"} /\ ~groupFailed[i] =>
             thread[i][t] # "absent"
        /\ groupFailed[i] => group[i] \in {"join", "return", "done"}
    BY <1>0 DEF GroupsInStep
  <2>6. CASE GroupNoMemory(i)
    <3>1. /\ group'[i] = "done" /\ turn'[i] = 0
          /\ UNCHANGED <<groupFailed, handle, thread>> /\ group[i] = "start"
      BY <1>0, <2>6 DEF GroupNoMemory, GroupGoto, GroupTypeOK
    <3> QED
      BY <2>5, <3>1
  <2>7. CASE GroupSetup(i)
    <3>1. /\ group'[i] = "create" /\ turn'[i] = 0
          /\ UNCHANGED <<groupFailed, handle, thread>> /\ group[i] = "start"
      BY <1>0, <2>7 DEF GroupSetup, GroupGoto, GroupTypeOK
    <3> QED
      BY <2>4, <2>5, <3>1
  <2>8. CASE GroupCreate(i)
    <3>1. /\ group[i] = "create" /\ UNCHANGED groupFailed
          /\ t = turn[i] => handle'[i][t] = "thread" /\ thread'[i][t] = "trial"
          /\ t # turn[i] =>
               handle'[i][t] = handle[i][t] /\ thread'[i][t] = thread[i][t]
      BY <1>0, <2>1, <2>8 DEF GroupCreate, GroupTypeOK
    <3>2. \/ /\ turn[i] + 1 < NumThreads
             /\ group'[i] = "create" /\ turn'[i] = turn[i] + 1
          \/ /\ ~(turn[i] + 1 < NumThreads)
             /\ group'[i] = "join" /\ turn'[i] = 0
      BY <1>0, <2>8, <3>1 DEF GroupCreate, GroupGoto, GroupTypeOK
    <3> QED
      BY <2>4, <2>5, <3>1, <3>2
  <2>9. CASE GroupCreateFails(i)
    <3>1. /\ group[i] = "create" /\ groupFailed'[i] /\ UNCHANGED thread
          /\ group'[i] = "join" /\ turn'[i] = 0
          /\ t = turn[i] => handle'[i][t] # "thread"
          /\ t # turn[i] => handle'[i][t] = handle[i][t]
      BY <1>0, <2>1, <2>9 DEF GroupCreateFails, GroupGoto, GroupTypeOK
    <3> QED
      BY <2>4, <2>5, <3>1
  <2>10. CASE GroupJoin(i)
    <3>1. /\ group[i] = "join" /\ UNCHANGED <<groupFailed, handle, thread>>
          /\ t = turn[i] => handle[i][t] # "thread" \/ thread[i][t] = "exited"
      BY <2>10 DEF GroupJoin, Joinable
    <3>2. \/ /\ turn[i] + 1 < NumThreads
             /\ group'[i] = "join" /\ turn'[i] = turn[i] + 1
          \/ /\ ~(turn[i] + 1 < NumThreads)
             /\ group'[i] = "return" /\ turn'[i] = 0
      BY <1>0, <2>10, <3>1 DEF GroupJoin, GroupGoto, GroupTypeOK
    <3> QED
      BY <2>4, <2>5, <3>1, <3>2
  <2>11. CASE GroupReturn(i)
    <3>1. /\ group'[i] = "done" /\ turn'[i] = 0
          /\ UNCHANGED <<groupFailed, handle, thread>> /\ group[i] = "return"
      BY <1>0, <2>11 DEF GroupReturn, GroupGoto, GroupTypeOK
    <3> QED
      BY <2>5, <3>1
  <2> QED
    BY <1>3, <2>6, <2>7, <2>8, <2>9, <2>10, <2>11 DEF GroupStep
<1> QED
  BY <1>1, <1>2, <1>3, Steps

LEMMA ThreadsStep == IInv /\ [Next]_vars => ThreadsInStep'
<1> SUFFICES ASSUME IInv, [Next]_vars PROVE ThreadsInStep'
  OBVIOUS
<1>0. GroupTypeOK /\ ThreadsInStep
  BY DEF IInv
<1>1. CASE UNCHANGED <<syncMode, thread, next>>
  BY <1>0, <1>1 DEF ThreadsInStep
<1>2. ASSUME NEW i \in P!Processes, NEW t \in Threads, ThreadStep(i, t)
      PROVE  ThreadsInStep'
  <2>1. /\ ThreadStart(i, t) \in Nat /\ ThreadEnd(i, t) \in Nat
        /\ next[i][t] \in Nat /\ syncMode' = syncMode
        /\ ThreadStart(i, t) <= next[i][t] /\ next[i][t] <= ThreadEnd(i, t)
    BY <1>0, <1>2, Ranges
       DEF ThreadsInStep, GroupTypeOK, ThreadStep, ThreadLoad, ThreadStore,
           ThreadCount, ThreadExit
  <2>2. CASE ThreadLoad(i, t)
    BY <1>0, <2>1, <2>2 DEF ThreadLoad, MoreTrials, ThreadsInStep, GroupTypeOK
  <2>3. CASE ThreadStore(i, t)
    BY <1>0, <2>1, <2>3 DEF ThreadStore, ThreadsInStep, GroupTypeOK
  <2>4. CASE ThreadCount(i, t)
    BY <1>0, <2>1, <2>4 DEF ThreadCount, MoreTrials, ThreadsInStep, GroupTypeOK
  <2>5. CASE ThreadExit(i, t)
    <3>1. next[i][t] = ThreadEnd(i, t) /\ UNCHANGED <<syncMode, next>>
      BY <2>1, <2>5 DEF ThreadExit, MoreTrials, threadVars
    <3>2. \A j \in P!Processes : \A u \in Threads :
            \/ thread'[j][u] = thread[j][u]
            \/ j = i /\ u = t /\ thread'[j][u] = "exited"
      BY <1>0, <2>5 DEF ThreadExit, GroupTypeOK
    <3> QED
      BY <1>0, <2>1, <2>5, <3>1, <3>2 DEF ThreadsInStep, ThreadExit
  <2> QED
    BY <1>2, <2>2, <2>3, <2>4, <2>5 DEF ThreadStep
<1>3. ASSUME NEW i \in P!Processes, GroupCreate(i) PROVE ThreadsInStep'
  <2>1. turn[i] \in Threads
    BY <1>0 DEF GroupTypeOK
  <2>2. /\ ThreadStart(i, turn[i]) \in Nat /\ ThreadEnd(i, turn[i]) \in Nat
        /\ ThreadStart(i, turn[i]) <= ThreadEnd(i, turn[i])
    BY <2>1, Ranges
  <2>3. \A j \in P!Processes : \A u \in Threads :
          \/ thread'[j][u] = thread[j][u] /\ next'[j][u] = next[j][u]
          \/ /\ thread'[j][u] = "trial" /\ j = i /\ u = turn[i]
             /\ next'[j][u] = ThreadStart(i, turn[i])
    BY <1>0, <1>3, <2>1 DEF GroupCreate, GroupTypeOK
  <2>4. syncMode' = syncMode
    BY <1>3 DEF GroupCreate
  <2> QED
    BY <1>0, <2>2, <2>3, <2>4 DEF ThreadsInStep
<1>4. ASSUME NEW i \in P!Processes, GroupStep(i), ~GroupCreate(i)
      PROVE  UNCHANGED <<syncMode, thread, next>>
  BY <1>4 DEF GroupStep, GroupNoMemory, GroupSetup, GroupCreateFails, GroupJoin,
              GroupReturn, threadVars
<1>5. CASE UNCHANGED groupVars
  BY <1>1, <1>5 DEF groupVars, threadVars
<1> QED
  BY <1>1, <1>2, <1>3, <1>4, <1>5, Steps

-----------------------------------------------------------------------------
(* What is counted.  A child is concerned by its own steps only. *)

LEMMA OwnSteps ==
  ASSUME GroupTypeOK, [Next]_vars, NEW j \in P!Processes
  PROVE  /\ syncMode' = syncMode
         /\ \/ \E t \in Threads : ThreadStep(j, t)
            \/ GroupStep(j)
            \/ /\ group'[j] = group[j] /\ thread'[j] = thread[j]
               /\ next'[j] = next[j] /\ loaded'[j] = loaded[j]
               /\ local'[j] = local[j] /\ total'[j] = total[j]
               /\ owner'[j] = owner[j]
<1>1. CASE UNCHANGED groupVars
  BY <1>1 DEF groupVars, groupMainVars, threadVars
<1>2. ASSUME NEW i \in P!Processes, NEW t \in Threads, ThreadStep(i, t)
      PROVE  /\ syncMode' = syncMode
             /\ i # j => /\ group'[j] = group[j] /\ thread'[j] = thread[j]
                         /\ next'[j] = next[j] /\ loaded'[j] = loaded[j]
                         /\ local'[j] = local[j] /\ total'[j] = total[j]
                         /\ owner'[j] = owner[j]
  BY <1>2 DEF GroupTypeOK, ThreadStep, ThreadLoad, ThreadStore, ThreadCount,
              ThreadExit, groupMainVars, threadVars
<1>3. ASSUME NEW i \in P!Processes, GroupStep(i)
      PROVE  /\ syncMode' = syncMode
             /\ i # j => /\ group'[j] = group[j] /\ thread'[j] = thread[j]
                         /\ next'[j] = next[j] /\ loaded'[j] = loaded[j]
                         /\ local'[j] = local[j] /\ total'[j] = total[j]
                         /\ owner'[j] = owner[j]
  BY ZenonT(60), <1>3 DEF GroupTypeOK, GroupStep, GroupNoMemory, GroupSetup, GroupCreate,
              GroupCreateFails, GroupJoin, GroupReturn, GroupGoto, threadVars
<1> QED
  BY <1>1, <1>2, <1>3, Steps

\* One thread of a child counts one trial.
CountsOne(j, t) ==
  /\ Counted(j)'[t] = Counted(j)[t] + 1
  /\ \A u \in Threads \ {t} : Counted(j)'[u] = Counted(j)[u]
  /\ AllCounted(j)' = AllCounted(j) + 1

CountsNone(j) ==
  /\ \A u \in Threads : Counted(j)'[u] = Counted(j)[u]
  /\ AllCounted(j)' = AllCounted(j)

LEMMA StoreCounts ==
  ASSUME IInv, NEW j \in P!Processes, NEW t \in Threads,
         ThreadStore(j, t) \/ ThreadCount(j, t)
  PROVE  CountsOne(j, t)
<1>0. GroupTypeOK /\ ThreadsInStep
  BY DEF IInv
<1>1. /\ \A u \in Threads :
           /\ u # t => next'[j][u] = next[j][u]
           /\ thread'[j][u] = "absent" <=> thread[j][u] = "absent"
      /\ next'[j][t] = next[j][t] + 1 /\ thread[j][t] # "absent"
  BY <1>0 DEF ThreadStore, ThreadCount, GroupTypeOK
<1>2. next[j][t] \in Nat /\ ThreadStart(j, t) \in Nat
  BY <1>0, Ranges DEF GroupTypeOK
<1>3. /\ Counted(j)'[t] = Counted(j)[t] + 1
      /\ \A u \in Threads \ {t} : Counted(j)'[u] = Counted(j)[u]
  BY <1>1, <1>2 DEF Counted
<1>4. \A u \in Threads : Counted(j)[u] \in Nat
  BY <1>0, CountedBounds
<1>5. AllCounted(j)' = AllCounted(j) + 1
  BY <1>3, <1>4, ThreadsFinite, SumNext DEF AllCounted
<1> QED
  BY <1>3, <1>5 DEF CountsOne

LEMMA OthersDoNotCount ==
  ASSUME IInv, [Next]_vars, NEW j \in P!Processes,
         ~(\E t \in Threads : ThreadStore(j, t) \/ ThreadCount(j, t))
  PROVE  CountsNone(j)
<1>0. GroupTypeOK /\ ThreadsInStep /\ GroupsInStep
  BY DEF IInv
<1>1. SUFFICES \A u \in Threads : Counted(j)'[u] = Counted(j)[u]
  BY SumSame DEF CountsNone, AllCounted
<1>2. CASE /\ next'[j] = next[j]
           /\ \A u \in Threads : thread'[j][u] = "absent" <=> thread[j][u] = "absent"
  BY <1>2 DEF Counted
<1>3. CASE GroupCreate(j)
  <2>1. /\ turn[j] \in Threads /\ thread[j][turn[j]] = "absent"
        /\ thread'[j][turn[j]] # "absent"
        /\ next'[j][turn[j]] = ThreadStart(j, turn[j])
        /\ \A u \in Threads : u # turn[j] =>
             next'[j][u] = next[j][u] /\ thread'[j][u] = thread[j][u]
    <3>1. turn[j] \in Threads /\ turn[j] <= turn[j]
      BY <1>0 DEF GroupTypeOK, Threads
    <3> QED
      BY <1>0, <1>3, <3>1 DEF GroupCreate, GroupsInStep, GroupTypeOK
  <2>2. ThreadStart(j, turn[j]) - ThreadStart(j, turn[j]) = 0
    BY <2>1, Ranges
  <2> QED
    BY <2>1, <2>2 DEF Counted
<1>4. CASE GroupStep(j) /\ ~GroupCreate(j)
  <2>1. UNCHANGED <<thread, next>>
    BY <1>4 DEF GroupStep, GroupNoMemory, GroupSetup, GroupCreateFails, GroupJoin,
                GroupReturn, threadVars
  <2> QED
    BY <1>2, <2>1
<1>5. ASSUME NEW t \in Threads, ThreadStep(j, t)
      PROVE  /\ next'[j] = next[j]
             /\ \A u \in Threads : thread'[j][u] = "absent" <=> thread[j][u] = "absent"
  BY <1>0, <1>5 DEF ThreadStep, ThreadLoad, ThreadExit, threadVars, GroupTypeOK
<1> QED
  BY <1>0, <1>2, <1>3, <1>4, <1>5, OwnSteps

LEMMA LocalsStep == IInv /\ [Next]_vars => LocalsCount'
<1> SUFFICES ASSUME IInv, [Next]_vars, (syncMode = "reduce")',
                    NEW j \in P!Processes
             PROVE  /\ \A t \in Threads : local'[j][t] = Counted(j)'[t]
                    /\ group'[j] # "done" => total'[j] = 0
  BY DEF LocalsCount
<1>0. GroupTypeOK /\ ThreadsInStep
  BY DEF IInv
<1>1. syncMode = "reduce"
  BY <1>0, OwnSteps
<1>2. /\ \A t \in Threads : local[j][t] = Counted(j)[t]
      /\ group[j] # "done" => total[j] = 0
  BY <1>1 DEF IInv, LocalsCount
<1>3. ASSUME NEW t \in Threads, ThreadCount(j, t)
      PROVE  /\ \A u \in Threads : local'[j][u] = Counted(j)'[u]
             /\ group'[j] # "done" => total'[j] = 0
  <2>1. CountsOne(j, t)
    BY <1>3, StoreCounts
  <2>2. /\ local'[j][t] = local[j][t] + 1 /\ UNCHANGED <<group, total>>
        /\ \A u \in Threads : u # t => local'[j][u] = local[j][u]
    BY <1>0, <1>3 DEF ThreadCount, groupMainVars, GroupTypeOK
  <2> QED
    BY <1>2, <2>1, <2>2 DEF CountsOne
<1>4. ASSUME NEW t \in Threads, ThreadStore(j, t) PROVE FALSE
  BY <1>0, <1>1, <1>4 DEF ThreadStore, ThreadsInStep
<1>5. CASE ~(\E t \in Threads : ThreadStore(j, t) \/ ThreadCount(j, t))
  <2>1. CountsNone(j)
    BY <1>5, OthersDoNotCount
  <2>2. local'[j] = local[j] /\ (group'[j] # "done" => total'[j] = 0)
    <3>1. ASSUME NEW t \in Threads, ThreadStep(j, t)
          PROVE  UNCHANGED <<local, group, total>>
      BY <1>5, <3>1 DEF ThreadStep, ThreadLoad, ThreadExit, groupMainVars, threadVars
    <3>2. CASE GroupReturn(j)
      BY <1>0, <3>2 DEF GroupReturn, GroupGoto, threadVars, GroupTypeOK
    <3>3. CASE GroupStep(j) /\ ~GroupReturn(j)
      <4>1. UNCHANGED <<local, total>> /\ group[j] # "done"
        BY <3>3 DEF GroupStep, GroupNoMemory, GroupSetup, GroupCreate,
                    GroupCreateFails, GroupJoin, threadVars
      <4> QED
        BY <1>2, <4>1
    <3> QED
      BY <1>0, <1>2, <3>1, <3>2, <3>3, OwnSteps
  <2> QED
    BY <1>2, <2>1, <2>2 DEF CountsNone
<1> QED
  BY <1>3, <1>4, <1>5

\* Merging the locals makes *out what the threads have counted.
LEMMA ReturnTotal ==
  ASSUME IInv, NEW j \in P!Processes, GroupReturn(j)
  PROVE  /\ syncMode # "reduce" \/ groupFailed[j] => total'[j] = total[j]
         /\ syncMode = "reduce" /\ ~groupFailed[j] => total'[j] = AllCounted(j)
<1>0. GroupTypeOK /\ ThreadsInStep /\ LocalsCount
  BY DEF IInv
<1>1. CASE syncMode # "reduce" \/ groupFailed[j]
  BY <1>1 DEF GroupReturn
<1>2. CASE syncMode = "reduce" /\ ~groupFailed[j]
  <2> DEFINE sum == FoldFunction(+, 0, local[j])
  <2>1. sum = AllCounted(j)
    <3>1. local[j] \in [Threads -> Nat]
      BY <1>0 DEF GroupTypeOK
    <3>2. sum = Cardinality(Pile(local[j], Threads))
      BY <3>1, ThreadsFinite, FoldAllIs
    <3>3. \A t \in Threads : local[j][t] = Counted(j)[t]
      BY <1>0, <1>2 DEF LocalsCount
    <3>4. Pile(local[j], Threads) = Pile(Counted(j), Threads)
      BY <3>3, SumSame
    <3> QED
      BY <3>2, <3>4 DEF AllCounted
  <2>2. total[j] = 0
    BY <1>0, <1>2 DEF LocalsCount, GroupReturn
  <2>3. total'[j] = total[j] + sum
    BY <1>0, <1>2 DEF GroupReturn, GroupTypeOK
  <2>4. AllCounted(j) \in Nat
    BY <1>0, CountedBounds
  <2> HIDE DEF sum
  <2>5. total'[j] = AllCounted(j)
    BY <2>1, <2>2, <2>3, <2>4
  <2> QED
    BY <1>2, <2>5
<1> QED
  BY <1>1, <1>2

\* Steps other than a count leave *out alone, the merge of the locals excepted.
LEMMA OtherTotals ==
  ASSUME IInv, [Next]_vars, NEW j \in P!Processes,
         ~(\E t \in Threads : ThreadStore(j, t) \/ ThreadCount(j, t))
  PROVE  \/ GroupReturn(j)
         \/ \E t \in Threads : ThreadLoad(j, t) /\ total'[j] = total[j]
         \/ /\ total'[j] = total[j] /\ loaded'[j] = loaded[j]
            /\ owner'[j] = owner[j]
            /\ \A u \in Threads : thread'[j][u] = "add" => thread[j][u] = "add"
<1>0. GroupTypeOK
  BY DEF IInv
<1>1. ASSUME NEW t \in Threads, ThreadStep(j, t)
      PROVE  /\ ThreadLoad(j, t) \/ ThreadExit(j, t)
             /\ UNCHANGED total
  BY <1>1 DEF ThreadStep, ThreadLoad, ThreadExit
<1>2. ASSUME NEW t \in Threads, ThreadExit(j, t)
      PROVE  /\ UNCHANGED <<loaded, owner>>
             /\ \A u \in Threads : thread'[j][u] = "add" => thread[j][u] = "add"
  BY <1>0, <1>2 DEF ThreadExit, threadVars, GroupTypeOK
<1>3. CASE GroupStep(j) /\ ~GroupReturn(j)
  <2>1. UNCHANGED <<total, loaded, owner>>
    BY <1>3 DEF GroupStep, GroupNoMemory, GroupSetup, GroupCreate,
                GroupCreateFails, GroupJoin, threadVars
  <2>2. \A u \in Threads : thread'[j][u] = "add" => thread[j][u] = "add"
    BY <1>0, <1>3 DEF GroupStep, GroupNoMemory, GroupSetup, GroupCreate,
                      GroupCreateFails, GroupJoin, GroupTypeOK
  <2> QED
    BY <2>1, <2>2
<1> QED
  BY <1>0, <1>1, <1>2, <1>3, OwnSteps

LEMMA MutexStep == IInv /\ [Next]_vars => MutexCounts'
<1> SUFFICES ASSUME IInv, [Next]_vars, (syncMode = "mutex")',
                    NEW j \in P!Processes
             PROVE  /\ total'[j] = AllCounted(j)'
                    /\ \A u \in Threads :
                         thread'[j][u] = "add" =>
                           owner'[j] = u /\ loaded'[j][u] = total'[j]
  BY DEF MutexCounts
<1>0. GroupTypeOK /\ ThreadsInStep
  BY DEF IInv
<1>1. syncMode = "mutex"
  BY <1>0, OwnSteps
<1>2. /\ total[j] = AllCounted(j)
      /\ \A u \in Threads :
           thread[j][u] = "add" => owner[j] = u /\ loaded[j][u] = total[j]
  BY <1>1 DEF IInv, MutexCounts
<1>3. ASSUME NEW t \in Threads, ThreadStore(j, t)
      PROVE  /\ total'[j] = AllCounted(j)'
             /\ \A u \in Threads : thread'[j][u] # "add"
  <2>1. CountsOne(j, t)
    BY <1>3, StoreCounts
  <2>2. /\ thread[j][t] = "add" /\ total'[j] = loaded[j][t] + 1
        /\ thread'[j][t] = "trial"
        /\ \A u \in Threads : u # t => thread'[j][u] = thread[j][u]
    BY <1>0, <1>3 DEF ThreadStore, GroupTypeOK
  <2>3. \A u \in Threads : thread[j][u] = "add" => u = t
    BY <1>2, <2>2
  <2> QED
    BY <1>2, <2>1, <2>2, <2>3 DEF CountsOne
<1>4. ASSUME NEW t \in Threads, ThreadCount(j, t) PROVE FALSE
  BY <1>1, <1>4 DEF ThreadCount
<1>5. CASE ~(\E t \in Threads : ThreadStore(j, t) \/ ThreadCount(j, t))
  <2>1. CountsNone(j)
    BY <1>5, OthersDoNotCount
  <2>2. ASSUME NEW t \in Threads, ThreadLoad(j, t), total'[j] = total[j]
        PROVE  \A u \in Threads :
                 thread'[j][u] = "add" => owner'[j] = u /\ loaded'[j][u] = total'[j]
    <3>1. \A u \in Threads : thread[j][u] # "add"
      BY <1>1, <1>2, <2>2, HybridAssumption DEF ThreadLoad, MayLoad
    <3>2. /\ owner'[j] = t /\ loaded'[j][t] = total[j]
          /\ \A u \in Threads : u # t => thread'[j][u] = thread[j][u]
      BY <1>0, <1>1, <2>2 DEF ThreadLoad, GroupTypeOK
    <3> QED
      BY <2>2, <3>1, <3>2
  <2>3. CASE GroupReturn(j)
    <3>1. total'[j] = total[j] /\ UNCHANGED <<thread, loaded, owner>>
      BY <1>1, <2>3, ReturnTotal DEF GroupReturn, threadVars
    <3> QED
      BY <1>2, <2>1, <3>1 DEF CountsNone
  <2> QED
    BY <1>2, <1>5, <2>1, <2>2, <2>3, OtherTotals DEF CountsNone
<1> QED
  BY <1>3, <1>4, <1>5

LEMMA TooManyStep == IInv /\ [Next]_vars => NeverTooMany'
<1> SUFFICES ASSUME IInv, [Next]_vars, NEW j \in P!Processes
             PROVE  /\ total'[j] <= AllCounted(j)'
                    /\ \A u \in Threads :
                         thread'[j][u] = "add" => loaded'[j][u] <= AllCounted(j)'
  BY DEF NeverTooMany
<1>0. GroupTypeOK /\ ThreadsInStep /\ GroupsInStep
  BY DEF IInv
<1>1. /\ total[j] <= AllCounted(j)
      /\ \A u \in Threads : thread[j][u] = "add" => loaded[j][u] <= AllCounted(j)
  BY DEF IInv, NeverTooMany
<1>2. /\ AllCounted(j) \in Nat /\ total[j] \in Nat
      /\ \A u \in Threads : loaded[j][u] \in Nat
  BY <1>0, CountedBounds DEF GroupTypeOK
<1>3. ASSUME NEW t \in Threads, ThreadStore(j, t) \/ ThreadCount(j, t)
      PROVE  /\ total'[j] <= AllCounted(j)'
             /\ \A u \in Threads :
                  thread'[j][u] = "add" => loaded'[j][u] <= AllCounted(j)'
  <2>1. AllCounted(j)' = AllCounted(j) + 1
    BY <1>3, StoreCounts DEF CountsOne
  <2>2. /\ UNCHANGED loaded
        /\ \A u \in Threads : thread'[j][u] = "add" => thread[j][u] = "add"
        /\ \/ total'[j] = total[j]
           \/ thread[j][t] = "add" /\ total'[j] = loaded[j][t] + 1
    BY <1>0, <1>3 DEF ThreadStore, ThreadCount, GroupTypeOK
  <2>3. total'[j] <= AllCounted(j) + 1
    BY <1>1, <1>2, <2>2
  <2>4. ASSUME NEW u \in Threads, thread'[j][u] = "add"
        PROVE  loaded'[j][u] <= AllCounted(j) + 1
    BY <1>1, <1>2, <2>2, <2>4
  <2> QED
    BY <2>1, <2>3, <2>4
<1>4. CASE ~(\E t \in Threads : ThreadStore(j, t) \/ ThreadCount(j, t))
  <2>1. AllCounted(j)' = AllCounted(j)
    BY <1>4, OthersDoNotCount DEF CountsNone
  <2>2. ASSUME NEW t \in Threads, ThreadLoad(j, t), total'[j] = total[j]
        PROVE  \A u \in Threads :
                 thread'[j][u] = "add" => loaded'[j][u] <= AllCounted(j)
    <3>1. /\ loaded'[j][t] = total[j]
          /\ \A u \in Threads : u # t => /\ thread'[j][u] = thread[j][u]
                                         /\ loaded'[j][u] = loaded[j][u]
      BY <1>0, <2>2 DEF ThreadLoad, GroupTypeOK
    <3> QED
      BY <1>1, <3>1
  <2>3. CASE GroupReturn(j)
    <3>1. UNCHANGED <<thread, loaded>>
      BY <2>3 DEF GroupReturn, threadVars
    <3>2. total'[j] = total[j] \/ total'[j] = AllCounted(j)
      BY <2>3, ReturnTotal
    <3>3. total'[j] <= AllCounted(j)
      BY <1>1, <1>2, <3>2
    <3> QED
      BY <1>1, <2>1, <3>1, <3>3
  <2> QED
    BY <1>1, <1>4, <2>1, <2>2, <2>3, OtherTotals
<1> QED
  BY <1>3, <1>4

\* A child comes to hand its Result over from a group that did not fail, and is
\* reaped without a failure only after that.
LEMMA HandingComesFrom ==
  ASSUME P!TypeOK, GroupTypeOK, [Next]_vars, NEW j \in P!Processes, Handing(j)'
  PROVE  Handing(j) \/ (GroupReturn(j) /\ ~groupFailed[j])
<1>1. ASSUME UNCHANGED <<child, failed>> PROVE Handing(j)
  BY <1>1 DEF Handing
<1>2. ASSUME NEW i \in P!Processes, P!ChildAborts(i) PROVE Handing(j)
  BY <1>2 DEF P!ChildAborts, P!ChildGoto, P!TypeOK, P!mainVars, Handing
<1>3. ASSUME NEW i \in P!Processes, NEW t \in Threads, ThreadStep(i, t)
      PROVE  Handing(j)
  BY <1>1, <1>3 DEF ThreadStep, ThreadLoad, ThreadStore, ThreadCount, ThreadExit,
                    processVars
<1>4. ASSUME NEW i \in P!Processes, GroupStep(i)
      PROVE  Handing(j) \/ (GroupReturn(j) /\ ~groupFailed[j])
  <2>1. CASE GroupReturn(i) /\ ~groupFailed[i]
    <3>1. P!ChildWork(i)
      BY <2>1 DEF GroupReturn, GroupResult
    <3>2. failed' = failed /\ (i # j => child'[j] = child[j])
      BY <3>1 DEF P!ChildWork, P!ChildGoto, P!TypeOK, P!mainVars
    <3> QED
      BY <2>1, <3>2 DEF Handing
  <2>2. CASE ~(GroupReturn(i) /\ ~groupFailed[i])
    <3>1. P!ChildAborts(i) \/ UNCHANGED processVars
      BY <1>4, <2>2 DEF GroupStep, GroupNoMemory, GroupSetup, GroupCreate,
                        GroupCreateFails, GroupJoin, GroupReturn, GroupResult
    <3> QED
      BY <1>1, <1>2, <3>1 DEF processVars
  <2> QED
    BY <2>1, <2>2
<1>5. ASSUME NEW i \in P!Processes, P!ChildSend(i) PROVE Handing(j)
  BY <1>5 DEF P!ChildSend, P!ChildWrite, P!ChildClose, P!ChildStoreSlot,
              P!ChildStoreDone, P!ChildStored, P!ChildExit, P!ChildGoto,
              P!TypeOK, P!mainVars, Handing
<1>6. ASSUME P!MainStep PROVE Handing(j)
  <2>1. CASE P!MainFork
    BY <2>1 DEF P!MainFork, P!TypeOK, Handing
  <2>2. CASE P!MainWait
    <3>1. /\ index \in P!Processes
          /\ child'[j] = child[j] \/ (j = index /\ child'[j] = "reaped")
          /\ failed \in BOOLEAN
          /\ failed => failed'
          /\ child'[j] # child[j] => (~failed' => child[j] = "exited")
      BY <2>2 DEF P!MainWait, P!TypeOK
    <3> QED
      BY <3>1 DEF Handing
  <2>3. ASSUME child' = child, (failed' = failed) \/ failed' PROVE Handing(j)
    BY <2>3 DEF Handing
  <2>4. CASE ~P!MainFork /\ ~P!MainWait
    <3>1. child' = child /\ ((failed' = failed) \/ failed')
      BY <1>6, <2>4 DEF P!MainStep, P!MainNoMemory, P!MainSetup, P!MainPipeFails,
         P!MainForkFails, P!MainRead, P!MainMergeRead, P!MainReadEnds,
         P!MainSkipRead, P!MainReadSlot, P!MainReturn, P!mainVars
    <3> QED
      BY <2>3, <3>1
  <2> QED
    BY <2>1, <2>2, <2>4
<1> QED
  BY <1>1, <1>2, <1>3, <1>4, <1>5, <1>6
     DEF Next, vars, processVars, ChildSend, ChildAborts, MainStep

LEMMA HandedStep == P!TypeOK /\ IInv /\ [Next]_vars => HandedOver'
<1> SUFFICES ASSUME P!TypeOK, IInv, [Next]_vars, NEW j \in P!Processes, Handing(j)'
             PROVE  /\ group'[j] = "done"
                    /\ \A t \in Threads : thread'[j][t] = "exited"
                    /\ syncMode' # "nosync" => total'[j] = ChildTrials(j)
  BY DEF HandedOver
<1>0. GroupTypeOK /\ GroupsInStep /\ ThreadsInStep /\ MutexCounts /\ HandedOver
  BY DEF IInv
<1>1. syncMode' = syncMode
  BY <1>0, OwnSteps
<1>2. CASE Handing(j)
  <2>1. child[j] # "work"
    BY <1>2 DEF Handing
  <2>2. group'[j] = group[j] /\ total'[j] = total[j] /\ thread'[j] = thread[j]
    BY <1>0, <2>1, OwnSteps DEF ThreadStep, GroupStep
  <2> QED
    BY <1>0, <1>1, <1>2, <2>2 DEF HandedOver
<1>3. CASE GroupReturn(j) /\ ~groupFailed[j]
  <2>1. group[j] = "return" /\ group'[j] = "done" /\ thread' = thread
    BY <1>0, <1>3 DEF GroupReturn, GroupGoto, GroupTypeOK
  <2>2. \A t \in Threads : thread[j][t] = "exited"
    BY <1>0, <1>3, <2>1 DEF GroupsInStep
  <2>3. AllCounted(j) = ChildTrials(j)
    BY <1>0, <2>2, CountedBounds
  <2>4. /\ syncMode # "reduce" => total'[j] = total[j]
        /\ syncMode = "reduce" => total'[j] = AllCounted(j)
    BY <1>3, ReturnTotal
  <2>5. syncMode = "mutex" => total[j] = AllCounted(j)
    BY <1>0 DEF MutexCounts
  <2>6. syncMode \in {"nosync", "mutex", "reduce"}
    BY <1>0 DEF GroupTypeOK
  <2> QED
    BY <1>1, <2>1, <2>2, <2>3, <2>4, <2>5, <2>6
<1> QED
  BY <1>0, <1>2, <1>3, HandingComesFrom

LEMMA MergedStep == ProcessFacts /\ IInv /\ [Next]_vars => MergedOnce'
<1> SUFFICES ASSUME ProcessFacts, IInv, [Next]_vars PROVE MergedOnce'
  OBVIOUS
<1>0. P!TypeOK /\ MergedOnce
  BY DEF ProcessFacts, IInv
<1>1. CASE UNCHANGED P!vars
  BY <1>0, <1>1 DEF P!vars, MergedOnce
<1>2. CASE P!Next
  <2>1. CASE P!MainMergeRead \/ P!MainReadSlot
    <3>1. main = "read" /\ index \in P!Processes /\ index >= index
      BY <1>0, <2>1 DEF P!MainMergeRead, P!MainReadSlot, P!TypeOK, P!Processes
    <3>2. merged[index] = 0
      BY <3>1 DEF ProcessFacts
    <3>3. \A i \in P!Processes :
            \/ merged'[i] = merged[i]
            \/ i = index /\ merged'[i] = merged[i] + 1
      BY <1>0, <2>1, <3>1 DEF P!MainMergeRead, P!MainReadSlot, P!TypeOK
    <3> QED
      BY <1>0, <3>2, <3>3 DEF MergedOnce
  <2>2. CASE ~(P!MainMergeRead \/ P!MainReadSlot)
    <3>1. UNCHANGED merged
      BY <1>2, <2>2
         DEF P!Next, P!vars, P!ChildStep, P!ChildWork, P!ChildSend, P!ChildWrite,
             P!ChildClose, P!ChildStoreSlot, P!ChildStoreDone, P!ChildStored,
             P!ChildExit, P!ChildAborts, P!MainStep, P!MainNoMemory, P!MainSetup,
             P!MainFork, P!MainPipeFails, P!MainForkFails, P!MainWait, P!MainRead,
             P!MainReadEnds, P!MainSkipRead, P!MainReturn
    <3> QED
      BY <1>0, <3>1 DEF MergedOnce
  <2> QED
    BY <2>1, <2>2
<1> QED
  BY <1>1, <1>2, StepOfProcess

-----------------------------------------------------------------------------
(* The theorems. *)

LEMMA InitIInv == Init => IInv
<1> SUFFICES ASSUME Init PROVE IInv
  OBVIOUS
<1>1. /\ \A i \in P!Processes : \A t \in Threads :
           /\ thread[i][t] = "absent" /\ handle[i][t] = "zero"
           /\ local[i][t] = 0
      /\ \A i \in P!Processes :
           /\ group[i] = "start" /\ turn[i] = 0 /\ groupFailed[i] = FALSE
           /\ total[i] = 0 /\ child[i] = "absent" /\ merged[i] = 0
  BY DEF Init, PerThread, P!Init
<1>2. GroupTypeOK
  BY HybridAssumption DEF Init, PerThread, GroupTypeOK, Threads
<1>3. GroupsInStep /\ ThreadsInStep
  BY <1>1 DEF GroupsInStep, ThreadsInStep
<1>4. ASSUME NEW i \in P!Processes
      PROVE  (\A t \in Threads : Counted(i)[t] = 0) /\ AllCounted(i) = 0
  <2>1. \A t \in Threads : Counted(i)[t] = 0
    BY <1>1 DEF Counted
  <2> QED
    BY <2>1, SumZero DEF AllCounted
<1>5. LocalsCount /\ MutexCounts /\ NeverTooMany
  BY <1>1, <1>4 DEF LocalsCount, MutexCounts, NeverTooMany
<1>6. HandedOver /\ MergedOnce
  BY <1>1 DEF HandedOver, Handing, MergedOnce
<1> QED
  BY <1>2, <1>3, <1>5, <1>6 DEF IInv

LEMMA Inductive == Spec => [](ProcessFacts /\ IInv)
<1>1. ProcessFacts /\ IInv /\ [Next]_vars => IInv'
  <2>1. ProcessFacts => P!TypeOK
    BY DEF ProcessFacts
  <2> QED
    BY <2>1, TypeStep, GroupsStep, ThreadsStep, LocalsStep, MutexStep, TooManyStep,
       HandedStep, MergedStep DEF IInv
<1> QED
  BY <1>1, InitIInv, ProcessInvariant, PTL DEF Spec

\* Every variable of run_hybrid_mode and of its children keeps its type, for any
\* number of processes and threads, and no thread leaves its part of its child's
\* part of the trials.
THEOREM TypeCorrect == Spec => []TypeOK
<1>1. ProcessFacts /\ IInv => TypeOK
  <2> SUFFICES ASSUME ProcessFacts, IInv PROVE TypeOK
    OBVIOUS
  <2>1. ASSUME NEW i \in P!Processes, NEW t \in Threads, thread[i][t] # "absent"
        PROVE  next[i][t] \in ThreadStart(i, t) .. ThreadEnd(i, t)
    <3>1. ThreadStart(i, t) <= next[i][t] /\ next[i][t] <= ThreadEnd(i, t)
      BY <2>1 DEF IInv, ThreadsInStep
    <3>2. next[i][t] \in Nat /\ ThreadStart(i, t) \in Nat /\ ThreadEnd(i, t) \in Nat
      BY Ranges DEF IInv, GroupTypeOK
    <3> QED
      BY <3>1, <3>2
  <2> QED
    BY <2>1 DEF ProcessFacts, IInv, GroupTypeOK, TypeOK
<1> QED
  BY Inductive, <1>1, PTL

\* run_child_thread_group returns after the last of its threads, also when a
\* pthread_create failed half-way.
THEOREM GroupsEnd == Spec => []NoThreadLeft
<1>1. IInv => NoThreadLeft
  BY DEF IInv, GroupsInStep, NoThreadLeft
<1> QED
  BY Inductive, <1>1, PTL

\* No two threads of any children run the same trial, and no Result counts more
\* trials than were run for it; a successful run has run every trial, and its
\* total is their number if the threads synchronize.
THEOREM TotalIsExact == Spec => []ExactTotal
<1>1. ProcessFacts /\ IInv => ExactTotal
  <2> SUFFICES ASSUME ProcessFacts, IInv PROVE ExactTotal
    OBVIOUS
  <2>0. /\ GroupTypeOK /\ ThreadsInStep /\ NeverTooMany /\ HandedOver
        /\ MergedOnce
    BY DEF IInv
  <2> DEFINE out == [i \in P!Processes |-> merged[i] * total[i]]
             part == [i \in P!Processes |-> ChildTrials(i)]
  <2>1. ASSUME NEW i \in P!Processes
        PROVE  /\ out[i] \in Nat /\ part[i] \in Nat /\ out[i] <= part[i]
               /\ merged[i] = 1 => out[i] = total[i]
    <3>1. total[i] \in Nat /\ total[i] <= part[i] /\ part[i] \in Nat
      <4>1. /\ total[i] \in Nat /\ total[i] <= AllCounted(i)
            /\ AllCounted(i) \in Nat /\ AllCounted(i) <= ChildTrials(i)
        BY <2>0, CountedBounds DEF NeverTooMany, GroupTypeOK
      <4>2. 0 \in Threads
        BY HybridAssumption DEF Threads
      <4>3. ChildTrials(i) \in Nat
        BY <4>2, Ranges
      <4> QED
        BY <4>1, <4>3
    <3>2. out[i] = merged[i] * total[i]
      OBVIOUS
    <3> HIDE DEF out, part
    <3>3. CASE merged[i] = 0
      BY <3>1, <3>2, <3>3
    <3>4. CASE merged[i] = 1
      BY <3>1, <3>2, <3>4
    <3> QED
      BY <2>0, <3>3, <3>4 DEF MergedOnce
  <2>2. P!Processes = 0 .. NumProcesses - 1 /\ IsFiniteSet(P!Processes)
    BY FS_Interval, HybridAssumption DEF P!Processes
  <2>3. OutTotal = Cardinality(Pile(out, P!Processes))
    <3>1. out \in [P!Processes -> Nat]
      BY <2>1
    <3>2. OutTotal = FoldFunction(+, 0, out)
      BY DEF OutTotal
    <3> HIDE DEF out
    <3> QED
      BY <2>2, <3>1, <3>2, FoldAllIs
  <2>4. Cardinality(Pile(part, P!Processes)) = NumTrials
    <3>1. \A i \in P!Processes :
            part[i] = PartEnd(NumTrials, NumProcesses, i)
                        - PartStart(NumTrials, NumProcesses, i)
      BY DEF ChildTrials, ChildStart
    <3> HIDE DEF part
    <3> QED
      BY <2>2, <3>1, PartsSum, HybridAssumption
  <2> HIDE DEF out, part
  <2>5. OutTotal <= NumTrials
    BY <2>1, <2>2, <2>3, <2>4, SumMonotone
  <2>6. ASSUME main = "ended", rc = 0, syncMode # "nosync"
        PROVE  OutTotal = NumTrials
    <3>1. \A i \in P!Processes : Handing(i) /\ merged[i] = 1
      BY <2>6 DEF ProcessFacts, Handing
    <3>2. \A i \in P!Processes : out[i] = part[i]
      BY <2>0, <2>1, <2>6, <3>1 DEF HandedOver, part
    <3> QED
      BY <2>3, <2>4, <3>2, SumSame
  <2>7. NoTrialTwice /\ \A i \in P!Processes : total[i] <= Cardinality(RanBy(i))
    <3>1. ASSUME NEW i \in P!Processes PROVE total[i] <= Cardinality(RanBy(i))
      <4>1. total[i] \in Nat /\ total[i] <= AllCounted(i) /\ AllCounted(i) \in Nat
        BY <2>0, CountedBounds DEF NeverTooMany, GroupTypeOK
      <4>2. /\ AllCounted(i) <= Cardinality(RanBy(i))
            /\ Cardinality(RanBy(i)) \in Nat
        BY <2>0, CountedAreRan
      <4> QED
        BY <4>1, <4>2
    <3> QED
      BY <2>0, <3>1, NeverTwice
  <2>8. ASSUME main = "ended", rc = 0 PROVE AllRan = 0 .. NumTrials - 1
    <3>1. \A i \in P!Processes : \A t \in Threads : thread[i][t] = "exited"
      BY <2>0, <2>8 DEF ProcessFacts, Handing, HandedOver
    <3>2. ASSUME NEW n \in 0 .. NumTrials - 1 PROVE n \in AllRan
      <4>1. PICK i \in P!Processes, t \in Threads :
              ThreadStart(i, t) <= n /\ n < ThreadEnd(i, t)
        BY PartsCover
      <4>2. thread[i][t] # "absent" /\ next[i][t] = ThreadEnd(i, t)
        BY <2>0, <3>1 DEF ThreadsInStep
      <4>3. n \in Ran(i, t)
        <5>1. ThreadStart(i, t) \in Nat /\ ThreadEnd(i, t) \in Nat
          BY Ranges
        <5> QED
          BY <4>1, <4>2, <5>1, HybridAssumption DEF Ran
      <4> QED
        BY <4>3 DEF AllRan, RanBy
    <3>3. AllRan \subseteq 0 .. NumTrials - 1
      BY <2>0, RanIs DEF AllRan, RanBy
    <3> QED
      BY <3>2, <3>3
  <2> QED
    BY <2>5, <2>6, <2>7, <2>8 DEF ExactTotal
<1> QED
  BY Inductive, <1>1, PTL

-----------------------------------------------------------------------------
(* Termination.  TLC checks Ends under fairness; what it needs of the      *)
(* states is proved here: until the run has ended somebody can go on, and  *)
(* nobody can go on for ever.                                              *)

\* result_mutex has an owner only while that thread counts a trial, and a child
\* that has not come to an end has not left run_child_thread_group.
OwnersInStep ==
  \A i \in P!Processes :
    /\ owner[i] # NoThread => syncMode = "mutex" /\ thread[i][owner[i]] = "add"
    /\ child[i] \in {"absent", "work"} => group[i] # "done"

\* A child begins or goes on to work only before it is forked or at work.
LEMMA WorkComesFrom ==
  ASSUME PP!IInv, P!TypeOK, GroupTypeOK, [Next]_vars, NEW j \in P!Processes,
         child'[j] \in {"absent", "work"}
  PROVE  /\ child[j] \in {"absent", "work"}
         /\ ~GroupNoMemory(j) /\ ~GroupReturn(j)
<1>1. ASSUME NEW i \in P!Processes, P!ChildAborts(i) \/ P!ChildWork(i)
      PROVE  child[j] \in {"absent", "work"} /\ i # j
  BY <1>1 DEF P!ChildAborts, P!ChildWork, P!ChildGoto, P!TypeOK
<1>2. ASSUME NEW i \in P!Processes, GroupNoMemory(i) \/ GroupReturn(i)
      PROVE  P!ChildAborts(i) \/ P!ChildWork(i)
  BY <1>2 DEF GroupNoMemory, GroupReturn, GroupResult
<1>3. ~GroupNoMemory(j) /\ ~GroupReturn(j)
  BY <1>1, <1>2
<1>4. ASSUME UNCHANGED processVars PROVE child[j] \in {"absent", "work"}
  BY <1>4 DEF processVars
<1>5. ASSUME NEW i \in P!Processes, NEW t \in Threads, ThreadStep(i, t)
      PROVE  UNCHANGED processVars
  BY <1>5 DEF ThreadStep, ThreadLoad, ThreadStore, ThreadCount, ThreadExit
<1>6. ASSUME NEW i \in P!Processes, GroupStep(i)
      PROVE  P!ChildAborts(i) \/ P!ChildWork(i) \/ UNCHANGED processVars
  BY <1>6 DEF GroupStep, GroupNoMemory, GroupSetup, GroupCreate,
              GroupCreateFails, GroupJoin, GroupReturn, GroupResult
<1>7. ASSUME NEW i \in P!Processes, P!ChildSend(i)
      PROVE  child[j] \in {"absent", "work"}
  BY <1>7 DEF P!ChildSend, P!ChildWrite, P!ChildClose, P!ChildStoreSlot,
              P!ChildStoreDone, P!ChildStored, P!ChildExit, P!ChildGoto, P!TypeOK
<1>8. ASSUME P!MainStep PROVE child[j] \in {"absent", "work"}
  <2>1. CASE P!MainFork
    <3>1. /\ index \in PP!Processes /\ child[index] = "absent"
          /\ j # index => child'[j] = child[j]
      BY <2>1 DEF P!MainFork, P!TypeOK, P!Processes, PP!Processes, PP!IInv,
                  PP!ForkedSoFar, PP!ChildrenInStep
    <3> QED
      BY <3>1
  <2>2. CASE P!MainWait
    BY <2>2 DEF P!MainWait, P!TypeOK
  <2>3. CASE ~P!MainFork /\ ~P!MainWait
    BY <1>8, <2>3 DEF P!MainStep, P!MainNoMemory, P!MainSetup, P!MainPipeFails,
       P!MainForkFails, P!MainRead, P!MainMergeRead, P!MainReadEnds,
       P!MainSkipRead, P!MainReadSlot, P!MainReturn
  <2> QED
    BY <2>1, <2>2, <2>3
<1>9. child[j] \in {"absent", "work"}
  BY <1>1, <1>4, <1>5, <1>6, <1>7, <1>8
     DEF Next, vars, ChildSend, ChildAborts, MainStep
<1> QED
  BY <1>3, <1>9

LEMMA OwnersStep ==
  PP!IInv /\ P!TypeOK /\ IInv /\ OwnersInStep /\ [Next]_vars => OwnersInStep'
<1> SUFFICES ASSUME PP!IInv, P!TypeOK, IInv, OwnersInStep, [Next]_vars,
                    NEW j \in P!Processes
             PROVE  /\ owner'[j] # NoThread =>
                         syncMode' = "mutex" /\ thread'[j][owner'[j]] = "add"
                    /\ child'[j] \in {"absent", "work"} => group'[j] # "done"
  BY DEF OwnersInStep
<1>0. GroupTypeOK /\ GroupsInStep /\ NoThread \notin Threads
  BY HybridAssumption DEF IInv
<1>1. /\ owner[j] # NoThread => /\ owner[j] \in Threads /\ syncMode = "mutex"
                                /\ thread[j][owner[j]] = "add"
      /\ child[j] \in {"absent", "work"} => group[j] # "done"
  BY <1>0 DEF OwnersInStep, GroupTypeOK
<1>2. syncMode' = syncMode
  BY <1>0, OwnSteps
<1>3. owner'[j] # NoThread => syncMode' = "mutex" /\ thread'[j][owner'[j]] = "add"
  <2>1. CASE UNCHANGED groupVars
    BY <1>1, <2>1 DEF groupVars, threadVars
  <2>2. ASSUME NEW i \in P!Processes, GroupStep(i)
        PROVE  owner'[j] # NoThread =>
                 syncMode' = "mutex" /\ thread'[j][owner'[j]] = "add"
    <3>1. UNCHANGED owner
      BY <2>2 DEF GroupStep, GroupNoMemory, GroupSetup, GroupCreate,
         GroupCreateFails, GroupJoin, GroupReturn, threadVars
    <3>2. \A t \in Threads : thread[j][t] = "add" => thread'[j][t] = "add"
      <4>1. CASE GroupCreate(i)
        <5>1. /\ turn[i] \in Threads /\ thread[i][turn[i]] = "absent"
              /\ thread' = [thread EXCEPT ![i][turn[i]] = "trial"]
          <6>1. turn[i] \in Threads /\ turn[i] <= turn[i]
            BY <1>0, HybridAssumption DEF GroupTypeOK, Threads
          <6> QED
            BY <1>0, <4>1, <6>1 DEF GroupCreate, GroupsInStep
        <5> QED
          BY <1>0, <5>1 DEF GroupTypeOK
      <4>2. CASE ~GroupCreate(i)
        BY <2>2, <4>2 DEF GroupStep, GroupNoMemory, GroupSetup,
           GroupCreateFails, GroupJoin, GroupReturn
      <4> QED
        BY <4>1, <4>2
    <3> QED
      BY <1>1, <1>2, <3>1, <3>2
  <2>3. ASSUME NEW i \in P!Processes, NEW t \in Threads, ThreadStep(i, t)
        PROVE  owner'[j] # NoThread =>
                 syncMode' = "mutex" /\ thread'[j][owner'[j]] = "add"
    <3>1. CASE ThreadLoad(i, t)
      BY <1>0, <1>1, <1>2, <3>1 DEF ThreadLoad, GroupTypeOK
    <3>2. CASE ThreadStore(i, t)
      <4>1. CASE i = j /\ syncMode = "mutex"
        <5>1. owner'[j] = NoThread
          BY <1>0, <3>2, <4>1 DEF ThreadStore, GroupTypeOK
        <5> QED
          BY <5>1
      <4>2. CASE i = j /\ syncMode # "mutex"
        BY <1>1, <3>2, <4>2 DEF ThreadStore
      <4>3. CASE i # j
        <5>1. owner'[j] = owner[j] /\ thread'[j] = thread[j]
          BY <1>0, <3>2, <4>3 DEF ThreadStore, GroupTypeOK
        <5> QED
          BY <1>1, <1>2, <5>1
      <4> QED
        BY <4>1, <4>2, <4>3
    <3>3. CASE ThreadCount(i, t)
      BY <1>1, <1>2, <3>3 DEF ThreadCount
    <3>4. CASE ThreadExit(i, t)
      BY <1>0, <1>1, <1>2, <3>4 DEF ThreadExit, threadVars, GroupTypeOK
    <3> QED
      BY <2>3, <3>1, <3>2, <3>3, <3>4 DEF ThreadStep
  <2> QED
    BY <2>1, <2>2, <2>3, Steps
<1>4. ASSUME child'[j] \in {"absent", "work"} PROVE group'[j] # "done"
  <2>1. child[j] \in {"absent", "work"} /\ ~GroupNoMemory(j) /\ ~GroupReturn(j)
    BY <1>0, <1>4, WorkComesFrom
  <2>2. group[j] # "done"
    BY <1>1, <2>1
  <2>3. ASSUME NEW i \in P!Processes, GroupStep(i) PROVE group'[j] # "done"
    <3>1. CASE i = j
      BY <1>0, <2>1, <2>2, <2>3, <3>1 DEF GroupStep, GroupSetup, GroupCreate,
         GroupCreateFails, GroupJoin, GroupGoto, GroupTypeOK
    <3>2. CASE i # j
      BY <1>0, <2>2, <2>3, <3>2 DEF GroupStep, GroupNoMemory, GroupSetup,
         GroupCreate, GroupCreateFails, GroupJoin, GroupReturn, GroupGoto,
         GroupTypeOK
    <3> QED
      BY <3>1, <3>2
  <2>4. ASSUME NEW i \in P!Processes, NEW t \in Threads, ThreadStep(i, t)
        PROVE  group'[j] # "done"
    BY <2>2, <2>4 DEF ThreadStep, ThreadLoad, ThreadStore, ThreadCount, ThreadExit,
                      groupMainVars
  <2>5. CASE UNCHANGED groupVars
    BY <2>2, <2>5 DEF groupVars, groupMainVars
  <2> QED
    BY <2>3, <2>4, <2>5, Steps
<1> QED
  BY <1>3, <1>4

LEMMA OwnersKept == Spec => []OwnersInStep
<1>1. Init => OwnersInStep
  BY DEF Init, OwnersInStep
<1>2. ProcessFacts => P!TypeOK
  BY DEF ProcessFacts
<1> QED
  BY <1>1, <1>2, OwnersStep, Inductive, ProcessInductive, PTL DEF Spec

\* What a thread or the main thread of a child waits for has come, or it waits
\* for nothing: the conditions of pthread_mutex_lock and pthread_join.
ThreadMoves(i, t) ==
  \/ thread[i][t] = "add"
  \/ thread[i][t] = "trial" /\ (MoreTrials(i, t) => MayLoad(i))

GroupMoves(i) == group[i] # "done" /\ (group[i] = "join" => Joinable(i))

ChildMoves(i) ==
  IF child[i] = "work" THEN GroupMoves(i) \/ \E t \in Threads : ThreadMoves(i, t)
                       ELSE PP!ChildMoves(i)

\* Until run_hybrid_mode has returned, the parent, a child or one of its
\* threads can go on, whichever pthread_create, fork or write has failed.
THEOREM NoStandstill ==
  Spec => [](main = "ended" \/ PP!ParentMoves \/ \E i \in P!Processes : ChildMoves(i))
<1>1. ASSUME IInv, OwnersInStep, NEW i \in P!Processes, child[i] = "work"
      PROVE  ChildMoves(i)
  <2>0. GroupTypeOK /\ GroupsInStep
    BY <1>1 DEF IInv
  <2> DEFINE t == turn[i]
  <2>1. group[i] # "done" /\ t \in Threads
    BY <1>1, <2>0 DEF OwnersInStep, GroupTypeOK
  <2>2. ASSUME group[i] = "join", ~Joinable(i)
        PROVE  \E u \in Threads : ThreadMoves(i, u)
    <3>1. thread[i][t] \in {"trial", "add"}
      BY <2>0, <2>1, <2>2 DEF Joinable, GroupsInStep, GroupTypeOK
    <3>2. CASE thread[i][t] = "add" \/ MayLoad(i)
      BY <2>1, <3>1, <3>2 DEF ThreadMoves
    <3>3. CASE ~MayLoad(i)
      <4>1. owner[i] \in Threads /\ thread[i][owner[i]] = "add"
        BY <1>1, <2>0, <3>3 DEF MayLoad, OwnersInStep, GroupTypeOK
      <4> QED
        BY <4>1 DEF ThreadMoves
    <3> QED
      BY <3>2, <3>3
  <2> QED
    BY <1>1, <2>1, <2>2 DEF ChildMoves, GroupMoves
<1>2. IInv /\ OwnersInStep
      /\ (main = "ended" \/ PP!ParentMoves \/ \E i \in PP!Processes : PP!ChildMoves(i))
      => main = "ended" \/ PP!ParentMoves \/ \E i \in P!Processes : ChildMoves(i)
  BY <1>1 DEF ChildMoves, P!Processes, PP!Processes
<1>3. Spec => [](main = "ended" \/ PP!ParentMoves
                 \/ \E i \in PP!Processes : PP!ChildMoves(i))
  BY PP!NoStandstill, SpecOfProcess, ProcessAssumed
<1> QED
  BY <1>2, <1>3, OwnersKept, Inductive, PTL

\* The turns of a group's loops that are left.
GroupLeft(i) ==
  CASE group[i] = "start"  -> 4 * NumThreads - turn[i]
    [] group[i] = "create" -> 3 * NumThreads - turn[i]
    [] group[i] = "join"   -> 2 * NumThreads - turn[i]
    [] group[i] = "return" -> NumThreads - turn[i]
    [] group[i] = "done"   -> 0

\* A thread takes two steps a trial at most, is created, and exits.
ThreadLeft(i, t) ==
  CASE thread[i][t] = "absent" -> 2 * (ThreadEnd(i, t) - ThreadStart(i, t)) + 2
    [] thread[i][t] = "trial"  -> 2 * (ThreadEnd(i, t) - next[i][t]) + 1
    [] thread[i][t] = "add"    -> 2 * (ThreadEnd(i, t) - next[i][t])
    [] thread[i][t] = "exited" -> 0

GroupsLeft == SumOf([i \in P!Processes |-> GroupLeft(i)])

ThreadsLeft == SumOf([p \in P!Processes \X Threads |-> ThreadLeft(p[1], p[2])])

\* No run takes more steps from here.
StepsLeft == PP!StepsLeft + GroupsLeft + ThreadsLeft

LEMMA PairsFinite ==
  IsFiniteSet(P!Processes) /\ IsFiniteSet(P!Processes \X Threads)
<1>1. IsFiniteSet(P!Processes)
  BY FS_Interval, HybridAssumption DEF P!Processes
<1> QED
  BY <1>1, ThreadsFinite, FS_Product

LeftOK ==
  /\ \A i \in P!Processes : GroupLeft(i) \in Nat
  /\ \A i \in P!Processes : \A t \in Threads : ThreadLeft(i, t) \in Nat

LEMMA LeftTypes == IInv => LeftOK
<1> SUFFICES ASSUME IInv PROVE LeftOK
  OBVIOUS
<1>0. GroupTypeOK /\ ThreadsInStep
  BY DEF IInv
<1>1. ASSUME NEW i \in P!Processes PROVE GroupLeft(i) \in Nat
  <2>1. /\ NumThreads \in Nat /\ turn[i] \in Nat /\ turn[i] < NumThreads
        /\ group[i] \in {"start", "create", "join", "return", "done"}
    BY <1>0, HybridAssumption DEF GroupTypeOK, Threads
  <2> QED
    BY <2>1 DEF GroupLeft
<1>2. ASSUME NEW i \in P!Processes, NEW t \in Threads PROVE ThreadLeft(i, t) \in Nat
  <2>1. /\ ThreadStart(i, t) \in Nat /\ ThreadEnd(i, t) \in Nat
        /\ ThreadStart(i, t) <= ThreadEnd(i, t)
    BY Ranges
  <2>2. /\ thread[i][t] \in {"absent", "trial", "add", "exited"}
        /\ next[i][t] \in Nat
        /\ thread[i][t] # "absent" => next[i][t] <= ThreadEnd(i, t)
    BY <1>0 DEF GroupTypeOK, ThreadsInStep
  <2> QED
    BY <2>1, <2>2 DEF ThreadLeft
<1> QED
  BY <1>1, <1>2 DEF LeftOK

\* What a step changes of the groups and of the threads.
GroupStays(i) == GroupLeft(i)' = GroupLeft(i)

ThreadStays(i, t) == ThreadLeft(i, t)' = ThreadLeft(i, t)

LEMMA GroupsSum ==
  ASSUME LeftOK, LeftOK', NEW i \in P!Processes,
         \A j \in P!Processes \ {i} : GroupStays(j), GroupLeft(i)' <= GroupLeft(i)
  PROVE  /\ GroupsLeft \in Nat /\ GroupsLeft' \in Nat /\ GroupsLeft' <= GroupsLeft
         /\ GroupLeft(i)' < GroupLeft(i) => GroupsLeft' < GroupsLeft
<1> DEFINE r == [j \in P!Processes |-> GroupLeft(j)]
           s == [j \in P!Processes |-> GroupLeft(j)']
<1>1. r \in [P!Processes -> Nat] /\ s \in [P!Processes -> Nat]
  BY DEF LeftOK, P!Processes
<1>2. \A j \in P!Processes \ {i} : s[j] = r[j]
  BY DEF GroupStays
<1>3. GroupsLeft = SumOf(r) /\ GroupsLeft' = SumOf(s)
  BY DEF GroupsLeft, P!Processes
<1>4. r[i] = GroupLeft(i) /\ s[i] = GroupLeft(i)'
  OBVIOUS
<1>5. s[i] <= r[i] /\ r[i] \in Nat /\ s[i] \in Nat
  BY <1>1, <1>4
<1> HIDE DEF r, s
<1>6. /\ SumOf(r) \in Nat /\ SumOf(s) \in Nat
      /\ SumOf(s) + r[i] = SumOf(r) + s[i]
  BY <1>1, <1>2, PairsFinite, SumChange
<1> QED
  BY <1>3, <1>4, <1>5, <1>6

LEMMA ThreadsSum ==
  ASSUME LeftOK, LeftOK', NEW i \in P!Processes, NEW t \in Threads,
         \A j \in P!Processes : \A u \in Threads : j # i \/ u # t => ThreadStays(j, u),
         ThreadLeft(i, t)' <= ThreadLeft(i, t)
  PROVE  /\ ThreadsLeft \in Nat /\ ThreadsLeft' \in Nat /\ ThreadsLeft' <= ThreadsLeft
         /\ ThreadLeft(i, t)' < ThreadLeft(i, t) => ThreadsLeft' < ThreadsLeft
<1> DEFINE S == P!Processes \X Threads
           r == [p \in S |-> ThreadLeft(p[1], p[2])]
           s == [p \in S |-> ThreadLeft(p[1], p[2])']
           a == <<i, t>>
<1>1. r \in [S -> Nat] /\ s \in [S -> Nat]
  BY DEF LeftOK, P!Processes, Threads
<1>2. \A p \in S \ {a} : s[p] = r[p]
  <2> SUFFICES ASSUME NEW p \in S, p # a PROVE s[p] = r[p]
    OBVIOUS
  <2>1. /\ p[1] \in P!Processes /\ p[2] \in Threads
        /\ p[1] # i \/ p[2] # t
    OBVIOUS
  <2> QED
    BY <2>1 DEF ThreadStays
<1>3. ThreadsLeft = SumOf(r) /\ ThreadsLeft' = SumOf(s)
  BY DEF ThreadsLeft, P!Processes, Threads
<1>4. a \in S /\ r[a] = ThreadLeft(i, t) /\ s[a] = ThreadLeft(i, t)'
  OBVIOUS
<1>5. s[a] <= r[a] /\ r[a] \in Nat /\ s[a] \in Nat
  BY <1>1, <1>4
<1>6. IsFiniteSet(S)
  BY PairsFinite
<1> HIDE DEF r, s, a, S
<1>7. /\ SumOf(r) \in Nat /\ SumOf(s) \in Nat
      /\ SumOf(s) + r[a] = SumOf(r) + s[a]
  BY <1>1, <1>2, <1>4, <1>6, SumChange
<1> QED
  BY <1>3, <1>4, <1>5, <1>7

\* A step of a thread leaves it less to do.
LEMMA ThreadShrinks ==
  ASSUME IInv, NEW i \in P!Processes, NEW t \in Threads, ThreadStep(i, t)
  PROVE  /\ UNCHANGED processVars
         /\ \A j \in P!Processes : GroupStays(j)
         /\ \A j \in P!Processes : \A u \in Threads :
              j # i \/ u # t => ThreadStays(j, u)
         /\ ThreadLeft(i, t)' \in Int /\ ThreadLeft(i, t)' < ThreadLeft(i, t)
<1>0. GroupTypeOK /\ ThreadsInStep
  BY DEF IInv
<1>1. UNCHANGED processVars /\ UNCHANGED groupMainVars
  BY DEF ThreadStep, ThreadLoad, ThreadStore, ThreadCount, ThreadExit
<1>2. \A j \in P!Processes : GroupStays(j)
  BY <1>1 DEF groupMainVars, GroupStays, GroupLeft
<1>3. ASSUME NEW j \in P!Processes, NEW u \in Threads, j # i \/ u # t
      PROVE  ThreadStays(j, u)
  <2>1. thread'[j][u] = thread[j][u] /\ next'[j][u] = next[j][u]
    BY <1>0, <1>3 DEF ThreadStep, ThreadLoad, ThreadStore, ThreadCount, ThreadExit,
       threadVars, GroupTypeOK
  <2> QED
    BY <2>1 DEF ThreadStays, ThreadLeft
<1>4. ThreadLeft(i, t)' \in Int /\ ThreadLeft(i, t)' < ThreadLeft(i, t)
  <2>1. /\ ThreadEnd(i, t) \in Nat /\ next[i][t] \in Nat
        /\ thread[i][t] \in {"trial", "add"} => next[i][t] <= ThreadEnd(i, t)
    BY <1>0, Ranges DEF GroupTypeOK, ThreadsInStep
  <2>2. CASE ThreadLoad(i, t)
    <3>1. /\ thread[i][t] = "trial" /\ thread'[i][t] = "add"
          /\ next'[i][t] = next[i][t]
      BY <1>0, <2>2 DEF ThreadLoad, GroupTypeOK
    <3> QED
      BY <2>1, <3>1 DEF ThreadLeft
  <2>3. CASE ThreadStore(i, t)
    <3>1. /\ thread[i][t] = "add" /\ thread'[i][t] = "trial"
          /\ next'[i][t] = next[i][t] + 1
      BY <1>0, <2>3 DEF ThreadStore, GroupTypeOK
    <3> QED
      BY <2>1, <3>1 DEF ThreadLeft
  <2>4. CASE ThreadCount(i, t)
    <3>1. /\ thread[i][t] = "trial" /\ thread'[i][t] = "trial"
          /\ next'[i][t] = next[i][t] + 1
      BY <1>0, <2>4 DEF ThreadCount, GroupTypeOK
    <3> QED
      BY <2>1, <3>1 DEF ThreadLeft
  <2>5. CASE ThreadExit(i, t)
    <3>1. thread[i][t] = "trial" /\ thread'[i][t] = "exited"
      BY <1>0, <2>5 DEF ThreadExit, GroupTypeOK
    <3> QED
      BY <2>1, <3>1 DEF ThreadLeft
  <2> QED
    BY <2>2, <2>3, <2>4, <2>5 DEF ThreadStep
<1> QED
  BY <1>1, <1>2, <1>3, <1>4

\* So does a step of a group, and creating a thread is the first step of that
\* thread.
LEMMA GroupShrinks ==
  ASSUME IInv, NEW i \in P!Processes, NEW t \in Threads, t = turn[i], GroupStep(i)
  PROVE  /\ \A j \in P!Processes \ {i} : GroupStays(j)
         /\ GroupLeft(i)' \in Int /\ GroupLeft(i)' < GroupLeft(i)
         /\ \A j \in P!Processes : \A u \in Threads :
              j # i \/ u # t => ThreadStays(j, u)
         /\ ThreadLeft(i, t)' <= ThreadLeft(i, t)
<1>0. GroupTypeOK /\ GroupsInStep /\ LeftOK
  BY LeftTypes DEF IInv
<1>1. ASSUME NEW j \in P!Processes \ {i} PROVE GroupStays(j)
  <2>1. group'[j] = group[j] /\ turn'[j] = turn[j]
    BY <1>0 DEF GroupStep, GroupNoMemory, GroupSetup, GroupCreate,
       GroupCreateFails, GroupJoin, GroupReturn, GroupGoto, GroupTypeOK
  <2> QED
    BY <2>1 DEF GroupStays, GroupLeft
<1>2. GroupLeft(i)' \in Int /\ GroupLeft(i)' < GroupLeft(i)
  <2>1. NumThreads \in Nat \ {0} /\ turn[i] \in Nat /\ turn[i] < NumThreads
    BY <1>0, HybridAssumption DEF GroupTypeOK, Threads
  <2>2. CASE GroupNoMemory(i) \/ GroupSetup(i)
    <3>1. group[i] = "start" /\ group'[i] \in {"done", "create"} /\ turn'[i] = 0
      BY <1>0, <2>2 DEF GroupNoMemory, GroupSetup, GroupGoto, GroupTypeOK
    <3> QED
      BY <2>1, <3>1 DEF GroupLeft
  <2>3. CASE GroupCreate(i) \/ GroupCreateFails(i)
    <3>1. /\ group[i] = "create"
          /\ \/ group'[i] = "create" /\ turn'[i] = turn[i] + 1
             \/ group'[i] = "join" /\ turn'[i] = 0
      BY <1>0, <2>3 DEF GroupCreate, GroupCreateFails, GroupGoto, GroupTypeOK
    <3> QED
      BY <2>1, <3>1 DEF GroupLeft
  <2>4. CASE GroupJoin(i)
    <3>1. /\ group[i] = "join"
          /\ \/ group'[i] = "join" /\ turn'[i] = turn[i] + 1
             \/ group'[i] = "return" /\ turn'[i] = 0
      BY <1>0, <2>4 DEF GroupJoin, GroupGoto, GroupTypeOK
    <3> QED
      BY <2>1, <3>1 DEF GroupLeft
  <2>5. CASE GroupReturn(i)
    <3>1. group[i] = "return" /\ group'[i] = "done"
      BY <1>0, <2>5 DEF GroupReturn, GroupGoto, GroupTypeOK
    <3> QED
      BY <2>1, <3>1 DEF GroupLeft
  <2> QED
    BY <2>2, <2>3, <2>4, <2>5 DEF GroupStep
<1>3. CASE GroupCreate(i)
  <2>1. /\ thread[i][t] = "absent" /\ thread'[i][t] = "trial"
        /\ next'[i][t] = ThreadStart(i, t)
    <3>1. t <= t
      BY DEF Threads
    <3> QED
      BY <1>0, <1>3, <3>1 DEF GroupCreate, GroupsInStep, GroupTypeOK
  <2>2. ASSUME NEW j \in P!Processes, NEW u \in Threads, j # i \/ u # t
        PROVE  ThreadStays(j, u)
    <3>1. thread'[j][u] = thread[j][u] /\ next'[j][u] = next[j][u]
      BY <1>0, <1>3, <2>2 DEF GroupCreate, GroupTypeOK
    <3> QED
      BY <3>1 DEF ThreadStays, ThreadLeft
  <2>3. ThreadStart(i, t) \in Nat /\ ThreadEnd(i, t) \in Nat
    BY Ranges
  <2>4. ThreadLeft(i, t)' <= ThreadLeft(i, t)
    BY <2>1, <2>3 DEF ThreadLeft
  <2> QED
    BY <1>1, <1>2, <2>2, <2>4
<1>4. CASE ~GroupCreate(i)
  <2>1. UNCHANGED <<thread, next>>
    BY <1>4 DEF GroupStep, GroupNoMemory, GroupSetup, GroupCreateFails, GroupJoin,
       GroupReturn, threadVars
  <2>2. \A j \in P!Processes : \A u \in Threads : ThreadStays(j, u)
    BY <2>1 DEF ThreadStays, ThreadLeft
  <2>3. ThreadLeft(i, t)' <= ThreadLeft(i, t)
    BY <1>0, <2>2 DEF ThreadStays, LeftOK
  <2> QED
    BY <1>1, <1>2, <2>2, <2>3
<1> QED
  BY <1>3, <1>4

\* What is left of the run as run_process_mode sees it.
LEMMA ProcessPartStays ==
  UNCHANGED P!vars => PP!StepsLeft' = PP!StepsLeft
BY DEF P!vars, P!mainVars, P!pipeVars, P!fdVars, P!shmVars, PP!StepsLeft,
       PP!ParentLeft, PP!ChildrenLeft, PP!ChildLeft, PP!Processes

\* Three totals of which none grows and one shrinks.
LEMMA ThreeParts ==
  ASSUME NEW x \in Nat, NEW g \in Nat, NEW s \in Nat,
         NEW y \in Nat, NEW h \in Nat, NEW t \in Nat,
         y <= x, h <= g, t <= s, y < x \/ h < g \/ t < s
  PROVE  y + h + t < x + g + s
OBVIOUS

LEMMA StepShrinks ==
  ASSUME IInv, IInv', [Next]_vars, ~UNCHANGED vars,
         PP!StepsLeft \in Nat, PP!StepsLeft' \in Nat,
         [PP!StepsLeft' < PP!StepsLeft]_(PP!vars)
  PROVE  StepsLeft' < StepsLeft
<1>1. LeftOK /\ LeftOK'
  BY LeftTypes, PTL
<1>2. GroupTypeOK /\ \E i \in P!Processes : \E t \in Threads : TRUE
  BY HybridAssumption DEF IInv, P!Processes, Threads
<1>3. \/ PP!StepsLeft' < PP!StepsLeft
      \/ UNCHANGED P!vars /\ PP!StepsLeft' = PP!StepsLeft
  BY ProcessPartStays DEF PP!vars, PP!mainVars, PP!pipeVars, PP!fdVars, PP!shmVars,
     P!vars, P!mainVars, P!pipeVars, P!fdVars, P!shmVars
<1> DEFINE x == PP!StepsLeft
           y == PP!StepsLeft'
<1>4. y <= x
  BY <1>3
<1>5. /\ StepsLeft = x + GroupsLeft + ThreadsLeft
      /\ StepsLeft' = y + GroupsLeft' + ThreadsLeft'
  BY DEF StepsLeft
<1>6. x \in Nat /\ y \in Nat /\ (PP!StepsLeft' < PP!StepsLeft => y < x)
  OBVIOUS
<1> HIDE DEF x, y
<1>7. ASSUME NEW i \in P!Processes, NEW t \in Threads, ThreadStep(i, t)
      PROVE  StepsLeft' < StepsLeft
  <2>1. /\ \A j \in P!Processes : GroupStays(j)
        /\ \A j \in P!Processes : \A u \in Threads :
             j # i \/ u # t => ThreadStays(j, u)
        /\ ThreadLeft(i, t)' < ThreadLeft(i, t)
    BY <1>7, ThreadShrinks
  <2>2. GroupLeft(i)' <= GroupLeft(i) /\ ThreadLeft(i, t)' <= ThreadLeft(i, t)
    BY <1>1, <2>1 DEF LeftOK, GroupStays, P!Processes, Threads
  <2>3. /\ GroupsLeft \in Nat /\ GroupsLeft' \in Nat /\ GroupsLeft' <= GroupsLeft
        /\ ThreadsLeft \in Nat /\ ThreadsLeft' \in Nat /\ ThreadsLeft' < ThreadsLeft
    BY <1>1, <2>1, <2>2, GroupsSum, ThreadsSum
  <2> QED
    <3>1. ThreadsLeft' <= ThreadsLeft
      BY <2>3
    <3>2. y + GroupsLeft' + ThreadsLeft' < x + GroupsLeft + ThreadsLeft
      BY <1>4, <1>6, <2>3, <3>1, ThreeParts
    <3> QED
      BY <1>5, <3>2
<1>8. ASSUME NEW i \in P!Processes, GroupStep(i)
      PROVE  StepsLeft' < StepsLeft
  <2>1. PICK t \in Threads : t = turn[i]
    BY <1>2 DEF GroupTypeOK
  <2>2. /\ \A j \in P!Processes \ {i} : GroupStays(j)
        /\ GroupLeft(i)' < GroupLeft(i)
        /\ \A j \in P!Processes : \A u \in Threads :
             j # i \/ u # t => ThreadStays(j, u)
        /\ ThreadLeft(i, t)' <= ThreadLeft(i, t)
    BY <1>8, <2>1, GroupShrinks
  <2>3. GroupLeft(i)' <= GroupLeft(i)
    BY <1>1, <2>2 DEF LeftOK, P!Processes
  <2>4. /\ GroupsLeft \in Nat /\ GroupsLeft' \in Nat /\ GroupsLeft' < GroupsLeft
        /\ ThreadsLeft \in Nat /\ ThreadsLeft' \in Nat /\ ThreadsLeft' <= ThreadsLeft
    BY <1>1, <2>2, <2>3, GroupsSum, ThreadsSum
  <2> QED
    <3>1. GroupsLeft' <= GroupsLeft
      BY <2>4
    <3>2. y + GroupsLeft' + ThreadsLeft' < x + GroupsLeft + ThreadsLeft
      BY <1>4, <1>6, <2>4, <3>1, ThreeParts
    <3> QED
      BY <1>5, <3>2
<1>9. CASE UNCHANGED groupVars
  <2>1. PICK i \in P!Processes, t \in Threads : TRUE
    BY <1>2
  <2>2. /\ \A j \in P!Processes : GroupStays(j)
        /\ \A j \in P!Processes : \A u \in Threads : ThreadStays(j, u)
    BY <1>9 DEF groupVars, groupMainVars, threadVars, GroupStays, ThreadStays,
                GroupLeft, ThreadLeft
  <2>3. GroupLeft(i)' <= GroupLeft(i) /\ ThreadLeft(i, t)' <= ThreadLeft(i, t)
    BY <1>1, <2>2 DEF LeftOK, GroupStays, ThreadStays, P!Processes, Threads
  <2>4. /\ GroupsLeft \in Nat /\ GroupsLeft' \in Nat /\ GroupsLeft' <= GroupsLeft
        /\ ThreadsLeft \in Nat /\ ThreadsLeft' \in Nat /\ ThreadsLeft' <= ThreadsLeft
    BY <1>1, <2>2, <2>3, GroupsSum, ThreadsSum
  <2>5. PP!StepsLeft' < PP!StepsLeft
    <3>1. UNCHANGED P!vars => UNCHANGED vars
      BY <1>9 DEF vars, processVars, P!vars, P!mainVars, P!pipeVars, P!fdVars,
                  P!shmVars
    <3> QED
      BY <1>3, <3>1
  <2> QED
    BY <1>4, <1>5, <1>6, <2>4, <2>5, ThreeParts
<1> QED
  BY <1>7, <1>8, <1>9, Steps

\* Every step leaves fewer to take, so nobody can go on for ever: with
\* NoStandstill, run_hybrid_mode returns if its processes and their threads are
\* scheduled, whichever pthread_create, fork or write fails and whichever child
\* is killed.
THEOREM StepsRunOut ==
  Spec => [](StepsLeft \in Nat) /\ [][StepsLeft' < StepsLeft]_vars
<1>1. Spec => [](PP!StepsLeft \in Nat) /\ [][PP!StepsLeft' < PP!StepsLeft]_(PP!vars)
  BY PP!StepsRunOut, SpecOfProcess, ProcessAssumed
<1>2. ASSUME IInv, PP!StepsLeft \in Nat PROVE StepsLeft \in Nat
  <2>1. LeftOK
    BY <1>2, LeftTypes
  <2>2. GroupsLeft \in Nat
    BY <2>1, PairsFinite, SumType DEF LeftOK, GroupsLeft
  <2>3. ThreadsLeft \in Nat
    BY <2>1, PairsFinite, SumType DEF LeftOK, ThreadsLeft
  <2> QED
    BY <1>2, <2>2, <2>3 DEF StepsLeft
<1>3. IInv /\ IInv' /\ PP!StepsLeft \in Nat /\ (PP!StepsLeft \in Nat)'
      /\ [Next]_vars /\ [PP!StepsLeft' < PP!StepsLeft]_(PP!vars)
      => [StepsLeft' < StepsLeft]_vars
  BY StepShrinks
<1> QED
  BY <1>1, <1>2, <1>3, Inductive, PTL DEF Spec

-----------------------------------------------------------------------------
(* The run as main() sees it.                                              *)

\* run_hybrid_mode implements SimulationRun, as a run_process_mode: it returns
\* 0 only with every child's Result merged exactly once, and merges nothing
\* twice or after its return, whatever fails inside a child.
THEOREM ImplementsSimulationRun == Spec => PP!ImplementsRun
BY PP!ImplementsSimulationRun, SpecOfProcess, ProcessAssumed

=============================================================================
