-------------------------- MODULE ThreadMode_proofs --------------------------
(***************************************************************************)
(* Proofs about ThreadMode for any number of threads, trials and risk      *)
(* levels: with a mutex or a reduction run_thread_mode_metrics counts each *)
(* trial exactly once, and without protection no trial twice.              *)
(*                                                                         *)
(* The argument follows each trial through the counters: Counted(w, c) is  *)
(* the set of the trials of thread w that counter c stands for, so that a  *)
(* counter is the size of a set, and an increment adds one trial to it.    *)
(*                                                                         *)
(* The end of the run is proved but for the scheduling: NoStandstill, that *)
(* the threads never all wait, and StepsRunOut, that none goes round for   *)
(* ever.  At last the run as main() sees it: a SimulationRun whose pieces  *)
(* are the trials.                                                         *)
(***************************************************************************)
EXTENDS ThreadMode, Partition_proofs, FiniteSetTheorems, SequenceTheorems

\* The counters a thread has still to increment for the trial it is at.
Members(s) == {s[k] : k \in 1 .. Len(s)}

Distinct(s) == \A j, k \in 1 .. Len(s) : s[j] = s[k] => j = k

\* The trials thread w has counted in c: those it has recorded, and the one
\* it is at once that one's increment of c is done.
Current(w, c) ==
  IF worker[w] = "add" /\ c \notin Members(pending[w]) THEN {next[w]} ELSE {}

Counted(w, c) == Hits(Recorded(w) \cup Current(w, c), c)

CountedBy(W, c) == UNION {Counted(w, c) : w \in W}

-----------------------------------------------------------------------------
(* The inductive invariant. *)

\* A thread is at a trial of its own part, and has only counters of that
\* trial still to increment, each once.
ThreadsInStep ==
  \A w \in Threads :
    /\ worker[w] = "absent" => next[w] = StartIdx(w)
    /\ worker[w] = "exited" => next[w] = EndIdx(w)
    /\ worker[w] \in {"lock", "add"} =>
         /\ next[w] < EndIdx(w)
         /\ Distinct(pending[w])
         /\ \A c \in Members(pending[w]) : Hits({next[w]}, c) = {next[w]}
    /\ worker[w] = "lock" =>
         \A c \in Counters \ Members(pending[w]) : Hits({next[w]}, c) = {}
    /\ loaded[w] # NoValue => worker[w] = "add" /\ pending[w] # <<>>

\* A thread increments a counter only with result_mutex, if there is one.
MutexHeld ==
  syncMode = "mutex" => \A w \in Threads : worker[w] = "add" => mutex = w

\* The run has not failed, and is past its joins.
Succeeding ==
  \/ main = "merge"
  \/ main = "post" /\ ~failed
  \/ main = "ended" /\ rc = 0

\* Every thread created is joined, and a run without a failure has created
\* and joined them all before it looks at their results.
JoinedSoFar ==
  /\ main = "setup" => created = 0 /\ ~failed /\ index = 0
  /\ main = "create" => created = index /\ ~failed
  /\ main \in {"setup", "create"} =>
       \A w \in Threads : w >= created => worker[w] = "absent"
  /\ main = "join" =>
       /\ index <= created
       /\ ~failed => created = NumThreads
       /\ \A w \in Threads : w < index => worker[w] = "exited"
  /\ Succeeding => ~failed /\ \A w \in Threads : worker[w] = "exited"
  /\ main = "merge" => syncMode = "reduce"

\* What the shared counters and the values loaded from them may be: never more
\* than has been counted, and under the mutex exactly that.
SharedCounts ==
  syncMode # "reduce" =>
    /\ \A c \in Counters :
         /\ out[c] <= Cardinality(CountedBy(Threads, c))
         /\ syncMode = "mutex" => out[c] = Cardinality(CountedBy(Threads, c))
    /\ \A w \in Threads :
         LET c == Head(pending[w]) IN
         loaded[w] # NoValue =>
           /\ loaded[w] <= Cardinality(CountedBy(Threads, c))
           /\ syncMode = "mutex" => loaded[w] = out[c]

MergedSoFar ==
  /\ ~Succeeding => out = ResultZero
  /\ main = "merge" =>
       \A c \in Counters : out[c] = Cardinality(CountedBy(0 .. index - 1, c))
  /\ Succeeding /\ main # "merge" =>
       \A c \in Counters : out[c] = Cardinality(CountedBy(Threads, c))

\* In a reduction each thread's own Result counts exactly its own trials, and
\* the merge (MergedSoFar) adds up those of the threads before index.
LocalCounts ==
  syncMode = "reduce" =>
    /\ \A w \in Threads : \A c \in Counters :
         /\ local[w][c] = Cardinality(Counted(w, c))
    /\ \A w \in Threads :
         loaded[w] # NoValue => loaded[w] = local[w][Head(pending[w])]
    /\ MergedSoFar

IInv ==
  /\ TypeOK
  /\ ThreadsInStep
  /\ MutexHeld
  /\ JoinedSoFar
  /\ SharedCounts
  /\ LocalCounts

-----------------------------------------------------------------------------
(* Operators. *)

\* Short sequences one after the other.
LEMMA ConcatShort ==
  ASSUME NEW x, NEW y, NEW z
  PROVE  /\ <<x>> \o <<>> = <<x>>
         /\ <<x>> \o <<y>> = <<x, y>>
         /\ <<x, y>> \o <<z>> = <<x, y, z>>
<1> DEFINE S == {x, y, z}
<1>1. /\ <<x>> \in Seq(S) /\ <<y>> \in Seq(S) /\ <<z>> \in Seq(S)
      /\ <<x, y>> \in Seq(S) /\ <<x, y, z>> \in Seq(S)
  OBVIOUS
<1>2. <<x>> \o <<>> = <<x>>
  BY <1>1, ConcatEmptySeq
<1>3. <<x>> \o <<y>> = <<x, y>>
  <2>1. /\ <<x>> \o <<y>> \in Seq(S) /\ Len(<<x>> \o <<y>>) = 2
        /\ \A i \in 1 .. 2 : (<<x>> \o <<y>>)[i] = <<x, y>>[i]
    BY <1>1, ConcatProperties
  <2> QED
    BY <1>1, <2>1, SeqEqual
<1>4. <<x, y>> \o <<z>> = <<x, y, z>>
  <2>1. /\ <<x, y>> \o <<z>> \in Seq(S) /\ Len(<<x, y>> \o <<z>>) = 3
        /\ \A i \in 1 .. 3 : (<<x, y>> \o <<z>>)[i] = <<x, y, z>>[i]
    BY <1>1, ConcatProperties
  <2> QED
    BY <1>1, <2>1, SeqEqual
<1> QED
  BY <1>2, <1>3, <1>4

\* result_add_trial increments each of its counters once, and they are the
\* ones that stand for the trial.
LEMMA IncrementsOf ==
  ASSUME NEW t \in Trials
  PROVE  /\ Increments(t) \in Seq(Counters)
         /\ Increments(t) # <<>>
         /\ Distinct(Increments(t))
         /\ \A c \in Members(Increments(t)) : Hits({t}, c) = {t}
         /\ \A c \in Counters \ Members(Increments(t)) : Hits({t}, c) = {}
<1> USE ThreadAssumption
<1> DEFINE a == "total_trials"
           b == "collision_count"
           r == Risk[t]
<1>1. r \in Buckets /\ a # r /\ b # r /\ a # b
  OBVIOUS
<1>2. {a, b, r} \subseteq Counters
  BY <1>1 DEF Counters
<1>3. CASE r = RiskCollision
  <2>1. Increments(t) = <<a, b, r>>
    BY <1>3, ConcatShort DEF Increments
  <2>2. Members(Increments(t)) = {a, b, r}
    BY <2>1 DEF Members
  <2>3. Distinct(Increments(t))
    BY <1>1, <2>1 DEF Distinct
  <2> QED
    BY <1>1, <1>2, <1>3, <2>1, <2>2, <2>3 DEF Hits
<1>4. CASE r # RiskCollision
  <2>1. Increments(t) = <<a, r>>
    BY <1>4, ConcatShort DEF Increments
  <2>2. Members(Increments(t)) = {a, r}
    BY <2>1 DEF Members
  <2>3. Distinct(Increments(t))
    BY <1>1, <2>1 DEF Distinct
  <2> QED
    BY <1>1, <1>2, <1>4, <2>1, <2>2, <2>3 DEF Hits
<1> QED
  BY <1>3, <1>4

\* Incrementing the first of the counters leaves the others.
LEMMA TailOf ==
  ASSUME NEW s \in Seq(Counters), s # <<>>, Distinct(s)
  PROVE  /\ Head(s) \in Counters /\ Head(s) \in Members(s)
         /\ Tail(s) \in Seq(Counters)
         /\ Distinct(Tail(s))
         /\ Members(Tail(s)) = Members(s) \ {Head(s)}
<1>1. /\ Len(s) \in Nat /\ Len(s) > 0
      /\ Len(Tail(s)) = Len(s) - 1
      /\ Tail(s) \in Seq(Counters)
      /\ \A k \in 1 .. Len(s) - 1 : Tail(s)[k] = s[k + 1]
      /\ Head(s) = s[1]
      /\ \A k \in 1 .. Len(s) : s[k] \in Counters
  OBVIOUS
<1>2. Distinct(Tail(s))
  BY <1>1 DEF Distinct
<1>3. Head(s) \in Counters /\ Head(s) \in Members(s)
  BY <1>1 DEF Members
<1>4. ASSUME NEW c \in Members(Tail(s)) PROVE c \in Members(s) \ {Head(s)}
  BY <1>1, <1>4 DEF Members, Distinct
<1>5. ASSUME NEW c \in Members(s) \ {Head(s)} PROVE c \in Members(Tail(s))
  <2>1. PICK k \in 1 .. Len(s) : c = s[k]
    BY DEF Members
  <2>2. k # 1
    BY <1>1, <2>1
  <2>3. k - 1 \in 1 .. Len(s) - 1 /\ c = Tail(s)[k - 1]
    BY <1>1, <2>1, <2>2
  <2> QED
    BY <1>1, <2>3 DEF Members
<1> QED
  BY <1>1, <1>2, <1>3, <1>4, <1>5

\* The threads' parts are disjoint ranges that make up the trials.
Part(w) == StartIdx(w) .. EndIdx(w) - 1

LEMMA ThreadParts ==
  /\ \A w \in Threads :
       /\ StartIdx(w) \in Nat /\ EndIdx(w) \in Nat
       /\ StartIdx(w) <= EndIdx(w) /\ EndIdx(w) <= NumTrials
       /\ Part(w) \subseteq Trials
  /\ \A v, w \in Threads : v # w => Part(v) \cap Part(w) = {}
  /\ UNION {Part(w) : w \in Threads} = Trials
<1> USE ThreadAssumption
<1>1. ASSUME NEW w \in Threads
      PROVE  /\ StartIdx(w) \in Nat /\ EndIdx(w) \in Nat
             /\ StartIdx(w) <= EndIdx(w) /\ EndIdx(w) <= NumTrials
  BY PartBounds DEF StartIdx, EndIdx, Threads
<1>2. \A w \in Threads : Part(w) \subseteq Trials
  BY <1>1 DEF Part, Trials
<1>3. NumTrials \in Nat /\ NumThreads \in Nat \ {0}
  OBVIOUS
<1>4. /\ UNION {Part(w) : w \in Threads} = Trials
      /\ \A v, w \in Threads : v # w => Part(v) \cap Part(w) = {}
  BY <1>3, PartsPartition DEF Part, StartIdx, EndIdx, Threads, Trials
<1> QED
  BY <1>1, <1>2, <1>4

LEMMA TrialsFinite ==
  ASSUME NEW S \in SUBSET Trials
  PROVE  IsFiniteSet(S) /\ Cardinality(S) \in Nat
<1>1. IsFiniteSet(Trials)
  BY ThreadAssumption, FS_Interval DEF Trials
<1> QED
  BY <1>1, FS_Subset, FS_CardinalityType

\* What a thread has counted lies in its part, and was begun.
LEMMA CountedInPart ==
  ASSUME TypeOK, ThreadsInStep, NEW w \in Threads, NEW c
  PROVE  /\ Counted(w, c) \subseteq Part(w)
         /\ Counted(w, c) \subseteq Hits(Begun(w), c)
         /\ Begun(w) \subseteq Trials
<1>1. /\ StartIdx(w) \in Nat /\ EndIdx(w) \in Nat
      /\ StartIdx(w) <= EndIdx(w) /\ EndIdx(w) <= NumTrials
      /\ Part(w) \subseteq Trials
  BY ThreadParts
<1>2. next[w] \in StartIdx(w) .. EndIdx(w)
  BY DEF TypeOK
<1>3. worker[w] = "add" => next[w] < EndIdx(w)
  BY DEF ThreadsInStep
<1>4. Recorded(w) \cup Current(w, c) \subseteq Part(w)
  BY <1>1, <1>2, <1>3 DEF Recorded, Current, Part
<1>5. Recorded(w) \cup Current(w, c) \subseteq Begun(w)
  BY <1>1, <1>2, <1>3 DEF Recorded, Current, Begun, Lesser
<1>6. Begun(w) \subseteq Part(w)
  BY <1>1, <1>2 DEF Begun, Part, Lesser
<1> QED
  BY <1>1, <1>4, <1>5, <1>6 DEF Counted, Hits

-----------------------------------------------------------------------------
(* The steps. *)

\* The trial a thread is at, while its part is not done.
LEMMA AtTrial ==
  ASSUME TypeOK, NEW w \in Threads
  PROVE  /\ StartIdx(w) \in Nat /\ EndIdx(w) \in Nat /\ next[w] \in Nat
         /\ StartIdx(w) <= next[w] /\ next[w] <= EndIdx(w)
         /\ EndIdx(w) <= NumTrials
         /\ next[w] < EndIdx(w) => next[w] \in Trials /\ next[w] \in Part(w)
<1>1. /\ StartIdx(w) \in Nat /\ EndIdx(w) \in Nat
      /\ StartIdx(w) <= EndIdx(w) /\ EndIdx(w) <= NumTrials
      /\ Part(w) \subseteq Trials
  BY ThreadParts
<1>2. next[w] \in StartIdx(w) .. EndIdx(w)
  BY DEF TypeOK
<1> QED
  BY <1>1, <1>2 DEF Part

\* A value read from a counter, and that value plus one, are numbers.
LEMMA LoadedType ==
  ASSUME TypeOK, ThreadsInStep, NEW w \in Threads, loaded[w] # NoValue
  PROVE  /\ loaded[w] \in Nat /\ loaded[w] + 1 \in Nat
         /\ worker[w] = "add" /\ pending[w] # <<>>
         /\ Distinct(pending[w])
         /\ Head(pending[w]) \in Counters
         /\ Head(pending[w]) \in Members(pending[w])
         /\ Tail(pending[w]) \in Seq(Counters)
         /\ Distinct(Tail(pending[w]))
         /\ Members(Tail(pending[w])) = Members(pending[w]) \ {Head(pending[w])}
<1>1. worker[w] = "add" /\ pending[w] # <<>> /\ Distinct(pending[w])
  BY DEF ThreadsInStep
<1>2. pending[w] \in Seq(Counters) /\ loaded[w] \in Nat
  BY DEF TypeOK
<1> QED
  BY <1>1, <1>2, TailOf

\* A step keeps the types.
LEMMA TypeStep == IInv /\ [Next]_vars => TypeOK'
<1> SUFFICES ASSUME IInv, [Next]_vars PROVE TypeOK'
  OBVIOUS
<1>0. TypeOK /\ ThreadsInStep /\ JoinedSoFar
  BY DEF IInv
<1> USE ThreadAssumption
<1>1. ASSUME NEW w \in Threads, WorkerTrial(w) PROVE TypeOK'
  <2>1. Increments(next[w]) \in Seq(Counters)
    BY <1>0, <1>1, AtTrial, IncrementsOf DEF WorkerTrial
  <2> QED
    BY <1>0, <1>1, <2>1 DEF TypeOK, WorkerTrial, WorkerGoto, mainVars
<1>2. ASSUME NEW w \in Threads, WorkerLock(w) PROVE TypeOK'
  BY <1>0, <1>2 DEF TypeOK, WorkerLock, WorkerGoto, mainVars
<1>3. ASSUME NEW w \in Threads, WorkerLoad(w) PROVE TypeOK'
  <2>1. Head(pending[w]) \in Counters
    BY <1>0, <1>3 DEF TypeOK, WorkerLoad
  <2>2. out[Head(pending[w])] \in Nat /\ local[w][Head(pending[w])] \in Nat
    BY <1>0, <2>1 DEF TypeOK
  <2> QED
    BY <1>0, <1>3, <2>2 DEF TypeOK, WorkerLoad, mainVars
<1>4. ASSUME NEW w \in Threads, WorkerStore(w) PROVE TypeOK'
  <2>1. /\ loaded[w] + 1 \in Nat
        /\ Head(pending[w]) \in Counters
        /\ Tail(pending[w]) \in Seq(Counters)
    BY <1>0, <1>4, LoadedType DEF WorkerStore
  <2>2. pending' \in [Threads -> Seq(Counters)]
    BY <1>0, <1>4, <2>1 DEF TypeOK, WorkerStore
  <2>3. loaded' \in [Threads -> Nat \cup {NoValue}]
    BY <1>0, <1>4 DEF TypeOK, WorkerStore
  <2>4. out' \in [Counters -> Nat]
    BY <1>0, <1>4, <2>1 DEF TypeOK, WorkerStore
  <2>5. local' \in [Threads -> [Counters -> Nat]]
    <3>1. local \in [Threads -> [Counters -> Nat]]
      BY <1>0 DEF TypeOK
    <3>2. [local[w] EXCEPT ![Head(pending[w])] = loaded[w] + 1] \in [Counters -> Nat]
      BY <2>1, <3>1
    <3>3. \/ local' = local
          \/ local' = [local EXCEPT ![w] =
                        [local[w] EXCEPT ![Head(pending[w])] = loaded[w] + 1]]
      BY <1>4 DEF WorkerStore
    <3> QED
      BY <3>1, <3>2, <3>3
  <2> QED
    BY <1>0, <1>4, <2>2, <2>3, <2>4, <2>5 DEF TypeOK, WorkerStore, mainVars
<1>5. ASSUME NEW w \in Threads, WorkerRecorded(w) PROVE TypeOK'
  <2>1. next[w] < EndIdx(w)
    BY <1>0, <1>5 DEF WorkerRecorded, ThreadsInStep
  <2>2. next[w] + 1 \in 0 .. NumTrials /\ next[w] + 1 \in StartIdx(w) .. EndIdx(w)
    BY <1>0, <2>1, AtTrial
  <2>3. /\ next' \in [Threads -> 0 .. NumTrials]
        /\ \A v \in Threads : next'[v] \in StartIdx(v) .. EndIdx(v)
    BY <1>0, <1>5, <2>2 DEF TypeOK, WorkerRecorded
  <2> QED
    BY <1>0, <1>5, <2>3 DEF TypeOK, WorkerRecorded, WorkerGoto, mainVars
<1>6. ASSUME NEW w \in Threads, WorkerExit(w) PROVE TypeOK'
  BY <1>0, <1>6 DEF TypeOK, WorkerExit, WorkerGoto, mainVars
<1>7. CASE MainNoMemory
  BY <1>0, <1>7 DEF TypeOK, MainNoMemory, MainGoto, workerVars
<1>8. CASE MainSetup
  BY <1>0, <1>8 DEF TypeOK, MainSetup, MainGoto, ResultZero, workerVars
<1>9. CASE MainCreate
  <2>1. index + 1 \in 0 .. NumThreads /\ created + 1 \in 0 .. NumThreads
    BY <1>0, <1>9 DEF TypeOK, MainCreate, JoinedSoFar
  <2> QED
    BY <1>0, <1>9, <2>1 DEF TypeOK, MainCreate
<1>10. CASE MainCreateFails
  BY <1>0, <1>10 DEF TypeOK, MainCreateFails, MainGoto, workerVars
<1>11. CASE MainCreated
  BY <1>0, <1>11 DEF TypeOK, MainCreated, MainGoto, workerVars
<1>12. CASE MainJoin
  BY <1>0, <1>12 DEF TypeOK, MainJoin, workerVars
<1>13. CASE MainJoined
  BY <1>0, <1>13 DEF TypeOK, MainJoined, MainGoto, ResultZero, workerVars
<1>14. CASE MainMerge
  <2>1. CASE index < NumThreads
    <3>1. index \in Threads /\ index + 1 \in 0 .. NumThreads
      BY <1>0, <2>1 DEF TypeOK, Threads
    <3>2. Merge(out, local[index]) \in [Counters -> Nat]
      BY <1>0, <3>1 DEF TypeOK, Merge
    <3> QED
      BY <1>0, <1>14, <2>1, <3>1, <3>2 DEF TypeOK, MainMerge, workerVars
  <2>2. CASE ~(index < NumThreads)
    BY <1>0, <1>14, <2>2 DEF TypeOK, MainMerge, MainGoto, workerVars
  <2> QED
    BY <2>1, <2>2
<1>15. CASE MainReturn
  BY <1>0, <1>15 DEF TypeOK, MainReturn, MainGoto, workerVars
<1>16. CASE UNCHANGED vars
  BY <1>0, <1>16 DEF TypeOK, vars, mainVars, workerVars
<1> QED
  BY <1>1, <1>2, <1>3, <1>4, <1>5, <1>6, <1>7, <1>8, <1>9, <1>10, <1>11, <1>12,
     <1>13, <1>14, <1>15, <1>16
     DEF Next, WorkerStep, MainStep, vars

\* A step keeps each thread within its part and its trial.
LEMMA InStepStep == IInv /\ [Next]_vars => ThreadsInStep'
<1> SUFFICES ASSUME IInv, [Next]_vars PROVE ThreadsInStep'
  OBVIOUS
<1>0. TypeOK /\ ThreadsInStep /\ JoinedSoFar
  BY DEF IInv
<1> USE ThreadAssumption
<1>1. ASSUME NEW w \in Threads, WorkerTrial(w) PROVE ThreadsInStep'
  <2>1. next[w] \in Trials
    BY <1>0, <1>1, AtTrial DEF WorkerTrial
  <2>2. /\ Distinct(Increments(next[w]))
        /\ \A c \in Members(Increments(next[w])) :
             Hits({next[w]}, c) = {next[w]}
        /\ \A c \in Counters \ Members(Increments(next[w])) :
             Hits({next[w]}, c) = {}
    BY <2>1, IncrementsOf
  <2>3. loaded[w] = NoValue
    BY <1>0, <1>1 DEF WorkerTrial, ThreadsInStep
  <2>4. /\ pending'[w] = Increments(next[w]) /\ next' = next
        /\ worker'[w] \in {"lock", "add"} /\ next[w] < EndIdx(w)
        /\ loaded' = loaded
        /\ \A v \in Threads : v # w => /\ worker'[v] = worker[v]
                                       /\ pending'[v] = pending[v]
    BY <1>0, <1>1 DEF TypeOK, WorkerTrial, WorkerGoto
  <2> QED
    BY <1>0, <2>2, <2>3, <2>4 DEF ThreadsInStep
<1>2. ASSUME NEW w \in Threads, WorkerLock(w) PROVE ThreadsInStep'
  BY <1>0, <1>2 DEF TypeOK, WorkerLock, WorkerGoto, ThreadsInStep
<1>3. ASSUME NEW w \in Threads, WorkerLoad(w) PROVE ThreadsInStep'
  BY <1>0, <1>3 DEF TypeOK, WorkerLoad, ThreadsInStep
<1>4. ASSUME NEW w \in Threads, WorkerStore(w) PROVE ThreadsInStep'
  <2>1. /\ worker[w] = "add"
        /\ Distinct(Tail(pending[w]))
        /\ Members(Tail(pending[w])) \subseteq Members(pending[w])
    BY <1>0, <1>4, LoadedType DEF WorkerStore
  <2>2. /\ pending'[w] = Tail(pending[w]) /\ loaded'[w] = NoValue
        /\ worker' = worker /\ next' = next
        /\ \A v \in Threads : v # w => /\ pending'[v] = pending[v]
                                       /\ loaded'[v] = loaded[v]
    BY <1>0, <1>4 DEF TypeOK, WorkerStore
  <2> QED
    BY <1>0, <2>1, <2>2 DEF ThreadsInStep
<1>5. ASSUME NEW w \in Threads, WorkerRecorded(w) PROVE ThreadsInStep'
  <2>1. loaded[w] = NoValue
    BY <1>0, <1>5 DEF WorkerRecorded, ThreadsInStep
  <2>2. /\ worker'[w] = "trial"
        /\ pending' = pending /\ loaded' = loaded
        /\ \A v \in Threads : v # w => /\ worker'[v] = worker[v]
                                       /\ next'[v] = next[v]
    BY <1>0, <1>5 DEF TypeOK, WorkerRecorded, WorkerGoto
  <2> QED
    BY ZenonT(60), <1>0, <2>1, <2>2 DEF ThreadsInStep
<1>6. ASSUME NEW w \in Threads, WorkerExit(w) PROVE ThreadsInStep'
  BY <1>0, <1>6 DEF TypeOK, WorkerExit, WorkerGoto, ThreadsInStep
<1>7. CASE MainCreate
  <2>1. index \in Threads /\ worker[index] = "absent"
    BY <1>0, <1>7 DEF TypeOK, MainCreate, JoinedSoFar, Threads
  <2> QED
    BY <1>0, <1>7, <2>1 DEF TypeOK, MainCreate, ThreadsInStep
<1>8. CASE UNCHANGED <<worker, next, pending, loaded>>
  BY <1>0, <1>8 DEF ThreadsInStep
<1> QED
  BY <1>1, <1>2, <1>3, <1>4, <1>5, <1>6, <1>7, <1>8
     DEF Next, WorkerStep, MainStep, vars, workerVars, MainNoMemory, MainSetup,
         MainCreateFails, MainCreated, MainJoin, MainJoined, MainMerge,
         MainReturn

\* A step keeps the mutex with the thread that increments.
LEMMA MutexStep == IInv /\ [Next]_vars => MutexHeld'
<1> SUFFICES ASSUME IInv, [Next]_vars PROVE MutexHeld'
  OBVIOUS
<1>0. TypeOK /\ MutexHeld
  BY DEF IInv
<1> USE ThreadAssumption
<1>1. ASSUME NEW w \in Threads, WorkerStep(w) PROVE MutexHeld'
  BY <1>0, <1>1
     DEF TypeOK, MutexHeld, WorkerStep, WorkerTrial, WorkerLock, WorkerLoad,
         WorkerStore, WorkerRecorded, WorkerExit, WorkerGoto
<1>2. CASE MainCreate
  BY <1>0, <1>2 DEF TypeOK, MutexHeld, MainCreate
<1>3. CASE UNCHANGED <<syncMode, worker, mutex>>
  BY <1>0, <1>3 DEF MutexHeld
<1> QED
  BY <1>1, <1>2, <1>3
     DEF Next, MainStep, vars, workerVars, MainNoMemory, MainSetup,
         MainCreateFails, MainCreated, MainJoin, MainJoined, MainMerge,
         MainReturn

\* A step keeps the account of the threads created and joined.
LEMMA JoinedStep == IInv /\ [Next]_vars => JoinedSoFar'
<1> SUFFICES ASSUME IInv, [Next]_vars PROVE JoinedSoFar'
  OBVIOUS
<1>0. TypeOK /\ JoinedSoFar
  BY DEF IInv
<1> USE ThreadAssumption DEF Threads
<1>1. ASSUME NEW w \in Threads, WorkerStep(w) PROVE JoinedSoFar'
  <2>1. /\ UNCHANGED <<syncMode, mainVars>>
        /\ worker[w] \notin {"absent", "exited"}
        /\ \A v \in Threads : v # w => worker'[v] = worker[v]
    BY <1>0, <1>1
       DEF TypeOK, WorkerStep, WorkerTrial, WorkerLock, WorkerLoad,
           WorkerStore, WorkerRecorded, WorkerExit, WorkerGoto
  <2> QED
    BY <1>0, <2>1 DEF JoinedSoFar, Succeeding, mainVars
<1>2. CASE MainNoMemory
  BY <1>0, <1>2 DEF JoinedSoFar, Succeeding, MainNoMemory, MainGoto, workerVars
<1>3. CASE MainSetup
  BY <1>0, <1>3 DEF JoinedSoFar, Succeeding, MainSetup, MainGoto, workerVars
<1>4. CASE MainCreate
  BY <1>0, <1>4 DEF TypeOK, JoinedSoFar, Succeeding, MainCreate
<1>5. CASE MainCreateFails
  BY <1>0, <1>5
     DEF TypeOK, JoinedSoFar, Succeeding, MainCreateFails, MainGoto, workerVars
<1>6. CASE MainCreated
  BY <1>0, <1>6
     DEF TypeOK, JoinedSoFar, Succeeding, MainCreated, MainGoto, workerVars
<1>7. CASE MainJoin
  BY <1>0, <1>7 DEF TypeOK, JoinedSoFar, Succeeding, MainJoin, workerVars
<1>8. CASE MainJoined
  BY SMTT(30), <1>0, <1>8
     DEF TypeOK, JoinedSoFar, Succeeding, MainJoined, MainGoto, workerVars
<1>9. CASE MainMerge
  BY <1>0, <1>9
     DEF TypeOK, JoinedSoFar, Succeeding, MainMerge, MainGoto, workerVars
<1>10. CASE MainReturn
  BY <1>0, <1>10
     DEF TypeOK, JoinedSoFar, Succeeding, MainReturn, MainGoto, workerVars
<1>11. CASE UNCHANGED vars
  BY <1>0, <1>11 DEF JoinedSoFar, Succeeding, vars, mainVars, workerVars
<1> QED
  BY <1>1, <1>2, <1>3, <1>4, <1>5, <1>6, <1>7, <1>8, <1>9, <1>10, <1>11
     DEF Next, MainStep

-----------------------------------------------------------------------------
(* What a step counts. *)

\* Thread w increments c: one trial, in no other thread's part, is counted.
CountsOne(w, c) ==
  /\ next[w] \in Trials
  /\ \A v \in Threads : \A d : next[w] \in Counted(v, d) => v = w
  /\ next[w] \notin Counted(w, c)
  /\ Counted(w, c)' = Counted(w, c) \cup {next[w]}
  /\ \A d \in Counters \ {c} : Counted(w, d)' = Counted(w, d)

LEMMA CountedStore ==
  ASSUME TypeOK, ThreadsInStep, NEW w \in Threads, WorkerStore(w),
         NEW c, c = Head(pending[w])
  PROVE  /\ CountsOne(w, c)
         /\ \A v \in Threads \ {w} : \A d : Counted(v, d)' = Counted(v, d)
<1>1. /\ loaded[w] # NoValue /\ worker[w] = "add" /\ worker' = worker
      /\ next' = next /\ pending' = [pending EXCEPT ![w] = Tail(@)]
  BY DEF WorkerStore
<1>2. /\ c \in Members(pending[w])
      /\ Members(Tail(pending[w])) = Members(pending[w]) \ {c}
  BY <1>1, LoadedType
<1>3. next[w] < EndIdx(w)
  BY <1>1 DEF ThreadsInStep
<1>4. /\ next[w] \in Trials /\ next[w] \in Part(w)
      /\ StartIdx(w) \in Nat /\ next[w] \in Nat
  BY <1>3, AtTrial
<1>5. Hits({next[w]}, c) = {next[w]}
  BY <1>1, <1>2 DEF ThreadsInStep
<1>6. /\ pending'[w] = Tail(pending[w])
      /\ \A v \in Threads \ {w} : pending'[v] = pending[v]
  BY <1>1 DEF TypeOK
<1>7. \A v \in Threads \ {w} : \A d : Counted(v, d)' = Counted(v, d)
  BY <1>1, <1>6 DEF Counted, Current, Recorded, Hits
<1>8. ASSUME NEW v \in Threads, NEW d, next[w] \in Counted(v, d) PROVE v = w
  <2>1. next[w] \in Part(v)
    BY <1>8, CountedInPart
  <2> QED
    BY <1>4, <2>1, ThreadParts
<1>9. next[w] \notin Counted(w, c)
  BY <1>1, <1>2, <1>4 DEF Counted, Current, Recorded, Hits
<1>10. Current(w, c)' = {next[w]} /\ Current(w, c) = {}
  BY <1>1, <1>2, <1>6 DEF Current
<1>11. Counted(w, c)' = Counted(w, c) \cup {next[w]}
  BY <1>1, <1>5, <1>10 DEF Counted, Recorded, Hits
<1>12. ASSUME NEW d \in Counters \ {c} PROVE Counted(w, d)' = Counted(w, d)
  BY <1>1, <1>2, <1>6 DEF Counted, Current, Recorded, Hits
<1> QED
  BY <1>4, <1>7, <1>8, <1>9, <1>11, <1>12 DEF CountsOne

\* No other step changes what is counted: a trial that begins has all its
\* counters before it, one that ends has none left.
LEMMA CountedElse ==
  ASSUME IInv, [Next]_vars, \A w \in Threads : ~WorkerStore(w)
  PROVE  \A w \in Threads : \A c \in Counters : Counted(w, c)' = Counted(w, c)
<1>0. TypeOK /\ ThreadsInStep /\ JoinedSoFar
  BY DEF IInv
<1> USE ThreadAssumption
<1> SUFFICES ASSUME NEW v \in Threads, NEW c \in Counters
             PROVE  Counted(v, c)' = Counted(v, c)
  OBVIOUS
<1>1. ASSUME NEW w \in Threads, WorkerTrial(w)
      PROVE  Counted(v, c)' = Counted(v, c)
  <2>1. /\ pending'[w] = Increments(next[w]) /\ next' = next
        /\ worker[w] = "trial" /\ next[w] < EndIdx(w)
        /\ v # w => worker'[v] = worker[v] /\ pending'[v] = pending[v]
    BY <1>0, <1>1 DEF TypeOK, WorkerTrial, WorkerGoto
  <2>2. CASE v # w
    BY <2>1, <2>2 DEF Counted, Current, Recorded, Hits
  <2>3. CASE v = w
    <3>1. c \notin Members(Increments(next[w])) => Hits({next[w]}, c) = {}
      BY <1>0, <2>1, AtTrial, IncrementsOf
    <3>2. Current(w, c) = {} /\ Hits(Current(w, c)', c) = {}
      BY <2>1, <3>1 DEF Current, Hits
    <3> HIDE DEF Current
    <3> QED
      BY <2>1, <2>3, <3>2 DEF Counted, Recorded, Hits
  <2> QED
    BY <2>2, <2>3
<1>2. ASSUME NEW w \in Threads, WorkerLock(w)
      PROVE  Counted(v, c)' = Counted(v, c)
  <2>1. /\ pending' = pending /\ next' = next /\ worker[w] = "lock"
        /\ v # w => worker'[v] = worker[v]
    BY <1>0, <1>2 DEF TypeOK, WorkerLock, WorkerGoto
  <2>2. CASE v # w
    BY <2>1, <2>2 DEF Counted, Current, Recorded, Hits
  <2>3. CASE v = w
    <3>1. c \notin Members(pending[w]) => Hits({next[w]}, c) = {}
      BY <1>0, <2>1 DEF ThreadsInStep
    <3>2. Current(w, c) = {} /\ Hits(Current(w, c)', c) = {}
      BY <2>1, <3>1 DEF Current, Hits
    <3> HIDE DEF Current
    <3> QED
      BY <2>1, <2>3, <3>2 DEF Counted, Recorded, Hits
  <2> QED
    BY <2>2, <2>3
<1>3. ASSUME NEW w \in Threads, WorkerRecorded(w)
      PROVE  Counted(v, c)' = Counted(v, c)
  <2>1. /\ pending' = pending /\ pending[w] = <<>>
        /\ worker[w] = "add" /\ worker'[w] = "trial"
        /\ next'[w] = next[w] + 1
        /\ v # w => worker'[v] = worker[v] /\ next'[v] = next[v]
    BY <1>0, <1>3 DEF TypeOK, WorkerRecorded, WorkerGoto
  <2>2. CASE v # w
    BY <2>1, <2>2 DEF Counted, Current, Recorded, Hits
  <2>3. CASE v = w
    <3>1. Members(pending[w]) = {}
      BY <2>1 DEF Members
    <3>2. Current(w, c) = {next[w]} /\ Current(w, c)' = {}
      BY <2>1, <3>1 DEF Current
    <3>3. Recorded(w)' = Recorded(w) \cup {next[w]}
      BY <1>0, <2>1, AtTrial DEF Recorded
    <3> HIDE DEF Current, Recorded
    <3> QED
      BY <2>3, <3>2, <3>3 DEF Counted, Hits
  <2> QED
    BY <2>2, <2>3
<1>4. ASSUME NEW w \in Threads, WorkerExit(w)
      PROVE  Counted(v, c)' = Counted(v, c)
  BY <1>0, <1>4
     DEF TypeOK, WorkerExit, WorkerGoto, Counted, Current, Recorded, Hits
<1>5. CASE MainCreate
  <2>1. index \in Threads /\ worker[index] = "absent"
    BY <1>0, <1>5 DEF TypeOK, MainCreate, JoinedSoFar, Threads
  <2> QED
    BY <1>0, <1>5, <2>1
       DEF TypeOK, MainCreate, Counted, Current, Recorded, Hits
<1>6. CASE UNCHANGED <<worker, next, pending>>
  BY <1>6 DEF Counted, Current, Recorded, Hits
<1> QED
  BY <1>1, <1>2, <1>3, <1>4, <1>5, <1>6
     DEF Next, WorkerStep, MainStep, vars, workerVars, WorkerLoad,
         MainNoMemory, MainSetup, MainCreateFails, MainCreated, MainJoin,
         MainJoined, MainMerge, MainReturn

\* The size of what is counted: a set of trials, and one more after a store.
LEMMA CountedSize ==
  ASSUME TypeOK, ThreadsInStep, NEW W \in SUBSET Threads, NEW c
  PROVE  /\ CountedBy(W, c) \subseteq Trials
         /\ IsFiniteSet(CountedBy(W, c))
         /\ Cardinality(CountedBy(W, c)) \in Nat
<1>1. \A w \in W : Counted(w, c) \subseteq Trials
  BY CountedInPart, ThreadParts
<1>2. CountedBy(W, c) \subseteq Trials
  BY <1>1 DEF CountedBy
<1> QED
  BY <1>2, TrialsFinite

LEMMA StoreSize ==
  ASSUME TypeOK, ThreadsInStep, NEW w \in Threads, WorkerStore(w),
         NEW c, c = Head(pending[w]), NEW W \in SUBSET Threads, w \in W
  PROVE  /\ Cardinality(CountedBy(W, c))' = Cardinality(CountedBy(W, c)) + 1
         /\ \A d \in Counters \ {c} : CountedBy(W, d)' = CountedBy(W, d)
<1>1. /\ CountsOne(w, c)
      /\ \A v \in Threads \ {w} : \A d : Counted(v, d)' = Counted(v, d)
  BY CountedStore
<1>2. CountedBy(W, c)' = CountedBy(W, c) \cup {next[w]}
  BY <1>1 DEF CountedBy, CountsOne
<1>3. next[w] \notin CountedBy(W, c)
  BY <1>1 DEF CountedBy, CountsOne
<1>4. IsFiniteSet(CountedBy(W, c))
  BY CountedSize
<1>5. \A d \in Counters \ {c} : CountedBy(W, d)' = CountedBy(W, d)
  BY <1>1 DEF CountedBy, CountsOne
<1> QED
  BY <1>2, <1>3, <1>4, <1>5, FS_AddElement

\* Before a thread is created it has counted nothing.
LEMMA NothingCounted ==
  ASSUME TypeOK, ThreadsInStep, NEW W \in SUBSET Threads,
         \A w \in W : worker[w] = "absent", NEW c
  PROVE  CountedBy(W, c) = {} /\ Cardinality(CountedBy(W, c)) = 0
<1>1. ASSUME NEW w \in W PROVE Recorded(w) = {} /\ Current(w, c) = {}
  <2>1. next[w] = StartIdx(w) /\ StartIdx(w) \in Nat
    BY ThreadParts DEF ThreadsInStep
  <2> QED
    BY <2>1 DEF Recorded, Current
<1>2. CountedBy(W, c) = {}
  BY <1>1 DEF CountedBy, Counted, Hits
<1> QED
  BY <1>2, FS_EmptySet

\* A step keeps the account of the counters the threads share.
LEMMA SharedStep == IInv /\ [Next]_vars => SharedCounts'
<1> SUFFICES ASSUME IInv, [Next]_vars, syncMode' # "reduce"
             PROVE  SharedCounts'
  BY DEF SharedCounts
<1>0. TypeOK /\ ThreadsInStep /\ MutexHeld /\ JoinedSoFar /\ SharedCounts
  BY DEF IInv
<1> USE ThreadAssumption
<1>1. syncMode' = syncMode /\ syncMode # "reduce"
  BY DEF Next, WorkerStep, MainStep, vars, WorkerTrial, WorkerLock, WorkerLoad,
         WorkerStore, WorkerRecorded, WorkerExit, MainNoMemory, MainSetup,
         MainCreate, MainCreateFails, MainCreated, MainJoin, MainJoined,
         MainMerge, MainReturn
<1>2. \A c : Cardinality(CountedBy(Threads, c)) \in Nat
  BY <1>0, CountedSize
<1>3. ASSUME NEW w \in Threads, loaded[w] # NoValue
      PROVE  loaded[w] \in Nat /\ worker[w] = "add" /\ Head(pending[w]) \in Counters
  BY <1>0, <1>3, LoadedType
<1>4. ASSUME NEW w \in Threads, WorkerStore(w) PROVE SharedCounts'
  <2>1. PICK c \in Counters : c = Head(pending[w])
    BY <1>3, <1>4 DEF WorkerStore
  <2>2. /\ Cardinality(CountedBy(Threads, c))'
             = Cardinality(CountedBy(Threads, c)) + 1
        /\ \A d \in Counters \ {c} : CountedBy(Threads, d)' = CountedBy(Threads, d)
    BY <1>0, <1>4, <2>1, StoreSize
  <2>3. /\ out'[c] = loaded[w] + 1 /\ loaded[w] # NoValue
        /\ \A d \in Counters \ {c} : out'[d] = out[d]
        /\ loaded'[w] = NoValue
        /\ \A v \in Threads \ {w} : /\ loaded'[v] = loaded[v]
                                    /\ pending'[v] = pending[v]
    BY <1>0, <1>1, <1>4, <2>1 DEF TypeOK, WorkerStore
  <2>4. /\ loaded[w] \in Nat /\ loaded[w] <= Cardinality(CountedBy(Threads, c))
        /\ syncMode = "mutex" => loaded[w] = Cardinality(CountedBy(Threads, c))
    BY <1>0, <1>1, <1>3, <2>1, <2>3 DEF SharedCounts
  <2>5. ASSUME NEW d \in Counters
        PROVE  /\ out'[d] <= Cardinality(CountedBy(Threads, d))'
               /\ syncMode = "mutex" =>
                    out'[d] = Cardinality(CountedBy(Threads, d))'
    BY <1>0, <1>1, <1>2, <2>2, <2>3, <2>4 DEF SharedCounts
  <2>6. ASSUME NEW v \in Threads, loaded'[v] # NoValue,
               NEW d, d = Head(pending[v])
        PROVE  /\ v # w /\ Head(pending'[v]) = d
               /\ loaded'[v] <= Cardinality(CountedBy(Threads, d))'
               /\ syncMode # "mutex"
    <3>1. v # w /\ loaded'[v] = loaded[v] /\ pending'[v] = pending[v]
      BY <2>3, <2>6
    <3>2. d \in Counters /\ worker[v] = "add" /\ worker[w] = "add" /\ loaded[v] \in Nat
      BY <1>3, <2>3, <2>6, <3>1
    <3>3. syncMode # "mutex"
      BY <1>0, <3>1, <3>2 DEF MutexHeld
    <3>4. loaded[v] <= Cardinality(CountedBy(Threads, d))
      BY <1>0, <1>1, <2>6, <3>1 DEF SharedCounts
    <3>5. CASE d = c
      BY <1>2, <2>2, <3>1, <3>2, <3>3, <3>4, <3>5, <2>6
    <3>6. CASE d # c
      BY <2>2, <3>1, <3>2, <3>3, <3>4, <3>6, <2>6
    <3> QED
      BY <3>5, <3>6
  <2> QED
    BY <1>1, <2>5, <2>6 DEF SharedCounts
<1>5. CASE \A w \in Threads : ~WorkerStore(w)
  <2>1. \A w \in Threads : \A c \in Counters : Counted(w, c)' = Counted(w, c)
    BY <1>5, CountedElse
  <2>2. \A c \in Counters : CountedBy(Threads, c)' = CountedBy(Threads, c)
    BY <2>1 DEF CountedBy
  <2>3. ASSUME out' = out,
               \A w \in Threads :
                 loaded'[w] # NoValue => /\ loaded'[w] = loaded[w]
                                         /\ pending'[w] = pending[w]
        PROVE  SharedCounts'
    BY <1>0, <1>1, <1>3, <2>2, <2>3 DEF SharedCounts
  <2>4. ASSUME NEW w \in Threads, WorkerLoad(w) PROVE SharedCounts'
    <3>1. /\ out' = out /\ pending' = pending /\ pending[w] # <<>>
          /\ loaded'[w] = out[Head(pending[w])]
          /\ \A v \in Threads \ {w} : loaded'[v] = loaded[v]
      BY <1>0, <1>1, <2>4 DEF TypeOK, WorkerLoad
    <3>2. Head(pending[w]) \in Counters
      BY <1>0, <3>1 DEF TypeOK
    <3> QED
      BY <1>0, <1>1, <1>3, <2>2, <3>1, <3>2 DEF SharedCounts
  <2>5. ASSUME NEW w \in Threads, WorkerTrial(w) PROVE SharedCounts'
    <3>1. /\ out' = out /\ loaded' = loaded /\ loaded[w] = NoValue
          /\ \A v \in Threads \ {w} : pending'[v] = pending[v]
      BY <1>0, <2>5 DEF TypeOK, WorkerTrial, ThreadsInStep
    <3> QED
      BY <2>3, <3>1
  <2>6. CASE MainSetup
    <3>1. \A w \in Threads : worker[w] = "absent" /\ loaded[w] = NoValue
      <4>1. created = 0 /\ \A w \in Threads : w >= 0
        BY <1>0, <2>6 DEF MainSetup, JoinedSoFar, Threads
      <4>2. \A w \in Threads : worker[w] = "absent"
        BY <1>0, <2>6, <4>1 DEF MainSetup, JoinedSoFar
      <4> QED
        BY <1>0, <4>2 DEF ThreadsInStep
    <3>2. \A c : Cardinality(CountedBy(Threads, c)) = 0
      BY <1>0, <3>1, NothingCounted
    <3>3. /\ \A c \in Counters : out'[c] = 0
          /\ loaded' = loaded
      BY <2>6 DEF MainSetup, ResultZero, workerVars
    <3> QED
      BY <1>1, <2>2, <3>1, <3>2, <3>3 DEF SharedCounts
  <2>7. CASE UNCHANGED <<pending, loaded, out>>
    BY <2>3, <2>7
  <2> QED
    BY <1>0, <1>1, <1>5, <2>4, <2>5, <2>6, <2>7
       DEF Next, WorkerStep, MainStep, vars, workerVars, WorkerLock,
           WorkerRecorded, WorkerExit, MainNoMemory, MainCreate,
           MainCreateFails, MainCreated, MainJoin, MainJoined, MainMerge,
           MainReturn, JoinedSoFar
<1> QED
  BY <1>4, <1>5

\* A step keeps the account of a reduction.
LEMMA LocalStep == IInv /\ [Next]_vars => LocalCounts'
<1> SUFFICES ASSUME IInv, [Next]_vars, syncMode' = "reduce"
             PROVE  LocalCounts'
  BY DEF LocalCounts
<1>0. TypeOK /\ ThreadsInStep /\ JoinedSoFar /\ LocalCounts
  BY DEF IInv
<1> USE ThreadAssumption
<1>1. syncMode' = syncMode /\ syncMode = "reduce"
  BY DEF Next, WorkerStep, MainStep, vars, WorkerTrial, WorkerLock, WorkerLoad,
         WorkerStore, WorkerRecorded, WorkerExit, MainNoMemory, MainSetup,
         MainCreate, MainCreateFails, MainCreated, MainJoin, MainJoined,
         MainMerge, MainReturn
<1>2. ASSUME NEW w \in Threads, loaded[w] # NoValue
      PROVE  loaded[w] \in Nat /\ worker[w] = "add" /\ Head(pending[w]) \in Counters
  BY <1>0, <1>2, LoadedType
<1>3. \A w \in Threads : \A c : CountedBy({w}, c) = Counted(w, c)
  BY DEF CountedBy
<1>4. ASSUME NEW w \in Threads, WorkerStore(w) PROVE LocalCounts'
  <2>1. PICK c \in Counters : c = Head(pending[w])
    BY <1>2, <1>4 DEF WorkerStore
  <2>2. Cardinality(CountedBy({w}, c))' = Cardinality(CountedBy({w}, c)) + 1
    BY <1>0, <1>4, <2>1, StoreSize
  <2>3. /\ \A d \in Counters \ {c} : Counted(w, d)' = Counted(w, d)
        /\ \A v \in Threads \ {w} : \A d : Counted(v, d)' = Counted(v, d)
    BY <1>0, <1>4, <2>1, CountedStore DEF CountsOne
  <2>4. Cardinality(Counted(w, c))' = Cardinality(Counted(w, c)) + 1
    <3>1. CountedBy({w}, c)' = Counted(w, c)'
      BY DEF CountedBy
    <3> QED
      BY <1>3, <2>2, <3>1
  <2>5. /\ local'[w][c] = loaded[w] + 1 /\ loaded[w] # NoValue
        /\ \A d \in Counters \ {c} : local'[w][d] = local[w][d]
        /\ loaded'[w] = NoValue
        /\ \A v \in Threads \ {w} : /\ loaded'[v] = loaded[v]
                                    /\ pending'[v] = pending[v]
                                    /\ local'[v] = local[v]
    BY SMTT(30), <1>0, <1>1, <1>4, <2>1 DEF TypeOK, WorkerStore
  <2>6. loaded[w] = Cardinality(Counted(w, c))
    BY <1>0, <1>1, <2>1, <2>5 DEF LocalCounts
  <2>7. ~Succeeding /\ UNCHANGED <<mainVars, out>>
    BY <1>0, <1>1, <1>4 DEF WorkerStore, JoinedSoFar
  <2>8. ASSUME NEW v \in Threads, NEW d \in Counters
        PROVE  local'[v][d] = Cardinality(Counted(v, d))'
    BY <1>0, <1>1, <2>3, <2>4, <2>5, <2>6 DEF LocalCounts
  <2>9. ASSUME NEW v \in Threads, loaded'[v] # NoValue
        PROVE  loaded'[v] = local'[v][Head(pending'[v])]
    BY <1>0, <1>1, <2>5, <2>9 DEF LocalCounts
  <2> QED
    BY <1>0, <1>1, <2>7, <2>8, <2>9
       DEF LocalCounts, MergedSoFar, Succeeding, mainVars
<1>5. CASE \A w \in Threads : ~WorkerStore(w)
  <2>1. \A w \in Threads : \A c \in Counters : Counted(w, c)' = Counted(w, c)
    BY <1>5, CountedElse
  <2>2. \A W \in SUBSET Threads : \A c \in Counters :
          CountedBy(W, c)' = CountedBy(W, c)
    BY <2>1 DEF CountedBy
  <2>3. index \in 0 .. NumThreads /\ 0 .. index - 1 \in SUBSET Threads
    BY <1>0 DEF TypeOK, Threads
  <2>4. ASSUME local' = local,
               \A w \in Threads :
                 loaded'[w] # NoValue => /\ loaded'[w] = loaded[w]
                                         /\ pending'[w] = pending[w]
        PROVE  /\ \A w \in Threads : \A c \in Counters :
                    local'[w][c] = Cardinality(Counted(w, c))'
               /\ \A w \in Threads :
                    loaded'[w] # NoValue =>
                      loaded'[w] = local'[w][Head(pending'[w])]
    BY <1>0, <1>1, <2>1, <2>4 DEF LocalCounts
  <2>5. ASSUME UNCHANGED <<mainVars, out>> PROVE MergedSoFar'
    <3>1. UNCHANGED <<main, index, failed, rc, out>>
      BY <2>5 DEF mainVars
    <3>2. PICK W \in SUBSET Threads : W = 0 .. index - 1
      BY <2>3
    <3>3. \A c \in Counters : CountedBy(0 .. index - 1, c)' = CountedBy(W, c)
      BY <2>1, <3>1, <3>2 DEF CountedBy
    <3> QED
      BY <1>0, <1>1, <2>2, <3>1, <3>2, <3>3
         DEF LocalCounts, MergedSoFar, Succeeding
  <2>6. ASSUME NEW w \in Threads, WorkerLoad(w) PROVE LocalCounts'
    <3>1. /\ UNCHANGED <<mainVars, out, local, pending>> /\ pending[w] # <<>>
          /\ loaded'[w] = local[w][Head(pending[w])]
          /\ \A v \in Threads \ {w} : loaded'[v] = loaded[v]
      BY <1>0, <1>1, <2>6 DEF TypeOK, WorkerLoad
    <3>2. \A v \in Threads :
            loaded'[v] # NoValue => loaded'[v] = local'[v][Head(pending'[v])]
      BY <1>0, <1>1, <3>1 DEF LocalCounts
    <3>3. \A v \in Threads : \A c \in Counters :
            local'[v][c] = Cardinality(Counted(v, c))'
      BY <1>0, <1>1, <2>1, <3>1 DEF LocalCounts
    <3> QED
      BY <2>5, <3>1, <3>2, <3>3 DEF LocalCounts
  <2>7. ASSUME NEW w \in Threads, WorkerTrial(w) PROVE LocalCounts'
    <3>1. /\ UNCHANGED <<mainVars, out, local, loaded>> /\ loaded[w] = NoValue
          /\ \A v \in Threads \ {w} : pending'[v] = pending[v]
      BY <1>0, <2>7 DEF TypeOK, WorkerTrial, ThreadsInStep
    <3> QED
      BY <2>4, <2>5, <3>1 DEF LocalCounts
  <2>8. CASE UNCHANGED <<mainVars, pending, loaded, out, local>>
    BY <2>4, <2>5, <2>8 DEF LocalCounts
  <2>9. CASE MainStep /\ ~MainJoined /\ ~MainMerge /\ ~MainReturn
    <3>1. /\ UNCHANGED <<pending, loaded, local>> /\ ~Succeeding'
          /\ main' # "merge" /\ ~Succeeding /\ (out' = out \/ out' = ResultZero)
      BY <1>0, <2>9
         DEF MainStep, JoinedSoFar, Succeeding, workerVars, MainGoto,
             MainNoMemory, MainSetup, MainCreate, MainCreateFails, MainCreated,
             MainJoin
    <3> QED
      BY <1>0, <1>1, <2>4, <3>1 DEF LocalCounts, MergedSoFar
  <2>10. CASE MainJoined
    <3>1. UNCHANGED <<pending, loaded, local>> /\ main = "join" /\ ~Succeeding
      BY <2>10 DEF MainJoined, workerVars, Succeeding
    <3>2. CASE failed
      <4>1. ~Succeeding' /\ main' = "post" /\ out' = out
        BY <2>10, <3>2 DEF MainJoined, MainGoto, Succeeding
      <4> QED
        BY <1>0, <1>1, <2>4, <3>1, <4>1 DEF LocalCounts, MergedSoFar
    <3>3. CASE ~failed
      <4>1. /\ main' = "merge" /\ index' = 0 /\ out' = ResultZero
            /\ Succeeding'
        BY <1>1, <2>10, <3>3 DEF MainJoined, MainGoto, Succeeding
      <4>2. \A c : Cardinality(CountedBy(0 .. index - 1, c))' = 0
        <5>1. (0 .. index - 1)' = {}
          BY <4>1
        <5>2. \A c : CountedBy(0 .. index - 1, c)' = {}
          BY <5>1 DEF CountedBy
        <5> QED
          BY <5>2, FS_EmptySet
      <4>3. \A c \in Counters : out'[c] = 0
        BY <4>1 DEF ResultZero
      <4> QED
        BY <1>1, <2>4, <3>1, <4>1, <4>2, <4>3 DEF LocalCounts, MergedSoFar
    <3> QED
      BY <3>2, <3>3
  <2>11. CASE MainMerge
    <3>1. /\ UNCHANGED <<failed, rc, pending, loaded, local>> /\ main = "merge"
          /\ Succeeding /\ ~failed
      BY <1>0, <2>11 DEF MainMerge, workerVars, Succeeding, JoinedSoFar
    <3>2. CASE index < NumThreads
      <4>1. /\ main' = "merge" /\ index' = index + 1 /\ Succeeding'
            /\ out' = Merge(out, local[index])
        BY <2>11, <3>1, <3>2 DEF MainMerge, Succeeding
      <4>2. index \in Threads /\ index' - 1 = index /\ 0 .. index \in SUBSET Threads
        BY <2>3, <3>2, <4>1 DEF Threads
      <4>3. ASSUME NEW c \in Counters
            PROVE  out'[c] = Cardinality(CountedBy(0 .. index - 1, c))'
        <5> DEFINE A == CountedBy(0 .. index - 1, c)
                   B == Counted(index, c)
        <5>1. CountedBy(0 .. index - 1, c)' = CountedBy(0 .. index, c)
          <6>1. \A w \in 0 .. index : Counted(w, c)' = Counted(w, c)
            BY <2>1, <4>2
          <6>2. (0 .. index - 1)' = 0 .. index
            BY <4>2
          <6> QED
            BY <6>1, <6>2 DEF CountedBy
        <5>2. CountedBy(0 .. index, c) = A \cup B
          <6>1. 0 .. index = (0 .. index - 1) \cup {index}
            BY <2>3
          <6> QED
            BY <6>1 DEF CountedBy
        <5>3. A \cap B = {}
          <6>1. \A v \in Threads : Counted(v, c) \subseteq Part(v)
            BY <1>0, CountedInPart
          <6>2. \A v \in 0 .. index - 1 : v \in Threads /\ v # index
            BY <2>3
          <6>3. \A v \in 0 .. index - 1 : Part(v) \cap Part(index) = {}
            BY <4>2, <6>2, ThreadParts
          <6> QED
            BY <4>2, <6>1, <6>2, <6>3 DEF CountedBy
        <5>4. IsFiniteSet(A) /\ IsFiniteSet(B) /\ Cardinality(A) \in Nat
              /\ Cardinality(B) \in Nat
          <6>1. {index} \in SUBSET Threads /\ CountedBy({index}, c) = B
            BY <1>3, <4>2
          <6> QED
            BY <1>0, <2>3, <6>1, CountedSize
        <5>5. out'[c] = Cardinality(A) + Cardinality(B)
          BY <1>0, <1>1, <3>1, <4>1, <4>2 DEF Merge, LocalCounts, MergedSoFar
        <5> HIDE DEF A, B
        <5>6. Cardinality(A \cup B) = Cardinality(A) + Cardinality(B)
          <6>1. Cardinality(A \cap B) = 0
            BY <5>3, FS_EmptySet
          <6>2. Cardinality(A \cup B)
                  = Cardinality(A) + Cardinality(B) - Cardinality(A \cap B)
            BY <5>4, FS_Union
          <6> QED
            BY <5>4, <6>1, <6>2
        <5> QED
          BY <5>1, <5>2, <5>5, <5>6
      <4> QED
        BY <1>1, <2>4, <3>1, <4>1, <4>3 DEF LocalCounts, MergedSoFar
    <3>3. CASE ~(index < NumThreads)
      <4>1. main' = "post" /\ Succeeding' /\ out' = out
        BY <2>11, <3>1, <3>3 DEF MainMerge, MainGoto, Succeeding
      <4>2. 0 .. index - 1 = Threads
        BY <2>3, <3>3 DEF Threads
      <4>3. \A c \in Counters : out[c] = Cardinality(CountedBy(Threads, c))
        BY <1>0, <1>1, <3>1, <4>2 DEF LocalCounts, MergedSoFar
      <4> QED
        BY <1>1, <2>2, <2>4, <3>1, <4>1, <4>3 DEF LocalCounts, MergedSoFar
    <3> QED
      BY <3>2, <3>3
  <2>12. CASE MainReturn
    <3>1. /\ UNCHANGED <<pending, loaded, local, out>>
          /\ main' # "merge" /\ main # "merge" /\ (Succeeding' <=> Succeeding)
      BY <2>12 DEF MainReturn, MainGoto, workerVars, Succeeding
    <3> QED
      BY <1>0, <1>1, <2>2, <2>4, <3>1 DEF LocalCounts, MergedSoFar
  <2> QED
    BY <1>5, <2>6, <2>7, <2>8, <2>9, <2>10, <2>11, <2>12
       DEF Next, WorkerStep, vars, workerVars, WorkerLock, WorkerRecorded,
           WorkerExit
<1> QED
  BY <1>4, <1>5

-----------------------------------------------------------------------------
(* The theorems. *)

LEMMA InitIInv == Init => IInv
<1> SUFFICES ASSUME Init PROVE IInv
  OBVIOUS
<1> USE ThreadAssumption
<1>1. \A w \in Threads :
        /\ worker[w] = "absent" /\ next[w] = StartIdx(w) /\ pending[w] = <<>>
        /\ loaded[w] = NoValue /\ local[w] = ResultZero
        /\ StartIdx(w) \in Nat /\ EndIdx(w) \in Nat
        /\ StartIdx(w) <= EndIdx(w) /\ EndIdx(w) <= NumTrials
  BY ThreadParts DEF Init
<1>2. TypeOK
  <2>1. ResultZero \in [Counters -> Nat]
    BY DEF ResultZero
  <2>2. /\ out \in [Counters -> Nat]
        /\ local \in [Threads -> [Counters -> Nat]]
    BY <2>1 DEF Init
  <2>3. /\ next \in [Threads -> 0 .. NumTrials]
        /\ \A w \in Threads : next[w] \in StartIdx(w) .. EndIdx(w)
    BY <1>1 DEF Init
  <2>4. /\ pending \in [Threads -> Seq(Counters)]
        /\ loaded \in [Threads -> Nat \cup {NoValue}]
        /\ worker \in [Threads -> {"absent", "trial", "lock", "add", "exited"}]
    BY DEF Init
  <2>5. index \in 0 .. NumThreads /\ created \in 0 .. NumThreads
    BY DEF Init
  <2> QED
    BY <2>2, <2>3, <2>4, <2>5 DEF Init, TypeOK
<1>3. ThreadsInStep
  BY <1>1 DEF ThreadsInStep
<1>4. \A W \in SUBSET Threads : \A c : Cardinality(CountedBy(W, c)) = 0
  BY <1>1, <1>2, <1>3, NothingCounted
<1>5. MutexHeld /\ JoinedSoFar
  BY <1>1 DEF Init, MutexHeld, JoinedSoFar, Succeeding
<1>6. SharedCounts
  BY <1>1, <1>4 DEF Init, SharedCounts, ResultZero
<1>7. LocalCounts
  <2>1. \A w \in Threads : \A c : Cardinality(Counted(w, c)) = 0
    <3>1. \A w \in Threads : \A c : CountedBy({w}, c) = Counted(w, c)
      BY DEF CountedBy
    <3> QED
      BY ZenonT(60), <1>4, <3>1
  <2> QED
    BY <1>1, <2>1 DEF Init, LocalCounts, MergedSoFar, ResultZero, Succeeding
<1> QED
  BY <1>2, <1>3, <1>5, <1>6, <1>7 DEF IInv

LEMMA Invariance == Spec => []IInv
<1>1. IInv /\ [Next]_vars => IInv'
  BY TypeStep, InStepStep, MutexStep, JoinedStep, SharedStep, LocalStep
     DEF IInv
<1> QED
  BY InitIInv, <1>1, PTL DEF Spec

\* Every variable of run_thread_mode_metrics keeps its type, for any number of
\* threads and trials: no thread runs outside its part of the trials.
THEOREM TypeCorrect == Spec => []TypeOK
<1>1. IInv => TypeOK
  BY DEF IInv
<1> QED
  BY Invariance, <1>1, PTL

\* With a mutex or a reduction a run that returns 0 has counted every trial
\* exactly once in every counter it stands for.
THEOREM ResultIsExact == Spec => []ExactResult
<1>1. IInv => ExactResult
  <2> SUFFICES ASSUME IInv, Returned, syncMode # "nosync"
               PROVE  out = ResultOf(Trials)
    BY DEF ExactResult
  <2>0. TypeOK /\ ThreadsInStep /\ JoinedSoFar /\ SharedCounts /\ LocalCounts
    BY DEF IInv
  <2>1. main = "ended" /\ Succeeding
    BY DEF Returned, Succeeding
  <2>2. \A w \in Threads : worker[w] = "exited" /\ next[w] = EndIdx(w)
    BY <2>0, <2>1 DEF JoinedSoFar, ThreadsInStep
  <2>3. ASSUME NEW w \in Threads, NEW c PROVE Counted(w, c) = Hits(Part(w), c)
    BY <2>2 DEF Counted, Recorded, Current, Part
  <2>4. ASSUME NEW c PROVE CountedBy(Threads, c) = Hits(Trials, c)
    <3>1. UNION {Part(w) : w \in Threads} = Trials
      BY ThreadParts
    <3>2. CountedBy(Threads, c) = UNION {Hits(Part(w), c) : w \in Threads}
      BY <2>3 DEF CountedBy
    <3>3. UNION {Hits(Part(w), c) : w \in Threads}
            = Hits(UNION {Part(w) : w \in Threads}, c)
      BY DEF Hits
    <3> QED
      BY <3>1, <3>2, <3>3
  <2>5. ASSUME NEW c \in Counters
        PROVE  out[c] = Cardinality(CountedBy(Threads, c))
    BY <2>0, <2>1 DEF TypeOK, SharedCounts, LocalCounts, MergedSoFar
  <2>6. out \in [Counters -> Nat]
    BY <2>0 DEF TypeOK
  <2>7. \A c \in Counters : out[c] = Cardinality(Hits(Trials, c))
    BY <2>4, <2>5
  <2> QED
    BY <2>6, <2>7 DEF ResultOf
<1> QED
  BY Invariance, <1>1, PTL

\* In every sync mode, also with unprotected counters, no counter ever
\* exceeds the number of the trials begun that it stands for.
THEOREM NeverCountsTwice == Spec => []NeverTooMany
<1>1. IInv => NeverTooMany
  <2> SUFFICES ASSUME IInv, NEW c \in Counters
               PROVE  out[c] <= Cardinality(Hits(UNION {Begun(w) : w \in Threads}, c))
    BY DEF NeverTooMany
  <2>0. TypeOK /\ ThreadsInStep /\ JoinedSoFar /\ SharedCounts /\ LocalCounts
    BY DEF IInv
  <2> DEFINE all == Hits(UNION {Begun(w) : w \in Threads}, c)
  <2>1. \A w \in Threads : /\ Counted(w, c) \subseteq Hits(Begun(w), c)
                           /\ Begun(w) \subseteq Trials
    BY <2>0, CountedInPart
  <2>2. all \subseteq Trials
    BY <2>1 DEF Hits
  <2>3. \A W \in SUBSET Threads : CountedBy(W, c) \subseteq all
    BY <2>1 DEF CountedBy, Hits
  <2>4. IsFiniteSet(all) /\ Cardinality(all) \in Nat
    BY <2>2, TrialsFinite
  <2> HIDE DEF all
  <2>5. ASSUME NEW W \in SUBSET Threads
        PROVE  /\ Cardinality(CountedBy(W, c)) <= Cardinality(all)
               /\ Cardinality(CountedBy(W, c)) \in Nat
    BY <2>0, <2>3, <2>4, FS_Subset, CountedSize
  <2>6. /\ out[c] \in Nat
        /\ Cardinality(CountedBy(Threads, c)) <= Cardinality(all)
        /\ Cardinality(CountedBy(Threads, c)) \in Nat
    BY <2>0, <2>5 DEF TypeOK
  <2>7. Cardinality(CountedBy(0 .. index - 1, c)) <= Cardinality(all)
    <3>1. 0 .. index - 1 \in SUBSET Threads
      BY <2>0, ThreadAssumption DEF TypeOK, Threads
    <3> QED
      BY <2>5, <3>1
  <2>8. \/ out[c] = 0
        \/ out[c] <= Cardinality(CountedBy(Threads, c))
        \/ out[c] = Cardinality(CountedBy(0 .. index - 1, c))
    BY <2>0, <2>6
       DEF SharedCounts, LocalCounts, MergedSoFar, Succeeding, ResultZero
  <2>9. out[c] <= Cardinality(all)
    BY <2>4, <2>6, <2>7, <2>8
  <2> QED
    BY <2>9 DEF all
<1> QED
  BY Invariance, <1>1, PTL

\* The histogram of all trials adds up to their number: each trial is in one
\* bucket.
LEMMA HistogramOfAll ==
  ASSUME NEW h, h = [b \in Buckets |-> Cardinality(Hits(Trials, b))]
  PROVE  /\ IsFiniteSet(Pile(h, Buckets))
         /\ Cardinality(Pile(h, Buckets)) = NumTrials
<1> USE ThreadAssumption
<1>1. ASSUME NEW b \in Buckets
      PROVE  /\ Hits(Trials, b) = {t \in Trials : Risk[t] = b}
             /\ h[b] \in Nat
             /\ Bijection(1 .. h[b], Hits(Trials, b)) # {}
  <2>1. Hits(Trials, b) \in SUBSET Trials
    BY DEF Hits
  <2>2. b # "total_trials" /\ b # "collision_count"
    OBVIOUS
  <2>3. IsFiniteSet(Hits(Trials, b))
    BY <2>1, TrialsFinite
  <2> QED
    BY <2>2, <2>3, FS_CardinalityType DEF Hits, ExistsBijection
<1> DEFINE F == [b \in Buckets |->
                   CHOOSE f \in Bijection(1 .. h[b], Hits(Trials, b)) : TRUE]
           G == [p \in Pile(h, Buckets) |-> F[p[1]][p[2]]]
<1>2. ASSUME NEW b \in Buckets
      PROVE  /\ F[b] \in [1 .. h[b] -> Hits(Trials, b)]
             /\ \A i, j \in 1 .. h[b] : F[b][i] = F[b][j] => i = j
             /\ \A t \in Hits(Trials, b) : \E i \in 1 .. h[b] : F[b][i] = t
  <2>1. F[b] \in Bijection(1 .. h[b], Hits(Trials, b))
    BY <1>1
  <2> QED
    BY ZenonT(60), <2>1 DEF Bijection, Injection, Surjection, IsInjective
<1> HIDE DEF F
<1>3. \A p \in Pile(h, Buckets) :
        /\ p[1] \in Buckets /\ p[2] \in 1 .. h[p[1]] /\ p = <<p[1], p[2]>>
        /\ G[p] \in Trials /\ Risk[G[p]] = p[1]
  BY <1>1, <1>2 DEF Pile
<1>4. \A b \in Buckets : \A i \in 1 .. h[b] : <<b, i>> \in Pile(h, Buckets)
  BY DEF Pile
<1>5. G \in Injection(Pile(h, Buckets), Trials)
  <2>1. G \in [Pile(h, Buckets) -> Trials]
    BY <1>3
  <2>2. ASSUME NEW p \in Pile(h, Buckets), NEW q \in Pile(h, Buckets), G[p] = G[q]
        PROVE  p = q
    <3>1. p[1] = q[1]
      BY <1>3, <2>2
    <3>2. F[p[1]][p[2]] = F[p[1]][q[2]]
      BY <2>2, <3>1
    <3>3. p[2] = q[2]
      BY <1>2, <1>3, <3>1, <3>2
    <3> QED
      BY <1>3, <3>1, <3>3
  <2> QED
    BY <2>1, <2>2 DEF Injection, IsInjective
<1>6. G \in Surjection(Pile(h, Buckets), Trials)
  <2>1. G \in [Pile(h, Buckets) -> Trials]
    BY <1>3
  <2>2. ASSUME NEW t \in Trials PROVE \E p \in Pile(h, Buckets) : G[p] = t
    <3>1. Risk[t] \in Buckets /\ t \in Hits(Trials, Risk[t])
      BY <1>1
    <3>2. PICK i \in 1 .. h[Risk[t]] : F[Risk[t]][i] = t
      BY <1>2, <3>1
    <3>3. /\ <<Risk[t], i>> \in Pile(h, Buckets)
          /\ G[<<Risk[t], i>>] = t
      BY <1>4, <3>1, <3>2
    <3> QED
      BY <3>3
  <2> QED
    BY <2>1, <2>2 DEF Surjection
<1>7. ExistsBijection(Pile(h, Buckets), Trials)
  BY <1>5, <1>6 DEF ExistsBijection, Bijection
<1>8. IsFiniteSet(Trials) /\ Cardinality(Trials) = NumTrials
  BY FS_Interval DEF Trials
<1>9. IsFiniteSet(Pile(h, Buckets))
  BY <1>1, PileFinite
<1> QED
  BY <1>7, <1>8, <1>9, FS_Bijection

\* Also without any protection a result that passes result_validate has the
\* right total and the right histogram: what a counter has lost, no other one
\* can make up for.
THEOREM ValidIsReliable == Spec => []ValidHistogram
<1>1. TypeOK /\ NeverTooMany => ValidHistogram
  <2> SUFFICES ASSUME TypeOK, NeverTooMany, Valid(out),
                      NEW c \in Counters \ {"collision_count"}
               PROVE  out[c] = Cardinality(Hits(Trials, c))
    BY DEF ValidHistogram, ResultOf
  <2> USE ThreadAssumption
  <2>1. out \in [Counters -> Nat]
    BY DEF TypeOK
  <2>2. CASE c = "total_trials"
    <3>1. Hits(Trials, c) = Trials
      BY <2>2 DEF Hits
    <3>2. Cardinality(Trials) = NumTrials
      BY FS_Interval DEF Trials
    <3> QED
      BY <2>2, <3>1, <3>2 DEF Valid
  <2>3. CASE c \in Buckets
    <3> DEFINE h == [b \in Buckets |-> Cardinality(Hits(Trials, b))]
    <3>1. ASSUME NEW b \in Buckets
          PROVE  out[b] \in Nat /\ h[b] \in Nat /\ out[b] <= h[b]
      <4> DEFINE begun == Hits(UNION {Begun(w) : w \in Threads}, b)
      <4>1. \A w \in Threads : Begun(w) \subseteq Trials
        <5>1. \A w \in Threads :
                StartIdx(w) \in Nat /\ EndIdx(w) \in Nat /\ EndIdx(w) <= NumTrials
          BY ThreadParts
        <5>2. \A w \in Threads : next[w] \in Nat
          BY DEF TypeOK
        <5> QED
          BY <5>1, <5>2 DEF Begun, Lesser, Trials
      <4>2. begun \subseteq Hits(Trials, b) /\ Hits(Trials, b) \in SUBSET Trials
        BY <4>1 DEF Hits
      <4>3. /\ Cardinality(begun) <= Cardinality(Hits(Trials, b))
            /\ Cardinality(begun) \in Nat /\ Cardinality(Hits(Trials, b)) \in Nat
        BY <4>2, TrialsFinite, FS_Subset
      <4>4. b \in Counters /\ out[b] \in Nat /\ out[b] <= Cardinality(begun)
        BY <2>1 DEF Counters, NeverTooMany
      <4> QED
        BY <4>3, <4>4
    <3> HIDE DEF h
    <3>2. IsFiniteSet(Pile(h, Buckets)) /\ Cardinality(Pile(h, Buckets)) = NumTrials
      BY HistogramOfAll DEF h
    <3>3. Cardinality(Pile(out, Buckets)) = NumTrials
      BY <3>1, FoldIs DEF Valid, HistSum
    <3>4. Pile(out, Buckets) \subseteq Pile(h, Buckets)
      BY <3>1 DEF Pile
    <3>5. Pile(h, Buckets) = Pile(out, Buckets)
      BY <3>2, <3>3, <3>4, FS_Subset
    <3>6. out[c] = h[c]
      <4> SUFFICES ASSUME out[c] # h[c] PROVE FALSE
        OBVIOUS
      <4>1. <<c, h[c]>> \in Pile(h, Buckets)
        BY <2>3, <3>1 DEF Pile
      <4>2. <<c, h[c]>> \notin Pile(out, Buckets)
        BY <2>3, <3>1 DEF Pile
      <4> QED
        BY <3>5, <4>1, <4>2
    <3> QED
      BY <2>3, <3>6 DEF h
  <2> QED
    BY <2>2, <2>3 DEF Counters
<1> QED
  BY TypeCorrect, NeverCountsTwice, <1>1, PTL

-----------------------------------------------------------------------------
(* The run comes to an end if whoever can go on does: somebody always can, *)
(* and nobody can go on for ever.                                          *)

\* The mutex has an owner only while that thread records a trial, there is a
\* thread for every pthread_create, and a trial increments three counters at
\* most.
LocksInStep ==
  /\ mutex # NoThread => worker[mutex] = "add"
  /\ syncMode # "mutex" => mutex = NoThread /\ \A w \in Threads : worker[w] # "lock"
  /\ \A w \in Threads : w < created => worker[w] # "absent"
  /\ \A w \in Threads : Len(pending[w]) \in 0 .. 3

LEMMA IncrementsShort ==
  ASSUME NEW t \in Trials
  PROVE  Len(Increments(t)) \in 2 .. 3
<1>1. CASE Risk[t] = RiskCollision
  <2>1. Increments(t) = <<"total_trials", "collision_count", Risk[t]>>
    BY <1>1, ConcatShort DEF Increments
  <2> QED
    BY <2>1
<1>2. CASE Risk[t] # RiskCollision
  <2>1. Increments(t) = <<"total_trials", Risk[t]>>
    BY <1>2, ConcatShort DEF Increments
  <2> QED
    BY <2>1
<1> QED
  BY <1>1, <1>2

LEMMA LocksStep == IInv /\ LocksInStep /\ [Next]_vars => LocksInStep'
<1> SUFFICES ASSUME IInv, LocksInStep, [Next]_vars PROVE LocksInStep'
  OBVIOUS
<1>0. TypeOK /\ NoThread \notin Threads
  BY ThreadAssumption DEF IInv
<1>1. ASSUME NEW w \in Threads, WorkerTrial(w) PROVE LocksInStep'
  <2>1. next[w] \in Trials
    BY <1>0, <1>1, AtTrial DEF WorkerTrial
  <2>2. Len(Increments(next[w])) \in 0 .. 3
    BY <2>1, IncrementsShort
  <2> QED
    BY <1>0, <1>1, <2>2 DEF LocksInStep, WorkerTrial, WorkerGoto, TypeOK, mainVars
<1>2. ASSUME NEW w \in Threads, WorkerLock(w) PROVE LocksInStep'
  BY <1>0, <1>2 DEF LocksInStep, WorkerLock, WorkerGoto, TypeOK, mainVars
<1>3. ASSUME NEW w \in Threads, WorkerLoad(w) PROVE LocksInStep'
  BY <1>0, <1>3 DEF LocksInStep, WorkerLoad, TypeOK, mainVars
<1>4. ASSUME NEW w \in Threads, WorkerStore(w) PROVE LocksInStep'
  <2>1. pending[w] \in Seq(Counters) /\ pending[w] # <<>>
    BY <1>0, <1>4 DEF IInv, ThreadsInStep, WorkerStore, TypeOK
  <2>2. Len(Tail(pending[w])) = Len(pending[w]) - 1 /\ Len(pending[w]) \in Nat \ {0}
    BY <2>1, HeadTailProperties, EmptySeq
  <2>3. Len(Tail(pending[w])) \in 0 .. 3
    BY <2>2 DEF LocksInStep
  <2> QED
    BY <1>0, <1>4, <2>3 DEF LocksInStep, WorkerStore, TypeOK, mainVars
<1>5. ASSUME NEW w \in Threads, WorkerRecorded(w) PROVE LocksInStep'
  BY <1>0, <1>5 DEF LocksInStep, WorkerRecorded, WorkerGoto, TypeOK, mainVars
<1>6. ASSUME NEW w \in Threads, WorkerExit(w) PROVE LocksInStep'
  BY <1>0, <1>6 DEF LocksInStep, WorkerExit, WorkerGoto, TypeOK, mainVars
<1>7. CASE MainCreate
  <2>1. created = index /\ index \in Threads /\ worker[index] = "absent"
    BY <1>0, <1>7, ThreadAssumption
       DEF IInv, JoinedSoFar, MainCreate, TypeOK, Threads
  <2>2. \A w \in Threads : w < created' => w = index \/ w < created
    BY <1>0, <1>7, <2>1 DEF MainCreate, TypeOK, Threads
  <2>3. \A w \in Threads : worker'[w] = IF w = index THEN "trial" ELSE worker[w]
    BY <1>0, <1>7 DEF MainCreate, TypeOK
  <2>4. mutex # NoThread => mutex \in Threads /\ mutex # index
    BY <1>0, <2>1 DEF LocksInStep, TypeOK
  <2> QED
    BY <1>7, <2>2, <2>3, <2>4 DEF LocksInStep, MainCreate
<1>8. CASE \/ MainNoMemory \/ MainSetup \/ MainCreateFails \/ MainCreated
           \/ MainJoin \/ MainJoined \/ MainMerge \/ MainReturn
  BY <1>8 DEF LocksInStep, MainNoMemory, MainSetup, MainCreateFails,
     MainCreated, MainJoin, MainJoined, MainMerge, MainReturn, workerVars
<1>9. CASE UNCHANGED vars
  BY <1>9 DEF LocksInStep, vars, workerVars, mainVars
<1> QED
  BY <1>1, <1>2, <1>3, <1>4, <1>5, <1>6, <1>7, <1>8, <1>9
     DEF Next, WorkerStep, MainStep

LEMMA LocksKept == Spec => []LocksInStep
<1>1. Init => LocksInStep
  BY ThreadAssumption DEF Init, LocksInStep, Threads
<1> QED
  BY <1>1, LocksStep, Invariance, PTL DEF Spec

\* What a thread waits for has come, or it waits for nothing: the conditions
\* of pthread_mutex_lock and pthread_join.
WorkerMoves(w) ==
  \/ worker[w] \in {"trial", "add"}
  \/ worker[w] = "lock" /\ mutex = NoThread

MainMoves == main = "join" /\ index < created => worker[index] = "exited"

\* Until run_thread_mode_metrics has returned, main or some thread can go on.
THEOREM NoStandstill ==
  Spec => [](main = "ended" \/ MainMoves \/ \E w \in Threads : WorkerMoves(w))
<1>1. IInv /\ LocksInStep => main = "ended" \/ MainMoves \/ \E w \in Threads : WorkerMoves(w)
  <2> SUFFICES ASSUME IInv, LocksInStep, ~MainMoves
               PROVE  \E w \in Threads : WorkerMoves(w)
    OBVIOUS
  <2>1. index \in Threads /\ worker[index] \in {"trial", "lock", "add"}
    BY ThreadAssumption DEF IInv, TypeOK, MainMoves, LocksInStep, Threads
  <2>2. CASE worker[index] = "lock" /\ mutex # NoThread
    <3>1. mutex \in Threads /\ worker[mutex] = "add"
      BY <2>2 DEF IInv, TypeOK, LocksInStep
    <3> QED
      BY <3>1 DEF WorkerMoves
  <2> QED
    BY <2>1, <2>2 DEF WorkerMoves
<1> QED
  BY <1>1, LocksKept, Invariance, PTL

\* The turns of the main thread's loops that are left.
MainLeft ==
  CASE main = "setup"  -> 5 * (NumThreads + 1) - index
    [] main = "create" -> 4 * (NumThreads + 1) - index
    [] main = "join"   -> 3 * (NumThreads + 1) - index
    [] main = "merge"  -> 2 * (NumThreads + 1) - index
    [] main = "post"   -> NumThreads + 1 - index
    [] main = "ended"  -> 0

\* A trial takes nine steps at most: itself, the lock, three increments of two
\* steps each, and going on.  How many of them thread w is past.
StepsOfTrial(w) ==
  CASE worker[w] = "lock" -> 1
    [] worker[w] = "add"  -> 8 - 2 * Len(pending[w]) + (IF loaded[w] = NoValue THEN 0 ELSE 1)
    [] OTHER              -> 0

WorkerLeft(w) ==
  CASE worker[w] = "absent" -> 9 * (EndIdx(w) - next[w]) + 2
    [] worker[w] = "exited" -> 0
    [] OTHER -> 9 * (EndIdx(w) - next[w]) + 1 - StepsOfTrial(w)

\* No run takes more steps from here.
StepsLeft == MainLeft + SumOf([w \in Threads |-> WorkerLeft(w)])

LeftOK ==
  /\ MainLeft \in Nat
  /\ \A w \in Threads : WorkerLeft(w) \in Nat

LEMMA ThreadsFinite == IsFiniteSet(Threads)
BY ThreadAssumption, FS_Interval DEF Threads

\* Where a thread can be in its part and in its trial.
LEMMA ThreadFacts ==
  ASSUME IInv, LocksInStep, NEW w \in Threads
  PROVE  /\ EndIdx(w) \in Nat /\ next[w] \in Nat /\ next[w] <= EndIdx(w)
         /\ worker[w] \in {"absent", "trial", "lock", "add", "exited"}
         /\ worker[w] \in {"lock", "add"} => next[w] < EndIdx(w)
         /\ pending[w] \in Seq(Counters) /\ Len(pending[w]) \in 0 .. 3
         /\ pending[w] = <<>> <=> Len(pending[w]) = 0
         /\ loaded[w] # NoValue => worker[w] = "add" /\ Len(pending[w]) >= 1
<1>1. TypeOK
  BY DEF IInv
<1>2. /\ EndIdx(w) \in Nat /\ next[w] \in Nat /\ next[w] <= EndIdx(w)
  BY <1>1, AtTrial
<1>3. pending[w] \in Seq(Counters) /\ Len(pending[w]) \in 0 .. 3
  BY <1>1 DEF TypeOK, LocksInStep
<1>4. pending[w] = <<>> <=> Len(pending[w]) = 0
  BY <1>3, EmptySeq
<1>5. worker[w] \in {"lock", "add"} => next[w] < EndIdx(w)
  BY DEF IInv, ThreadsInStep
<1>6. loaded[w] # NoValue => worker[w] = "add" /\ pending[w] # <<>>
  BY DEF IInv, ThreadsInStep
<1>7. worker[w] \in {"absent", "trial", "lock", "add", "exited"}
  BY <1>1 DEF TypeOK
<1>8. Len(pending[w]) # 0 => Len(pending[w]) >= 1
  BY <1>3
<1> QED
  BY <1>2, <1>3, <1>4, <1>5, <1>6, <1>7, <1>8

LEMMA LeftTypes == IInv /\ LocksInStep => LeftOK
<1> SUFFICES ASSUME IInv, LocksInStep PROVE LeftOK
  OBVIOUS
<1>1. MainLeft \in Nat
  <2>1. /\ NumThreads \in Nat /\ index \in Nat /\ index <= NumThreads
        /\ main \in {"setup", "create", "join", "merge", "post", "ended"}
    BY ThreadAssumption DEF IInv, TypeOK
  <2> QED
    BY <2>1 DEF MainLeft
<1>2. ASSUME NEW w \in Threads PROVE WorkerLeft(w) \in Nat
  <2> DEFINE left == EndIdx(w) - next[w]
             len == Len(pending[w])
  <2>1. /\ left \in Nat /\ len \in 0 .. 3
        /\ worker[w] \in {"absent", "trial", "lock", "add", "exited"}
        /\ worker[w] \in {"lock", "add"} => left >= 1
        /\ loaded[w] # NoValue => len >= 1
    BY ThreadFacts
  <2> HIDE DEF left, len
  <2>2. StepsOfTrial(w) =
          CASE worker[w] = "lock" -> 1
            [] worker[w] = "add"  -> 8 - 2 * len + (IF loaded[w] = NoValue THEN 0 ELSE 1)
            [] OTHER              -> 0
    BY DEF StepsOfTrial, len
  <2>3. /\ StepsOfTrial(w) \in 0 .. 9
        /\ worker[w] \notin {"lock", "add"} => StepsOfTrial(w) = 0
    BY <2>1, <2>2
  <2> QED
    BY <2>1, <2>3 DEF WorkerLeft, left
<1> QED
  BY <1>1, <1>2 DEF LeftOK

\* What a step changes: the main thread's part or that of one thread.
Shrinks(w) ==
  /\ \A v \in Threads \ {w} : WorkerLeft(v)' = WorkerLeft(v)
  /\ WorkerLeft(w)' <= WorkerLeft(w) /\ MainLeft' <= MainLeft
  /\ WorkerLeft(w)' < WorkerLeft(w) \/ MainLeft' < MainLeft

LEMMA ShrinkingIsLess ==
  ASSUME LeftOK, LeftOK', NEW w \in Threads, Shrinks(w)
  PROVE  StepsLeft' < StepsLeft
<1> DEFINE r == [v \in Threads |-> WorkerLeft(v)]
           s == [v \in Threads |-> WorkerLeft(v)']
<1>1. /\ MainLeft \in Nat /\ MainLeft' \in Nat
      /\ r \in [Threads -> Nat] /\ s \in [Threads -> Nat]
  BY DEF LeftOK
<1>2. \A v \in Threads \ {w} : s[v] = r[v]
  BY DEF Shrinks
<1>3. StepsLeft = MainLeft + SumOf(r) /\ StepsLeft' = MainLeft' + SumOf(s)
  BY DEF StepsLeft
<1>4. /\ s[w] <= r[w] /\ MainLeft' <= MainLeft
      /\ s[w] < r[w] \/ MainLeft' < MainLeft
  BY DEF Shrinks
<1> HIDE DEF r, s
<1>5. MainLeft' + SumOf(s) < MainLeft + SumOf(r)
  BY <1>1, <1>2, <1>4, ThreadsFinite, SumShrinks
<1> QED
  BY <1>3, <1>5

\* A step of a thread leaves it less to do.
LEMMA WorkerShrinks ==
  ASSUME IInv, LocksInStep, NEW w \in Threads, WorkerStep(w)
  PROVE  Shrinks(w)
<1>0. /\ TypeOK /\ pending[w] \in Seq(Counters) /\ Len(pending[w]) \in 0 .. 3
      /\ pending[w] = <<>> <=> Len(pending[w]) = 0
      /\ EndIdx(w) \in Nat /\ next[w] \in Nat /\ next[w] <= EndIdx(w)
  BY ThreadFacts DEF IInv
<1>1. MainLeft' = MainLeft /\ MainLeft \in Nat
  <2>1. UNCHANGED mainVars
    BY DEF WorkerStep, WorkerTrial, WorkerLock, WorkerLoad, WorkerStore,
       WorkerRecorded, WorkerExit
  <2> QED
    BY <2>1, LeftTypes DEF mainVars, MainLeft, LeftOK
<1>2. ASSUME NEW v \in Threads \ {w} PROVE WorkerLeft(v)' = WorkerLeft(v)
  <2>1. /\ worker'[v] = worker[v] /\ next'[v] = next[v]
        /\ pending'[v] = pending[v] /\ loaded'[v] = loaded[v]
    BY <1>0 DEF TypeOK, WorkerGoto, WorkerStep, WorkerTrial, WorkerLock,
       WorkerLoad, WorkerStore, WorkerRecorded, WorkerExit
  <2> QED
    BY <2>1 DEF WorkerLeft, StepsOfTrial
<1>3. loaded[w] # NoValue => worker[w] = "add" /\ Len(pending[w]) >= 1
  BY ThreadFacts
<1>4. worker[w] \in {"lock", "add"} => next[w] < EndIdx(w)
  BY ThreadFacts
<1>5. WorkerLeft(w) \in Nat
  BY LeftTypes DEF LeftOK
<1>6. worker[w] \in {"trial", "lock", "add"} =>
        WorkerLeft(w) = 9 * (EndIdx(w) - next[w]) + 1 - StepsOfTrial(w)
  BY DEF WorkerLeft
<1>7. worker'[w] \in {"trial", "lock", "add"} =>
        WorkerLeft(w)' = 9 * (EndIdx(w) - next'[w]) + 1 - StepsOfTrial(w)'
  BY DEF WorkerLeft
<1>8. worker[w] = "add" =>
        StepsOfTrial(w) = 8 - 2 * Len(pending[w]) + (IF loaded[w] = NoValue THEN 0 ELSE 1)
  BY DEF StepsOfTrial
<1>9. worker'[w] = "add" =>
        StepsOfTrial(w)' = 8 - 2 * Len(pending'[w]) + (IF loaded'[w] = NoValue THEN 0 ELSE 1)
  BY DEF StepsOfTrial
<1>10. WorkerLeft(w)' \in Int /\ WorkerLeft(w)' < WorkerLeft(w)
  <2>1. CASE WorkerTrial(w)
    <3>1. Len(Increments(next[w])) \in 2 .. 3
      BY <1>0, <2>1, AtTrial, IncrementsShort DEF WorkerTrial
    <3>2. /\ worker[w] = "trial" /\ worker'[w] \in {"lock", "add"}
          /\ next'[w] = next[w] /\ pending'[w] = Increments(next[w])
          /\ loaded[w] = NoValue /\ loaded'[w] = NoValue
      BY <1>0, <1>3, <2>1 DEF TypeOK, WorkerTrial, WorkerGoto
    <3>3. StepsOfTrial(w) = 0 /\ StepsOfTrial(w)' \in 1 .. 4
      <4> DEFINE len == Len(Increments(next[w]))
      <4>1. StepsOfTrial(w) = 0 /\ (worker'[w] = "lock" => StepsOfTrial(w)' = 1)
        BY <3>2 DEF StepsOfTrial
      <4>2. worker'[w] = "add" => StepsOfTrial(w)' = 8 - 2 * len
        BY <1>9, <3>2
      <4>3. len \in 2 .. 3
        BY <3>1
      <4> HIDE DEF len
      <4> QED
        BY <3>2, <4>1, <4>2, <4>3
    <3> QED
      BY <1>0, <1>6, <1>7, <3>2, <3>3, SMTT(30)
  <2>2. CASE WorkerLock(w)
    <3>1. /\ worker[w] = "lock" /\ worker'[w] = "add"
          /\ next'[w] = next[w] /\ pending'[w] = pending[w]
          /\ loaded[w] = NoValue /\ loaded'[w] = NoValue
      BY <1>0, <1>3, <2>2 DEF TypeOK, WorkerLock, WorkerGoto
    <3>2. StepsOfTrial(w) = 1 /\ StepsOfTrial(w)' \in 2 .. 8
      <4> DEFINE len == Len(pending[w])
      <4>1. StepsOfTrial(w) = 1
        BY <3>1 DEF StepsOfTrial
      <4>2. StepsOfTrial(w)' = 8 - 2 * len
        BY <1>9, <3>1
      <4>3. len \in 0 .. 3
        BY <1>0
      <4> HIDE DEF len
      <4> QED
        BY <4>1, <4>2, <4>3
    <3> QED
      BY <1>0, <1>6, <1>7, <3>1, <3>2, SMTT(30)
  <2>3. CASE WorkerLoad(w)
    <3>1. loaded'[w] # NoValue
      <4>1. loaded'[w] \in Nat
        <5>1. Head(pending[w]) \in Counters
          BY <1>0, <2>3, HeadTailProperties DEF WorkerLoad
        <5> QED
          BY <1>0, <2>3, <5>1 DEF TypeOK, WorkerLoad
      <4> QED
        BY <4>1, ThreadAssumption
    <3>2. /\ worker[w] = "add" /\ worker'[w] = "add"
          /\ next'[w] = next[w] /\ pending'[w] = pending[w]
          /\ loaded[w] = NoValue
      BY <1>0, <2>3 DEF TypeOK, WorkerLoad
    <3>3. /\ StepsOfTrial(w) \in Int /\ StepsOfTrial(w)' = StepsOfTrial(w) + 1
      <4>1. StepsOfTrial(w) = 8 - 2 * Len(pending[w])
        BY <1>8, <3>2
      <4>2. StepsOfTrial(w)' = 8 - 2 * Len(pending[w]) + 1
        BY <1>9, <3>1, <3>2
      <4> QED
        BY <1>0, <4>1, <4>2
    <3> QED
      BY <1>0, <1>6, <1>7, <3>2, <3>3, SMTT(30)
  <2>4. CASE WorkerStore(w)
    <3>1. /\ worker[w] = "add" /\ worker'[w] = "add"
          /\ next'[w] = next[w] /\ pending'[w] = Tail(pending[w])
          /\ loaded[w] # NoValue /\ loaded'[w] = NoValue
      BY <1>0, <2>4 DEF TypeOK, WorkerStore
    <3>2. Len(Tail(pending[w])) = Len(pending[w]) - 1
      BY <1>0, <1>3, <3>1, HeadTailProperties
    <3>3. /\ StepsOfTrial(w) \in Int /\ StepsOfTrial(w)' = StepsOfTrial(w) + 1
      <4>1. StepsOfTrial(w) = 8 - 2 * Len(pending[w]) + 1
        BY <1>8, <3>1
      <4>2. StepsOfTrial(w)' = 8 - 2 * (Len(pending[w]) - 1)
        BY <1>9, <3>1, <3>2
      <4>3. Len(pending[w]) \in 1 .. 3
        BY <1>0, <1>3, <3>1
      <4> QED
        BY <4>1, <4>2, <4>3
    <3> QED
      BY <1>0, <1>6, <1>7, <3>1, <3>3, SMTT(30)
  <2>5. CASE WorkerRecorded(w)
    <3>1. /\ worker[w] = "add" /\ worker'[w] = "trial"
          /\ next'[w] = next[w] + 1 /\ Len(pending[w]) = 0
          /\ loaded[w] = NoValue
      BY <1>0, <1>3, <2>5 DEF TypeOK, WorkerRecorded, WorkerGoto
    <3>2. StepsOfTrial(w) = 8 /\ StepsOfTrial(w)' = 0
      BY <3>1 DEF StepsOfTrial
    <3> QED
      BY <1>0, <1>6, <1>7, <3>1, <3>2, SMTT(30)
  <2>6. CASE WorkerExit(w)
    <3>1. worker[w] = "trial" /\ worker'[w] = "exited" /\ next[w] = EndIdx(w)
      BY <1>0, <2>6 DEF TypeOK, WorkerExit, WorkerGoto
    <3>2. StepsOfTrial(w) = 0
      BY <3>1 DEF StepsOfTrial
    <3>3. WorkerLeft(w)' = 0
      BY <3>1 DEF WorkerLeft
    <3> QED
      BY <1>0, <1>6, <3>1, <3>2, <3>3
  <2> QED
    BY <2>1, <2>2, <2>3, <2>4, <2>5, <2>6 DEF WorkerStep
<1> QED
  BY <1>1, <1>2, <1>5, <1>10 DEF Shrinks

\* A step of the main thread leaves it less to do; creating a thread is the
\* first step of that thread.
LEMMA MainShrinks ==
  ASSUME IInv, LeftOK, MainStep, NEW w \in Threads, main = "create" /\ index < NumThreads => w = index
  PROVE  Shrinks(w)
<1>0. TypeOK /\ MainLeft \in Nat
  BY DEF IInv, LeftOK
<1>1. /\ NumThreads \in Nat \ {0} /\ index \in Nat /\ index <= NumThreads
      /\ created \in Nat /\ created <= NumThreads
  BY <1>0, ThreadAssumption DEF TypeOK
<1>2. MainLeft' \in Int /\ MainLeft' < MainLeft
  <2>1. CASE MainNoMemory \/ MainSetup \/ MainCreateFails \/ MainCreated \/ MainReturn
    BY <1>1, <2>1 DEF MainNoMemory, MainSetup, MainCreateFails, MainCreated,
       MainReturn, MainGoto, MainLeft
  <2>2. CASE MainCreate \/ MainJoin
    BY <1>1, <2>2 DEF MainCreate, MainJoin, MainLeft
  <2>3. CASE MainJoined
    BY <1>1, <2>3 DEF MainJoined, MainGoto, MainLeft
  <2>4. CASE MainMerge
    BY <1>1, <2>4 DEF MainMerge, MainGoto, MainLeft
  <2> QED
    BY <2>1, <2>2, <2>3, <2>4 DEF MainStep
<1>3. CASE MainCreate
  <2>1. w = index /\ worker[w] = "absent"
    <3>1. w = index /\ created = index
      BY <1>3 DEF MainCreate, IInv, JoinedSoFar
    <3>2. w >= created
      BY <1>1, <3>1
    <3> QED
      BY <1>3, <3>1, <3>2 DEF MainCreate, IInv, JoinedSoFar
  <2>2. /\ worker'[w] = "trial" /\ UNCHANGED <<next, pending, loaded>>
        /\ \A v \in Threads \ {w} : worker'[v] = worker[v]
    BY <1>0, <1>3, <2>1 DEF MainCreate, TypeOK
  <2>3. \A v \in Threads \ {w} : WorkerLeft(v)' = WorkerLeft(v)
    BY <2>2 DEF WorkerLeft, StepsOfTrial
  <2>4. WorkerLeft(w)' = WorkerLeft(w) - 1 /\ WorkerLeft(w) \in Nat
    <3>1. EndIdx(w) \in Nat /\ next[w] \in Nat
      BY <1>0, AtTrial
    <3>2. /\ WorkerLeft(w) = 9 * (EndIdx(w) - next[w]) + 2
          /\ WorkerLeft(w)' = 9 * (EndIdx(w) - next[w]) + 1 - 0
      BY <2>1, <2>2 DEF WorkerLeft, StepsOfTrial
    <3>3. WorkerLeft(w) \in Nat
      BY DEF LeftOK
    <3> QED
      BY <3>1, <3>2, <3>3
  <2> QED
    BY <1>0, <1>2, <2>3, <2>4 DEF Shrinks
<1>4. CASE UNCHANGED workerVars
  <2>1. \A v \in Threads : WorkerLeft(v)' = WorkerLeft(v) /\ WorkerLeft(v) \in Nat
    BY <1>4 DEF workerVars, WorkerLeft, StepsOfTrial, LeftOK
  <2> QED
    BY <1>0, <1>2, <2>1 DEF Shrinks
<1> QED
  BY <1>3, <1>4 DEF MainStep, MainNoMemory, MainSetup, MainCreateFails,
     MainCreated, MainJoin, MainJoined, MainMerge, MainReturn

\* Every step leaves fewer to take, so nobody can go on for ever: with
\* NoStandstill, run_thread_mode_metrics returns if its threads are scheduled,
\* whichever pthread_create fails.
THEOREM StepsRunOut ==
  Spec => [](StepsLeft \in Nat) /\ [][StepsLeft' < StepsLeft]_vars
<1> DEFINE Inv == IInv /\ LocksInStep
<1>1. Inv => StepsLeft \in Nat
  <2> SUFFICES ASSUME Inv PROVE StepsLeft \in Nat
    OBVIOUS
  <2>1. LeftOK
    BY LeftTypes
  <2>2. SumOf([w \in Threads |-> WorkerLeft(w)]) \in Nat
    BY <2>1, ThreadsFinite, SumType DEF LeftOK
  <2> QED
    BY <2>1, <2>2 DEF LeftOK, StepsLeft
<1>2. Inv /\ Inv' /\ [Next]_vars => [StepsLeft' < StepsLeft]_vars
  <2> SUFFICES ASSUME Inv, Inv', [Next]_vars, ~UNCHANGED vars
               PROVE  StepsLeft' < StepsLeft
    OBVIOUS
  <2>1. LeftOK /\ LeftOK'
    BY LeftTypes, PTL
  <2>2. \E w \in Threads : Shrinks(w)
    <3>1. CASE MainStep
      <4>1. \E w \in Threads : main = "create" /\ index < NumThreads => w = index
        <5>1. 0 \in Threads /\ (index < NumThreads => index \in Threads)
          BY ThreadAssumption DEF Threads, IInv, TypeOK
        <5> QED
          BY <5>1
      <4> QED
        BY <2>1, <3>1, <4>1, MainShrinks
    <3> QED
      BY <3>1, WorkerShrinks DEF Next
  <2> QED
    BY <2>1, <2>2, ShrinkingIsLess
<1> QED
  BY <1>1, <1>2, LocksKept, Invariance, PTL DEF Spec

-----------------------------------------------------------------------------
(* The run as main() sees it.                                              *)

\* The threads whose trials are in *out: of a reduction those merged so far.
InOut ==
  IF syncMode # "reduce" THEN Threads
  ELSE IF main = "merge" THEN 0 .. index - 1
  ELSE IF Succeeding THEN Threads
  ELSE {}

Accounted == UNION {Recorded(w) : w \in InOut}

Status ==
  IF main # "ended" THEN "running" ELSE IF rc = 0 THEN "ok" ELSE "failed"

Run == INSTANCE SimulationRun
         WITH Pieces <- Trials, accounted <- Accounted, status <- Status

ImplementsRun == Run!Spec

\* After the joins no thread is left, also if the last ones were not created.
NobodyLeft ==
  /\ \A w \in Threads : w >= created => worker[w] = "absent"
  /\ main \in {"merge", "post", "ended"} =>
       \A w \in Threads : worker[w] \in {"absent", "exited"}

LEMMA NobodyStep == IInv /\ NobodyLeft /\ [Next]_vars => NobodyLeft'
<1> SUFFICES ASSUME IInv, NobodyLeft, [Next]_vars PROVE NobodyLeft'
  OBVIOUS
<1>0. TypeOK /\ JoinedSoFar
  BY DEF IInv
<1> USE ThreadAssumption DEF Threads
<1>1. ASSUME NEW w \in Threads, WorkerStep(w) PROVE NobodyLeft'
  <2>1. /\ UNCHANGED <<syncMode, mainVars>>
        /\ worker[w] \notin {"absent", "exited"}
        /\ \A v \in Threads : v # w => worker'[v] = worker[v]
    BY <1>0, <1>1
       DEF TypeOK, WorkerStep, WorkerTrial, WorkerLock, WorkerLoad,
           WorkerStore, WorkerRecorded, WorkerExit, WorkerGoto
  <2> QED
    BY <2>1 DEF NobodyLeft, mainVars
<1>2. CASE MainNoMemory
  BY <1>0, <1>2 DEF TypeOK, NobodyLeft, JoinedSoFar, MainNoMemory, MainGoto, workerVars
<1>3. CASE MainSetup \/ MainCreateFails \/ MainCreated \/ MainJoin
  BY <1>3 DEF NobodyLeft, MainSetup, MainCreateFails, MainCreated, MainJoin,
    MainGoto, workerVars
<1>4. CASE MainCreate
  BY <1>0, <1>4 DEF TypeOK, NobodyLeft, JoinedSoFar, MainCreate
<1>5. CASE MainJoined
  <2>1. \A w \in Threads : worker[w] \in {"absent", "exited"}
    BY <1>0, <1>5 DEF TypeOK, NobodyLeft, JoinedSoFar, MainJoined
  <2> QED
    BY <1>5, <2>1 DEF NobodyLeft, MainJoined, workerVars
<1>6. CASE MainMerge \/ MainReturn
  BY <1>6 DEF NobodyLeft, MainMerge, MainReturn, MainGoto, workerVars
<1>7. CASE UNCHANGED vars
  BY <1>7 DEF NobodyLeft, vars, mainVars, workerVars
<1> QED
  BY <1>1, <1>2, <1>3, <1>4, <1>5, <1>6, <1>7 DEF Next, MainStep

\* Only threads there are.
InOutOK == InOut \subseteq Threads

LEMMA InOutType == TypeOK => InOutOK
<1> SUFFICES ASSUME TypeOK, main = "merge" PROVE 0 .. index - 1 \subseteq Threads
  BY DEF InOutOK, InOut
<1>1. index \in 0 .. NumThreads /\ NumThreads \in Nat
  BY ThreadAssumption DEF TypeOK
<1> QED
  BY <1>1 DEF Threads

\* A step that only adds trials while the run is on.
LEMMA AccountOrStay ==
  ASSUME Status = "running", Status' = "running",
         Accounted \subseteq Accounted', Accounted' \subseteq Trials
  PROVE  [Run!Next]_(Run!vars)
<1> DEFINE new == Accounted' \ Accounted
<1>1. new \in SUBSET (Trials \ Accounted) /\ Accounted' = Accounted \cup new
  OBVIOUS
<1> HIDE DEF new
<1> QED
  BY <1>1 DEF Run!Next, Run!Account

\* Trials recorded lie in the threads' parts.
LEMMA RecordedInPart ==
  ASSUME TypeOK, NEW w \in Threads
  PROVE  Recorded(w) \subseteq Part(w) /\ Part(w) \subseteq Trials
<1>1. /\ StartIdx(w) \in Nat /\ EndIdx(w) \in Nat /\ Part(w) \subseteq Trials
  BY ThreadParts
<1>2. next[w] \in StartIdx(w) .. EndIdx(w)
  BY DEF TypeOK
<1> QED
  BY <1>1, <1>2 DEF Recorded, Part

\* A run past its joins without a failure has recorded every trial.
LEMMA AllAccounted ==
  ASSUME IInv, Succeeding, InOut = Threads
  PROVE  Accounted = Trials
<1>1. \A w \in Threads : Recorded(w) = Part(w)
  BY DEF IInv, JoinedSoFar, ThreadsInStep, Recorded, Part
<1>2. Accounted = UNION {Part(w) : w \in Threads}
  BY <1>1 DEF Accounted
<1> QED
  BY <1>2, ThreadParts

LEMMA StepOfRun ==
  IInv /\ IInv' /\ NobodyLeft /\ [Next]_vars => [Run!Next]_(Run!vars)
<1> SUFFICES ASSUME IInv, IInv', NobodyLeft, [Next]_vars
             PROVE  [Run!Next]_(Run!vars)
  OBVIOUS
<1>0. TypeOK /\ TypeOK' /\ JoinedSoFar /\ JoinedSoFar' /\ ThreadsInStep
  BY DEF IInv
<1>01. InOutOK /\ InOutOK'
  BY <1>0, InOutType, PTL
<1>1. ASSUME Accounted' = Accounted, Status' = Status
      PROVE  UNCHANGED Run!vars
  BY <1>1 DEF Run!vars
<1>2. Accounted' \subseteq Trials
  <2>1. InOut' \subseteq Threads
    BY <1>01 DEF InOutOK
  <2>2. \A w \in Threads : Recorded(w)' \subseteq Trials
    <3>1. ASSUME NEW w \in Threads PROVE Recorded(w)' \subseteq Trials
      <4>1. /\ StartIdx(w) \in Nat /\ EndIdx(w) \in Nat /\ Part(w) \subseteq Trials
        BY ThreadParts
      <4>2. next'[w] \in StartIdx(w) .. EndIdx(w)
        BY <1>0 DEF TypeOK
      <4> QED
        BY <4>1, <4>2 DEF Recorded, Part
    <3> QED
      BY <3>1
  <2> QED
    BY <2>1, <2>2 DEF Accounted
<1>3. ASSUME next' = next PROVE \A w : Recorded(w)' = Recorded(w)
  BY <1>3 DEF Recorded
<1>4. ASSUME NEW w \in Threads, WorkerStep(w) PROVE [Run!Next]_(Run!vars)
  <2>1. UNCHANGED <<syncMode, mainVars>> /\ worker[w] \notin {"absent", "exited"}
    BY <1>4 DEF WorkerStep, WorkerTrial, WorkerLock, WorkerLoad,
      WorkerStore, WorkerRecorded, WorkerExit
  <2>2. Status = "running" /\ Status' = "running"
    BY <2>1 DEF Status, NobodyLeft, mainVars
  <2>3. InOut' = InOut
    BY <2>1 DEF InOut, Succeeding, mainVars
  <2>4. \A v \in Threads : Recorded(v) \subseteq Recorded(v)'
    <3>1. ASSUME NEW v \in Threads
          PROVE  next[v] \in Int /\ next'[v] \in Int /\ next[v] <= next'[v]
                 /\ StartIdx(v) \in Int
      <4>1. StartIdx(v) \in Nat /\ EndIdx(v) \in Nat
        BY ThreadParts
      <4>2. next[v] \in Int
        BY <1>0, <4>1 DEF TypeOK
      <4>3. next'[v] = next[v] \/ next'[v] = next[v] + 1
        BY <1>0, <1>4 DEF TypeOK, WorkerStep, WorkerTrial, WorkerLock, WorkerLoad,
          WorkerStore, WorkerRecorded, WorkerExit
      <4> QED
        BY <4>1, <4>2, <4>3
    <3> QED
      BY <3>1 DEF Recorded
  <2>5. InOut \subseteq Threads
    BY <1>01 DEF InOutOK
  <2>6. Accounted \subseteq Accounted'
    BY <2>3, <2>4, <2>5 DEF Accounted
  <2> QED
    BY <1>2, <2>2, <2>6, AccountOrStay
<1>5. CASE MainNoMemory
  <2>1. \A w \in Threads : Recorded(w) = {}
    <3>1. ASSUME NEW w \in Threads PROVE Recorded(w) = {}
      <4>1. worker[w] = "absent" /\ created = 0
        BY <1>0, <1>5, ThreadAssumption DEF NobodyLeft, JoinedSoFar, MainNoMemory, Threads
      <4>2. next[w] = StartIdx(w) /\ StartIdx(w) \in Nat
        BY <1>0, <4>1, ThreadParts DEF ThreadsInStep
      <4> QED
        BY <4>2 DEF Recorded
    <3> QED
      BY <3>1
  <2>2. InOut \subseteq Threads /\ InOut' \subseteq Threads
    BY <1>01 DEF InOutOK
  <2>3. next' = next
    BY <1>5 DEF MainNoMemory, workerVars
  <2>4. Accounted = {} /\ Accounted' = {}
    BY <1>3, <2>1, <2>2, <2>3 DEF Accounted
  <2>5. Status = "running" /\ Status' = "failed"
    BY <1>5 DEF Status, MainNoMemory, MainGoto
  <2> QED
    BY <2>4, <2>5 DEF Run!Next, Run!GiveUp
<1>6. CASE MainSetup \/ MainCreate \/ MainCreateFails \/ MainCreated \/ MainJoin
  <2>1. next' = next
    BY <1>6 DEF MainSetup, MainCreate, MainCreateFails, MainCreated, MainJoin, workerVars
  <2>2. InOut' = InOut /\ Status' = Status
    BY <1>6 DEF InOut, Succeeding, Status, MainSetup, MainCreate, MainCreateFails,
      MainCreated, MainJoin, MainGoto
  <2> QED
    BY <1>1, <1>3, <2>1, <2>2 DEF Accounted
<1>7. CASE MainJoined
  <2>1. next' = next
    BY <1>7 DEF MainJoined, workerVars
  <2>2. InOut' = InOut /\ Status' = Status
    BY <1>7 DEF InOut, Succeeding, Status, MainJoined, MainGoto
  <2> QED
    BY <1>1, <1>3, <2>1, <2>2 DEF Accounted
<1>8. CASE MainMerge
  <2>1. next' = next
    BY <1>8 DEF MainMerge, workerVars
  <2>2. InOut \subseteq InOut'
    <3>1. /\ syncMode = "reduce" /\ syncMode' = "reduce" /\ main = "merge" /\ ~failed
          /\ index \in 0 .. NumThreads /\ InOut = 0 .. index - 1
      BY <1>0, <1>8 DEF TypeOK, JoinedSoFar, InOut, Succeeding, MainMerge
    <3>2. CASE index < NumThreads
      <4>1. InOut' = 0 .. index
        BY <1>0, <1>8, <3>1, <3>2 DEF InOut, MainMerge, TypeOK
      <4> QED
        BY <3>1, <4>1
    <3>3. CASE ~(index < NumThreads)
      <4>1. InOut' = Threads
        BY <1>8, <3>1, <3>3 DEF InOut, Succeeding, MainMerge, MainGoto
      <4> QED
        BY <1>01, <4>1 DEF InOutOK
    <3> QED
      BY <3>2, <3>3
  <2>3. Accounted \subseteq Accounted'
    BY <1>3, <2>1, <2>2 DEF Accounted
  <2>4. Status = "running" /\ Status' = "running"
    BY <1>8 DEF Status, MainMerge, MainGoto
  <2> QED
    BY <1>2, <2>3, <2>4, AccountOrStay
<1>9. CASE MainReturn
  <2>1. next' = next
    BY <1>9 DEF MainReturn, workerVars
  <2>2. InOut' = InOut
    BY <1>9 DEF InOut, Succeeding, MainReturn, MainGoto
  <2>3. Accounted' = Accounted
    BY <1>3, <2>1, <2>2 DEF Accounted
  <2>4. CASE failed
    <3>1. Status = "running" /\ Status' = "failed"
      BY <1>9, <2>4 DEF Status, MainReturn, MainGoto
    <3> QED
      BY <2>3, <3>1 DEF Run!Next, Run!GiveUp
  <2>5. CASE ~failed
    <3>1. Status = "running" /\ Status' = "ok"
      BY <1>9, <2>5 DEF Status, MainReturn, MainGoto
    <3>2. Succeeding /\ InOut = Threads
      BY <1>9, <2>5 DEF MainReturn, Succeeding, InOut
    <3> QED
      BY <2>3, <3>1, <3>2, AllAccounted DEF Run!Next, Run!Succeed
  <2> QED
    BY <2>4, <2>5
<1>10. CASE UNCHANGED vars
  <2>1. next' = next /\ InOut' = InOut /\ Status' = Status
    BY <1>10 DEF vars, mainVars, workerVars, InOut, Succeeding, Status
  <2> QED
    BY <1>1, <1>3, <2>1 DEF Accounted
<1> QED
  BY <1>4, <1>5, <1>6, <1>7, <1>8, <1>9, <1>10 DEF Next, MainStep

\* run_thread_mode_metrics implements SimulationRun, with the trials as the
\* pieces: it returns 0 only with every trial recorded and, in a reduction,
\* merged, and no thread records one after the return, also after a failure.
THEOREM ImplementsSimulationRun == Spec => ImplementsRun
<1>1. Init => Run!Init /\ NobodyLeft
  <2> SUFFICES ASSUME Init PROVE Run!Init /\ NobodyLeft
    OBVIOUS
  <2>1. \A w \in Threads : Recorded(w) = {}
    <3>1. \A w \in Threads : next[w] = StartIdx(w) /\ StartIdx(w) \in Nat
      BY ThreadParts DEF Init
    <3> QED
      BY <3>1 DEF Recorded
  <2>2. InOut \subseteq Threads
    BY DEF InOut, Init, Succeeding
  <2>3. Accounted = {}
    BY <2>1, <2>2 DEF Accounted
  <2>4. Status = "running" /\ NobodyLeft
    BY DEF Init, Status, NobodyLeft
  <2> QED
    BY <2>3, <2>4 DEF Run!Init
<1> QED
  BY <1>1, StepOfRun, NobodyStep, Invariance, PTL DEF ImplementsRun, Run!Spec, Spec

\* What is accounted for is what *out has counted, in a reduction at any time,
\* under result_mutex whenever no thread is between lock and unlock.
THEOREM OutIsAccounted ==
  Spec => [](\/ syncMode = "reduce"
             \/ syncMode = "mutex" /\ \A w \in Threads : worker[w] # "add"
             => out = ResultOf(Accounted))
<1>1. ASSUME IInv, \/ syncMode = "reduce"
                   \/ syncMode = "mutex" /\ \A w \in Threads : worker[w] # "add"
      PROVE  out = ResultOf(Accounted)
  <2>0. TypeOK /\ JoinedSoFar /\ SharedCounts /\ LocalCounts
    BY <1>1 DEF IInv
  <2>1. ASSUME NEW c \in Counters PROVE out[c] = Cardinality(CountedBy(InOut, c))
    <3>1. CASE syncMode = "mutex"
      BY <2>0, <2>1, <3>1 DEF SharedCounts, InOut
    <3>2. CASE syncMode = "reduce" /\ Succeeding
      BY <2>0, <2>1, <3>2 DEF LocalCounts, MergedSoFar, InOut
    <3>3. CASE syncMode = "reduce" /\ ~Succeeding
      <4>1. out[c] = 0
        BY <2>0, <2>1, <3>3 DEF LocalCounts, MergedSoFar, ResultZero
      <4>2. InOut = {}
        BY <3>3 DEF InOut, Succeeding
      <4>3. CountedBy(InOut, c) = {}
        BY <4>2 DEF CountedBy
      <4> QED
        BY <4>1, <4>3, FS_EmptySet
    <3> QED
      BY <1>1, <3>1, <3>2, <3>3
  <2>2. \A w \in InOut : worker[w] # "add"
    BY <1>1, <2>0, ThreadAssumption
       DEF TypeOK, JoinedSoFar, InOut, Succeeding, Threads
  <2>3. ASSUME NEW c PROVE CountedBy(InOut, c) = Hits(Accounted, c)
    <3>1. \A w \in InOut : Counted(w, c) = Hits(Recorded(w), c)
      BY <2>2 DEF Counted, Current
    <3>2. CountedBy(InOut, c) = UNION {Hits(Recorded(w), c) : w \in InOut}
      BY <3>1 DEF CountedBy
    <3> QED
      BY <3>2 DEF Accounted, Hits
  <2>4. out \in [Counters -> Nat]
    BY <2>0 DEF TypeOK
  <2> QED
    BY <2>1, <2>3, <2>4 DEF ResultOf
<1> QED
  BY <1>1, Invariance, PTL

=============================================================================
