---------------------------- MODULE MonitorQueue ----------------------------
(***************************************************************************)
(* The bounded queue of src/src/task_queue.c, and line for line that of    *)
(* src/src/merge_queue.c: a ring buffer guarded by one mutex, with a       *)
(* condition variable not_empty for consumers and not_full for producers,  *)
(* and a close that wakes everybody.                                       *)
(*                                                                         *)
(* Every thread is a small program counter.  Taking the mutex, the body of *)
(* the critical section, the signal and the release are separate steps, so *)
(* other threads run in between wherever the code lets them.  A thread     *)
(* asleep on a condition variable has a pc of its own ("pushAsleep",       *)
(* "popAsleep"); being signalled makes it compete for the mutex again,     *)
(* after which it re-evaluates the condition of its while loop.            *)
(*                                                                         *)
(* Producers push Load items each and ignore the result, as                *)
(* preprocessor_thread and pipeline_worker do; consumers pop until they    *)
(* are told the queue is over; closers close it once, at any time.         *)
(***************************************************************************)
EXTENDS Integers, FiniteSets

CONSTANTS
  Producers, Consumers, Closers,  \* the threads, by the call they make
  Capacity,                       \* q->capacity
  Load,                           \* pushes made by each producer
  MaxSpurious,                    \* bound on spurious wake-ups in a behaviour
  NoThread,                       \* the mutex has no owner
  NoItem                          \* an unused slot of the buffer

Threads == Producers \cup Consumers \cup Closers
Items   == Producers \X (1 .. Load)
Slots   == 0 .. Capacity - 1

\* task_queue_init refuses capacity <= 0; threads have one role each, and
\* there are finitely many of them.
ASSUME QueueAssumption ==
  /\ IsFiniteSet(Producers) /\ IsFiniteSet(Consumers) /\ IsFiniteSet(Closers)
  /\ Capacity \in Nat \ {0}
  /\ Load \in Nat \ {0}
  /\ MaxSpurious \in Nat
  /\ Producers \cap Consumers = {}
  /\ Closers \cap (Producers \cup Consumers) = {}
  /\ NoThread \notin Threads
  /\ NoItem \notin Items

VARIABLES
  buffer, head, tail, count, closed,  \* the fields of the queue
  mutex,                              \* the owner of q->mutex
  pc,                                 \* where each thread is
  sent,                               \* pushes each producer has returned from
  out,                                \* the last item stored through *out
  spurious                            \* spurious wake-ups so far

vars == <<buffer, head, tail, count, closed, mutex, pc, sent, out, spurious>>

ring == <<buffer, head, tail, count>>

-----------------------------------------------------------------------------
(* Program counters. *)

PushPc   == {"push", "pushTest", "pushAsleep", "pushAwake",
             "pushSignal", "pushUnlock", "done"}
PopPc    == {"pop", "popTest", "popAsleep", "popAwake",
             "popSignal", "popUnlock", "done"}
ClosePc  == {"close", "closeSet", "closeWakeConsumers",
             "closeWakeProducers", "closeUnlock", "done"}

\* The pcs of a thread that owns the mutex.
Inside   == {"pushTest", "pushSignal", "pushUnlock",
             "popTest", "popSignal", "popUnlock",
             "closeSet", "closeWakeConsumers", "closeWakeProducers",
             "closeUnlock"}

\* The wait sets of the two condition variables.
WaitingNotFull  == {p \in Producers : pc[p] = "pushAsleep"}
WaitingNotEmpty == {c \in Consumers : pc[c] = "popAsleep"}

Goto(t, label) == pc' = [pc EXCEPT ![t] = label]

\* pthread_cond_signal: if anybody waits, one waiter, any of them, is woken.
Signal(t, label, waiting, awake) ==
  \/ /\ waiting = {}
     /\ Goto(t, label)
  \/ \E w \in waiting : pc' = [pc EXCEPT ![t] = label, ![w] = awake]

\* pthread_cond_broadcast: every waiter is woken.
Broadcast(t, label, waiting, awake) ==
  pc' = [u \in Threads |-> IF u = t THEN label
                           ELSE IF u \in waiting THEN awake
                           ELSE pc[u]]

-----------------------------------------------------------------------------
(* Faulty variants of the definitions below; nothing here uses them.  Each *)
(* is a slip the code could contain, and some property tells it apart.     *)

\* The test for a full queue is off by one.
MustWaitToPushLate == ~closed /\ count > Capacity

\* A consumer gives up as soon as the queue is closed.
PopIsOverEarly == closed

\* A push that finds a free slot does not look at closed.
PushIsOverNever == FALSE

\* The critical section of push is entered without the mutex.
PushLockIgnoresOwner(p) ==
  /\ pc[p] \in {"push", "pushAwake"}
  /\ mutex' = p
  /\ Goto(p, "pushTest")
  /\ UNCHANGED <<ring, closed, sent, out, spurious>>

\* Close wakes only one consumer.
CloseWakeConsumersOne(t) ==
  /\ pc[t] = "closeWakeConsumers"
  /\ Signal(t, "closeWakeProducers", WaitingNotEmpty, "popAwake")
  /\ UNCHANGED <<ring, closed, mutex, sent, out, spurious>>

\* A consumer that is told the queue is over tries again.
PopDrainedRetries(c) ==
  /\ pc[c] = "popTest"
  /\ count = 0 /\ closed
  /\ mutex' = NoThread
  /\ Goto(c, "pop")
  /\ UNCHANGED <<ring, closed, sent, out, spurious>>

\* Push signals only when the queue was empty before.
PushSignalWhenFirst(p) ==
  /\ pc[p] = "pushSignal"
  /\ \/ count = 1 /\ Signal(p, "pushUnlock", WaitingNotEmpty, "popAwake")
     \/ count # 1 /\ Goto(p, "pushUnlock")
  /\ UNCHANGED <<ring, closed, mutex, sent, out, spurious>>

-----------------------------------------------------------------------------
(* The queue. *)

\* An index of the ring, advanced modulo the capacity.
Slot(i) == i % Capacity

\* The conditions of the two while loops and of the two early returns.
MustWaitToPush == ~closed /\ count = Capacity
MustWaitToPop  == ~closed /\ count = 0
PushIsOver     == closed
PopIsOver      == count = 0 /\ closed

Init ==
  /\ buffer = [i \in Slots |-> NoItem]
  /\ head = 0
  /\ tail = 0
  /\ count = 0
  /\ closed = FALSE
  /\ mutex = NoThread
  /\ pc = [t \in Threads |-> IF t \in Producers THEN "push"
                             ELSE IF t \in Consumers THEN "pop"
                             ELSE "close"]
  /\ sent = [p \in Producers |-> 0]
  /\ out = [c \in Consumers |-> NoItem]
  /\ spurious = 0

(* ---- task_queue_push ---------------------------------------------------*)

\* pthread_mutex_lock on entry, or inside pthread_cond_wait after a wake-up.
PushLock(p) ==
  /\ pc[p] \in {"push", "pushAwake"}
  /\ mutex = NoThread
  /\ mutex' = p
  /\ Goto(p, "pushTest")
  /\ UNCHANGED <<ring, closed, sent, out, spurious>>

\* pthread_cond_wait(&q->not_full, &q->mutex) releases the mutex and sleeps.
PushWait(p) ==
  /\ pc[p] = "pushTest"
  /\ MustWaitToPush
  /\ mutex' = NoThread
  /\ Goto(p, "pushAsleep")
  /\ UNCHANGED <<ring, closed, sent, out, spurious>>

\* The producer returns to its caller, which makes its next push if any.
PushReturn(p) ==
  /\ mutex' = NoThread
  /\ sent' = [sent EXCEPT ![p] = @ + 1]
  /\ Goto(p, IF sent[p] + 1 < Load THEN "push" ELSE "done")

\* The queue is closed: unlock and return 0, the item is not stored.
PushRefuse(p) ==
  /\ pc[p] = "pushTest"
  /\ ~MustWaitToPush
  /\ PushIsOver
  /\ PushReturn(p)
  /\ UNCHANGED <<ring, closed, out, spurious>>

PushStore(p) ==
  /\ pc[p] = "pushTest"
  /\ ~MustWaitToPush
  /\ ~PushIsOver
  /\ buffer' = [buffer EXCEPT ![tail] = <<p, sent[p] + 1>>]
  /\ tail' = Slot(tail + 1)
  /\ count' = count + 1
  /\ Goto(p, "pushSignal")
  /\ UNCHANGED <<head, closed, mutex, sent, out, spurious>>

\* pthread_cond_signal(&q->not_empty), still holding the mutex.
PushSignal(p) ==
  /\ pc[p] = "pushSignal"
  /\ Signal(p, "pushUnlock", WaitingNotEmpty, "popAwake")
  /\ UNCHANGED <<ring, closed, mutex, sent, out, spurious>>

PushUnlock(p) ==
  /\ pc[p] = "pushUnlock"
  /\ PushReturn(p)
  /\ UNCHANGED <<ring, closed, out, spurious>>

(* ---- task_queue_pop ----------------------------------------------------*)

PopLock(c) ==
  /\ pc[c] \in {"pop", "popAwake"}
  /\ mutex = NoThread
  /\ mutex' = c
  /\ Goto(c, "popTest")
  /\ UNCHANGED <<ring, closed, sent, out, spurious>>

PopWait(c) ==
  /\ pc[c] = "popTest"
  /\ MustWaitToPop
  /\ mutex' = NoThread
  /\ Goto(c, "popAsleep")
  /\ UNCHANGED <<ring, closed, sent, out, spurious>>

\* Closed and empty: unlock and return 0, which ends the consumer's loop.
PopDrained(c) ==
  /\ pc[c] = "popTest"
  /\ ~MustWaitToPop
  /\ PopIsOver
  /\ mutex' = NoThread
  /\ Goto(c, "done")
  /\ UNCHANGED <<ring, closed, sent, out, spurious>>

PopTake(c) ==
  /\ pc[c] = "popTest"
  /\ ~MustWaitToPop
  /\ ~PopIsOver
  /\ out' = [out EXCEPT ![c] = buffer[head]]
  /\ head' = Slot(head + 1)
  /\ count' = count - 1
  /\ Goto(c, "popSignal")
  /\ UNCHANGED <<buffer, tail, closed, mutex, sent, spurious>>

PopSignal(c) ==
  /\ pc[c] = "popSignal"
  /\ Signal(c, "popUnlock", WaitingNotFull, "pushAwake")
  /\ UNCHANGED <<ring, closed, mutex, sent, out, spurious>>

\* Return 1: the consumer uses the item and comes back for the next one.
PopUnlock(c) ==
  /\ pc[c] = "popUnlock"
  /\ mutex' = NoThread
  /\ Goto(c, "pop")
  /\ UNCHANGED <<ring, closed, sent, out, spurious>>

(* ---- task_queue_close --------------------------------------------------*)

CloseLock(t) ==
  /\ pc[t] = "close"
  /\ mutex = NoThread
  /\ mutex' = t
  /\ Goto(t, "closeSet")
  /\ UNCHANGED <<ring, closed, sent, out, spurious>>

CloseSet(t) ==
  /\ pc[t] = "closeSet"
  /\ closed' = TRUE
  /\ Goto(t, "closeWakeConsumers")
  /\ UNCHANGED <<ring, mutex, sent, out, spurious>>

CloseWakeConsumers(t) ==
  /\ pc[t] = "closeWakeConsumers"
  /\ Broadcast(t, "closeWakeProducers", WaitingNotEmpty, "popAwake")
  /\ UNCHANGED <<ring, closed, mutex, sent, out, spurious>>

CloseWakeProducers(t) ==
  /\ pc[t] = "closeWakeProducers"
  /\ Broadcast(t, "closeUnlock", WaitingNotFull, "pushAwake")
  /\ UNCHANGED <<ring, closed, mutex, sent, out, spurious>>

CloseUnlock(t) ==
  /\ pc[t] = "closeUnlock"
  /\ mutex' = NoThread
  /\ Goto(t, "done")
  /\ UNCHANGED <<ring, closed, sent, out, spurious>>

(* ---- the condition variables ------------------------------------------ *)

\* POSIX lets pthread_cond_wait return without a signal.
SpuriousWakeup(t) ==
  /\ spurious < MaxSpurious
  /\ \/ t \in WaitingNotFull /\ Goto(t, "pushAwake")
     \/ t \in WaitingNotEmpty /\ Goto(t, "popAwake")
  /\ spurious' = spurious + 1
  /\ UNCHANGED <<ring, closed, mutex, sent, out>>

-----------------------------------------------------------------------------

PushStep(p) ==
  \/ PushLock(p) \/ PushWait(p) \/ PushRefuse(p)
  \/ PushStore(p) \/ PushSignal(p) \/ PushUnlock(p)

PopStep(c) ==
  \/ PopLock(c) \/ PopWait(c) \/ PopDrained(c)
  \/ PopTake(c) \/ PopSignal(c) \/ PopUnlock(c)

CloseStep(t) ==
  \/ CloseLock(t) \/ CloseSet(t) \/ CloseWakeConsumers(t)
  \/ CloseWakeProducers(t) \/ CloseUnlock(t)

\* Every call has returned for good; only stuttering is left.
AllReturned == \A t \in Threads : pc[t] = "done"

Terminated == AllReturned /\ UNCHANGED vars

Next ==
  \/ \E p \in Producers : PushStep(p)
  \/ \E c \in Consumers : PopStep(c)
  \/ \E t \in Closers : CloseStep(t)
  \/ \E t \in Producers \cup Consumers : SpuriousWakeup(t)
  \/ Terminated

Spec == Init /\ [][Next]_vars

(***************************************************************************)
(* The scheduler runs every thread that can run.  Nothing is assumed of    *)
(* the order in which waiters get the mutex, nor of spurious wake-ups.     *)
(***************************************************************************)
Fairness ==
  /\ \A p \in Producers : WF_vars(PushStep(p))
  /\ \A c \in Consumers : WF_vars(PopStep(c))
  /\ \A t \in Closers : WF_vars(CloseStep(t))

FairSpec == Spec /\ Fairness

-----------------------------------------------------------------------------
(* Properties. *)

\* The fields of the queue stay within the ranges the C code relies on:
\* head and tail index the buffer, count never exceeds the capacity.
TypeOK ==
  /\ buffer \in [Slots -> Items \cup {NoItem}]
  /\ head \in Slots
  /\ tail \in Slots
  /\ count \in 0 .. Capacity
  /\ closed \in BOOLEAN
  /\ mutex \in Threads \cup {NoThread}
  /\ pc \in [Threads -> PushPc \cup PopPc \cup ClosePc]
  /\ \A p \in Producers : pc[p] \in PushPc
  /\ \A c \in Consumers : pc[c] \in PopPc
  /\ \A t \in Closers : pc[t] \in ClosePc
  /\ sent \in [Producers -> 0 .. Load]
  /\ out \in [Consumers -> Items \cup {NoItem}]
  /\ spurious \in 0 .. MaxSpurious

\* A thread is between lock and unlock exactly when it owns the mutex, so
\* no two threads touch head, tail, count, closed or the buffer together,
\* also after a wait that gave the mutex away in the middle of a call.
OneInside ==
  \A t \in Threads : (pc[t] \in Inside) <=> (mutex = t)

\* The three redundant positions agree: count items lie between head and
\* tail, whatever pushes and pops of several threads came before.
RingAligned == tail = Slot(head + count)

\* Once the queue is closed and the closer has let the mutex go, nobody
\* sleeps in push or pop, and nobody goes to sleep later.
NoSleeperAfterClose ==
  closed /\ mutex = NoThread => WaitingNotFull = {} /\ WaitingNotEmpty = {}

\* When one consumer has been told that the queue is over, the queue is
\* closed and empty: nothing is left behind for a consumer that is gone.
DrainIsFinal ==
  \A c \in Consumers : pc[c] = "done" => closed /\ count = 0

\* No wake-up is lost.  While a consumer sleeps on not_empty there are, for
\* every item in the queue, a consumer on its way to take it or a producer
\* about to signal; likewise for producers asleep on not_full and free slots.
EnoughWakeups ==
  /\ WaitingNotEmpty # {} =>
       count <= Cardinality({c \in Consumers : pc[c] \in {"popAwake", "popTest"}})
              + Cardinality({p \in Producers : pc[p] = "pushSignal"})
  /\ WaitingNotFull # {} =>
       Capacity - count
           <= Cardinality({p \in Producers : pc[p] \in {"pushAwake", "pushTest"}})
            + Cardinality({c \in Consumers : pc[c] = "popSignal"})

\* The items held, oldest first: the count slots from head on.
Contents == [k \in 1 .. count |-> buffer[Slot(head + k - 1)]]

Channel == INSTANCE BoundedChannel
             WITH items <- Contents,
                  drained <- {c \in Consumers : pc[c] = "done"}

\* The monitor implements the closeable bounded channel: each push that
\* stores, each pop that takes, each 0 returned by pop and each close is one
\* atomic operation of the channel, everything else is invisible.
ImplementsChannel == Channel!Spec

\* Every push, pop and close returns: once the queue is closed no thread is
\* left asleep or waiting for the mutex.
EveryCallReturns == <>AllReturned

=============================================================================
