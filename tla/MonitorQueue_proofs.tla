----------------------- MODULE MonitorQueue_proofs -----------------------
(***************************************************************************)
(* Proofs about MonitorQueue for any number of threads, any capacity, any  *)
(* load and any number of spurious wake-ups.                               *)
(*                                                                         *)
(* IInv is the inductive invariant.  What it adds to the checked           *)
(* properties: a producer that is not done has pushes left (PushesLeft),   *)
(* and after a close a sleeper is always one the closer, which still owns  *)
(* the mutex, is about to wake (BroadcastPending).  EnoughWakeups is       *)
(* inductive with them: EnoughStep counts threads by their labels, and     *)
(* every step moves one thread.  NoDeadlock follows: once a closer is      *)
(* through, nobody is left asleep.  The refinement is proved from the same *)
(* invariant: Window says which cells of the ring the abstract queue       *)
(* consists of.  StepsRunOut: a sum over the threads goes down in every    *)
(* step, so nobody spins.                                                  *)
(***************************************************************************)
EXTENDS MonitorQueue, Partition_proofs, SequenceTheorems

\* A producer still has a push to make until it is done.
PushesLeft == \A p \in Producers : pc[p] # "done" => sent[p] < Load

\* After closed is set, whoever sleeps is covered by a broadcast to come.
BroadcastPending ==
  closed =>
    /\ WaitingNotEmpty # {} =>
         \E t \in Closers : pc[t] = "closeWakeConsumers"
    /\ WaitingNotFull # {} =>
         \E t \in Closers : pc[t] \in {"closeWakeConsumers", "closeWakeProducers"}

\* The inductive invariant.
IInv ==
  /\ TypeOK
  /\ PushesLeft
  /\ OneInside
  /\ RingAligned
  /\ BroadcastPending
  /\ DrainIsFinal
  /\ EnoughWakeups

USE DEF PushPc, PopPc, ClosePc, Threads

\* The index arithmetic of the ring, (i + 1) % capacity.
LEMMA SlotInRing == \A i \in Nat : Slot(i) \in Slots
  BY QueueAssumption, SMT DEF Slot, Slots

\* An index wraps at most once, so the remainder is a subtraction.
LEMMA SlotValue ==
  ASSUME NEW i \in 0 .. 2 * Capacity - 1
  PROVE  Slot(i) = IF i < Capacity THEN i ELSE i - Capacity
<1>1. CASE i < Capacity
  BY <1>1, QueueAssumption, SMT DEF Slot
<1>2. CASE i >= Capacity
  BY <1>2, QueueAssumption, SMT DEF Slot
<1> QED
  BY <1>1, <1>2, QueueAssumption

\* Advancing the tail by one slot: the store of task_queue_push.
LEMMA SlotOfNext ==
  ASSUME NEW h \in Slots, NEW n \in 0 .. Capacity - 1
  PROVE  Slot(Slot(h + n) + 1) = Slot(h + (n + 1))
<1>1. /\ h + n \in 0 .. 2 * Capacity - 1
      /\ h + (n + 1) \in 0 .. 2 * Capacity - 1
  BY QueueAssumption DEF Slots
<1>2. Slot(h + n) \in Slots
  BY <1>1, SlotInRing
<1>3. Slot(h + n) + 1 \in 0 .. 2 * Capacity - 1
  BY <1>2, QueueAssumption DEF Slots
<1> QED
  BY <1>1, <1>2, <1>3, SlotValue, QueueAssumption DEF Slots

\* Advancing the head by one slot: the take of task_queue_pop.
LEMMA SlotOfRest ==
  ASSUME NEW h \in Slots, NEW n \in 1 .. Capacity
  PROVE  Slot(Slot(h + 1) + (n - 1)) = Slot(h + n)
<1>1. /\ h + 1 \in 0 .. 2 * Capacity - 1
      /\ h + n \in 0 .. 2 * Capacity - 1
  BY QueueAssumption DEF Slots
<1>2. Slot(h + 1) \in Slots
  BY <1>1, SlotInRing
<1>3. Slot(h + 1) + (n - 1) \in 0 .. 2 * Capacity - 1
  BY <1>2, QueueAssumption DEF Slots
<1> QED
  BY <1>1, <1>2, <1>3, SlotValue, QueueAssumption DEF Slots

\* A freshly initialised queue satisfies the invariant.
LEMMA InitIInv == Init => IInv
<1> SUFFICES ASSUME Init PROVE IInv
  OBVIOUS
<1>1. TypeOK
  <2>1. /\ pc \in [Threads -> PushPc \cup PopPc \cup ClosePc]
        /\ \A p \in Producers : pc[p] \in PushPc
        /\ \A c \in Consumers : pc[c] \in PopPc
        /\ \A t \in Closers : pc[t] \in ClosePc
    BY QueueAssumption DEF Init
  <2>2. /\ head \in Slots
        /\ tail \in Slots
        /\ count \in 0 .. Capacity
        /\ 0 \in 0 .. Load
        /\ spurious \in 0 .. MaxSpurious
    BY QueueAssumption DEF Init, Slots
  <2>3. /\ buffer \in [Slots -> Items \cup {NoItem}]
        /\ out \in [Consumers -> Items \cup {NoItem}]
        /\ sent \in [Producers -> 0 .. Load]
        /\ mutex \in Threads \cup {NoThread}
        /\ closed \in BOOLEAN
    BY <2>2 DEF Init
  <2> QED
    BY <2>1, <2>2, <2>3 DEF TypeOK
<1>2. PushesLeft /\ DrainIsFinal /\ OneInside /\ BroadcastPending
  <2>1. PushesLeft /\ DrainIsFinal /\ BroadcastPending
    BY QueueAssumption DEF Init, PushesLeft, DrainIsFinal, BroadcastPending
  <2>2. OneInside
    BY QueueAssumption DEF Init, OneInside, Inside
  <2> QED
    BY <2>1, <2>2
<1>3. RingAligned
  BY QueueAssumption, SMT DEF Init, RingAligned, Slot
<1>4. EnoughWakeups
  BY QueueAssumption DEF Init, EnoughWakeups, WaitingNotEmpty, WaitingNotFull
<1> QED
  BY <1>1, <1>2, <1>3, <1>4 DEF IInv

\* No step leaves the types; the count never passes the capacity or zero.
LEMMA TypeStep == TypeOK /\ PushesLeft /\ [Next]_vars => TypeOK' /\ PushesLeft'
<1> SUFFICES ASSUME TypeOK, PushesLeft, [Next]_vars PROVE TypeOK' /\ PushesLeft'
  OBVIOUS
<1> USE QueueAssumption DEF TypeOK, PushesLeft, Goto
<1>1. ASSUME NEW p \in Producers, PushLock(p) PROVE TypeOK' /\ PushesLeft'
  BY <1>1 DEF PushLock, ring
<1>2. ASSUME NEW p \in Producers, PushWait(p) PROVE TypeOK' /\ PushesLeft'
  BY <1>2 DEF PushWait, ring
<1>3. ASSUME NEW p \in Producers, PushRefuse(p) PROVE TypeOK' /\ PushesLeft'
  BY <1>3 DEF PushRefuse, PushReturn, ring
<1>4. ASSUME NEW p \in Producers, PushStore(p) PROVE TypeOK' /\ PushesLeft'
  <2>1. count' \in 0 .. Capacity
    BY <1>4 DEF PushStore, MustWaitToPush, PushIsOver
  <2>2. tail' \in Slots
    BY <1>4, SlotInRing DEF PushStore, Slots
  <2>3. buffer' \in [Slots -> Items \cup {NoItem}]
    <3>1. <<p, sent[p] + 1>> \in Items
      BY <1>4 DEF PushStore, Items
    <3> QED
      BY <1>4, <3>1 DEF PushStore
  <2>4. /\ pc' \in [Threads -> PushPc \cup PopPc \cup ClosePc]
        /\ \A q \in Producers : pc'[q] \in PushPc
        /\ \A c \in Consumers : pc'[c] \in PopPc
        /\ \A t \in Closers : pc'[t] \in ClosePc
        /\ PushesLeft'
    BY <1>4 DEF PushStore
  <2> QED
    BY <1>4, <2>1, <2>2, <2>3, <2>4 DEF PushStore
<1>5. ASSUME NEW p \in Producers, PushSignal(p) PROVE TypeOK' /\ PushesLeft'
  BY <1>5 DEF PushSignal, Signal, WaitingNotEmpty, ring
<1>6. ASSUME NEW p \in Producers, PushUnlock(p) PROVE TypeOK' /\ PushesLeft'
  BY <1>6 DEF PushUnlock, PushReturn, ring
<1>7. ASSUME NEW c \in Consumers, PopStep(c) PROVE TypeOK' /\ PushesLeft'
  <2>1. CASE PopLock(c)
    BY <2>1 DEF PopLock, ring
  <2>2. CASE PopWait(c)
    BY <2>2 DEF PopWait, ring
  <2>3. CASE PopDrained(c)
    BY <2>3 DEF PopDrained, ring
  <2>4. CASE PopTake(c)
    <3>1. count' \in 0 .. Capacity
      BY <2>4 DEF PopTake, MustWaitToPop, PopIsOver
    <3>2. head' \in Slots
      BY <2>4, SlotInRing DEF PopTake, Slots
    <3>3. /\ pc' \in [Threads -> PushPc \cup PopPc \cup ClosePc]
          /\ \A q \in Producers : pc'[q] \in PushPc
          /\ \A d \in Consumers : pc'[d] \in PopPc
          /\ \A t \in Closers : pc'[t] \in ClosePc
          /\ PushesLeft'
      BY <2>4 DEF PopTake
    <3> QED
      BY <2>4, <3>1, <3>2, <3>3 DEF PopTake
  <2>5. CASE PopSignal(c)
    BY <2>5 DEF PopSignal, Signal, WaitingNotFull, ring
  <2>6. CASE PopUnlock(c)
    BY <2>6 DEF PopUnlock, ring
  <2> QED
    BY <1>7, <2>1, <2>2, <2>3, <2>4, <2>5, <2>6 DEF PopStep
<1>8. ASSUME NEW t \in Closers, CloseStep(t) PROVE TypeOK' /\ PushesLeft'
  <2>1. CASE CloseLock(t)
    BY <2>1 DEF CloseLock, ring
  <2>2. CASE CloseSet(t)
    BY <2>2 DEF CloseSet, ring
  <2>3. CASE CloseWakeConsumers(t)
    BY <2>3 DEF CloseWakeConsumers, Broadcast, WaitingNotEmpty, ring
  <2>4. CASE CloseWakeProducers(t)
    BY <2>4 DEF CloseWakeProducers, Broadcast, WaitingNotFull, ring
  <2>5. CASE CloseUnlock(t)
    BY <2>5 DEF CloseUnlock, ring
  <2> QED
    BY <1>8, <2>1, <2>2, <2>3, <2>4, <2>5 DEF CloseStep
<1>9. ASSUME NEW t \in Producers \cup Consumers, SpuriousWakeup(t) PROVE TypeOK' /\ PushesLeft'
  BY <1>9 DEF SpuriousWakeup, WaitingNotFull, WaitingNotEmpty, ring
<1>10. CASE UNCHANGED vars
  BY <1>10 DEF vars
<1> QED
  BY <1>1, <1>2, <1>3, <1>4, <1>5, <1>6, <1>7, <1>8, <1>9, <1>10
     DEF Next, PushStep, Terminated

\* Lock, wait, wake-up and unlock hand the mutex on one thread at a time.
LEMMA OneInsideStep ==
  ASSUME TypeOK, OneInside, [Next]_vars
  PROVE  OneInside'
<1> USE QueueAssumption DEF TypeOK, OneInside, Inside, Goto
<1>1. ASSUME NEW p \in Producers, PushStep(p) PROVE OneInside'
  <2>1. CASE PushLock(p)
    BY <2>1 DEF PushLock
  <2>2. CASE PushWait(p)
    BY <2>2 DEF PushWait
  <2>3. CASE PushRefuse(p)
    BY <2>3 DEF PushRefuse, PushReturn
  <2>4. CASE PushStore(p)
    BY <2>4 DEF PushStore
  <2>5. CASE PushSignal(p)
    BY <2>5 DEF PushSignal, Signal, WaitingNotEmpty
  <2>6. CASE PushUnlock(p)
    BY <2>6 DEF PushUnlock, PushReturn
  <2> QED
    BY <1>1, <2>1, <2>2, <2>3, <2>4, <2>5, <2>6 DEF PushStep
<1>2. ASSUME NEW c \in Consumers, PopStep(c) PROVE OneInside'
  <2>1. CASE PopLock(c)
    BY <2>1 DEF PopLock
  <2>2. CASE PopWait(c)
    BY <2>2 DEF PopWait
  <2>3. CASE PopDrained(c)
    BY <2>3 DEF PopDrained
  <2>4. CASE PopTake(c)
    BY <2>4 DEF PopTake
  <2>5. CASE PopSignal(c)
    BY <2>5 DEF PopSignal, Signal, WaitingNotFull
  <2>6. CASE PopUnlock(c)
    BY <2>6 DEF PopUnlock
  <2> QED
    BY <1>2, <2>1, <2>2, <2>3, <2>4, <2>5, <2>6 DEF PopStep
<1>3. ASSUME NEW t \in Closers, CloseStep(t) PROVE OneInside'
  <2>1. CASE CloseLock(t)
    BY <2>1 DEF CloseLock
  <2>2. CASE CloseSet(t)
    BY <2>2 DEF CloseSet
  <2>3. CASE CloseWakeConsumers(t)
    BY <2>3 DEF CloseWakeConsumers, Broadcast, WaitingNotEmpty
  <2>4. CASE CloseWakeProducers(t)
    BY <2>4 DEF CloseWakeProducers, Broadcast, WaitingNotFull
  <2>5. CASE CloseUnlock(t)
    BY <2>5 DEF CloseUnlock
  <2> QED
    BY <1>3, <2>1, <2>2, <2>3, <2>4, <2>5 DEF CloseStep
<1>4. ASSUME NEW t \in Producers \cup Consumers, SpuriousWakeup(t) PROVE OneInside'
  BY <1>4 DEF SpuriousWakeup, WaitingNotFull, WaitingNotEmpty
<1>5. CASE UNCHANGED vars
  BY <1>5 DEF vars
<1> QED
  BY <1>1, <1>2, <1>3, <1>4, <1>5 DEF Next, Terminated

\* Store and take move count with tail or head, modulo the capacity.
LEMMA RingStep ==
  ASSUME TypeOK, RingAligned, [Next]_vars
  PROVE  RingAligned'
<1>1. ASSUME NEW p \in Producers, PushStore(p) PROVE RingAligned'
  <2>1. count \in 0 .. Capacity - 1
    BY <1>1, QueueAssumption DEF PushStore, MustWaitToPush, PushIsOver, TypeOK
  <2> QED
    BY <1>1, <2>1, SlotOfNext DEF PushStore, RingAligned, TypeOK
<1>2. ASSUME NEW c \in Consumers, PopTake(c) PROVE RingAligned'
  <2>1. count \in 1 .. Capacity
    BY <1>2, QueueAssumption DEF PopTake, MustWaitToPop, PopIsOver, TypeOK
  <2> QED
    BY <1>2, <2>1, SlotOfRest DEF PopTake, RingAligned, TypeOK
<1>3. ASSUME UNCHANGED ring PROVE RingAligned'
  BY <1>3 DEF ring, RingAligned
<1> QED
  BY <1>1, <1>2, <1>3
     DEF Next, PushStep, PopStep, CloseStep, Terminated, vars, ring,
         PushLock, PushWait, PushRefuse, PushSignal, PushUnlock,
         PopLock, PopWait, PopDrained, PopSignal, PopUnlock,
         CloseLock, CloseSet, CloseWakeConsumers, CloseWakeProducers,
         CloseUnlock, SpuriousWakeup

\* Nothing is stored after a consumer was told that the queue is over.
LEMMA DrainStep ==
  ASSUME TypeOK, DrainIsFinal, [Next]_vars
  PROVE  DrainIsFinal'
<1> USE QueueAssumption DEF TypeOK, DrainIsFinal, Goto
<1>1. ASSUME NEW p \in Producers, PushStep(p) PROVE DrainIsFinal'
  <2>1. CASE PushStore(p)
    BY <2>1 DEF PushStore, MustWaitToPush, PushIsOver
  <2>2. CASE ~PushStore(p)
    BY <1>1, <2>2 DEF PushStep, PushLock, PushWait, PushRefuse, PushSignal,
      PushUnlock, PushReturn, Signal, WaitingNotEmpty, ring
  <2> QED
    BY <2>1, <2>2
<1>2. ASSUME NEW c \in Consumers, PopStep(c) PROVE DrainIsFinal'
  <2>1. CASE PopTake(c)
    BY <2>1 DEF PopTake, MustWaitToPop, PopIsOver
  <2>2. CASE PopDrained(c)
    BY <2>2 DEF PopDrained, PopIsOver, ring
  <2>3. CASE PopLock(c) \/ PopWait(c) \/ PopSignal(c) \/ PopUnlock(c)
    BY <2>3 DEF PopLock, PopWait, PopSignal, PopUnlock, Signal,
      WaitingNotFull, ring
  <2> QED
    BY <1>2, <2>1, <2>2, <2>3 DEF PopStep
<1>3. ASSUME NEW t \in Closers, CloseStep(t) PROVE DrainIsFinal'
  BY <1>3 DEF CloseStep, CloseLock, CloseSet, CloseWakeConsumers,
    CloseWakeProducers, CloseUnlock, Broadcast, WaitingNotEmpty,
    WaitingNotFull, ring
<1>4. ASSUME NEW t \in Producers \cup Consumers, SpuriousWakeup(t)
      PROVE  DrainIsFinal'
  BY <1>4 DEF SpuriousWakeup, WaitingNotFull, WaitingNotEmpty, ring
<1>5. CASE UNCHANGED vars
  BY <1>5 DEF vars
<1> QED
  BY <1>1, <1>2, <1>3, <1>4, <1>5 DEF Next, Terminated

\* No thread goes to sleep once closed is set, and the closer wakes all others.
LEMMA BroadcastStep ==
  ASSUME TypeOK, OneInside, BroadcastPending, [Next]_vars
  PROVE  BroadcastPending'
<1> USE QueueAssumption
    DEF TypeOK, BroadcastPending, WaitingNotEmpty, WaitingNotFull, Goto
<1>1. ASSUME NEW p \in Producers, PushStep(p) PROVE BroadcastPending'
  <2>1. CASE PushWait(p) \/ PushStore(p)
    BY <2>1 DEF PushWait, PushStore, MustWaitToPush, PushIsOver
  <2>2. CASE PushLock(p) \/ PushRefuse(p) \/ PushUnlock(p)
    BY ZenonT(60), <2>2 DEF PushLock, PushRefuse, PushUnlock, PushReturn
  <2>3. CASE PushSignal(p)
    BY <2>3 DEF PushSignal, Signal
  <2> QED
    BY <1>1, <2>1, <2>2, <2>3 DEF PushStep
<1>2. ASSUME NEW c \in Consumers, PopStep(c) PROVE BroadcastPending'
  <2>1. CASE PopWait(c)
    BY <2>1 DEF PopWait, MustWaitToPop
  <2>2. CASE PopLock(c) \/ PopDrained(c) \/ PopTake(c) \/ PopUnlock(c)
    BY ZenonT(60), <2>2 DEF PopLock, PopDrained, PopTake, PopUnlock
  <2>3. CASE PopSignal(c)
    BY <2>3 DEF PopSignal, Signal
  <2> QED
    BY <1>2, <2>1, <2>2, <2>3 DEF PopStep
<1>3. ASSUME NEW t \in Closers, CloseStep(t) PROVE BroadcastPending'
  <2>1. CASE CloseLock(t)
    BY <2>1 DEF CloseLock
  <2>2. CASE CloseSet(t)
    BY <2>2 DEF CloseSet
  <2>3. CASE CloseWakeConsumers(t)
    BY <2>3 DEF CloseWakeConsumers, Broadcast
  <2>4. CASE CloseWakeProducers(t)
    BY <2>4 DEF CloseWakeProducers, Broadcast, OneInside, Inside
  <2>5. CASE CloseUnlock(t)
    BY <2>5 DEF CloseUnlock, OneInside, Inside
  <2> QED
    BY <1>3, <2>1, <2>2, <2>3, <2>4, <2>5 DEF CloseStep
<1>4. ASSUME NEW t \in Producers \cup Consumers, SpuriousWakeup(t)
      PROVE  BroadcastPending'
  BY <1>4 DEF SpuriousWakeup
<1>5. CASE UNCHANGED vars
  BY <1>5 DEF vars
<1> QED
  BY <1>1, <1>2, <1>3, <1>4, <1>5 DEF Next, Terminated

-----------------------------------------------------------------------------
(* No wake-up is lost: counting threads by their program counters.         *)

\* How many of the threads S are at one of the labels L, by the counters f.
At(S, f, L) == Cardinality({t \in S : f[t] \in L})

In(x, L) == IF x \in L THEN 1 ELSE 0

\* How the number changes when one thread t of S moves.
AtMoved(S, f, g, t, L) ==
  /\ At(S, f, L) \in Nat
  /\ At(S, g, L) \in Nat
  /\ At(S, g, L) = At(S, f, L) + In(g[t], L) - In(f[t], L)

LEMMA AtMoves ==
  ASSUME NEW S, IsFiniteSet(S), NEW f, NEW g, NEW t \in S,
         \A u \in S : u # t => g[u] = f[u], NEW L
  PROVE  AtMoved(S, f, g, t, L)
<1> DEFINE F == {u \in S : f[u] \in L}
           G == {u \in S : g[u] \in L}
<1>1. IsFiniteSet(F) /\ IsFiniteSet(G)
  BY FS_Subset
<1>2. Cardinality(F) \in Nat /\ Cardinality(G) \in Nat
  BY <1>1, FS_CardinalityType
<1>3. (f[t] \in L <=> g[t] \in L) => G = F
  OBVIOUS
<1>4. f[t] \notin L /\ g[t] \in L => G = F \cup {t} /\ t \notin F
  OBVIOUS
<1>5. f[t] \in L /\ g[t] \notin L => G = F \ {t} /\ t \in F
  OBVIOUS
<1>6. Cardinality(F \cup {t}) = IF t \in F THEN Cardinality(F) ELSE Cardinality(F) + 1
  BY <1>1, FS_AddElement
<1>7. Cardinality(F \ {t}) = IF t \in F THEN Cardinality(F) - 1 ELSE Cardinality(F)
  BY <1>1, FS_RemoveElement
<1> DEFINE a == Cardinality(F)
           b == Cardinality(G)
<1>8. /\ a \in Nat /\ b \in Nat
      /\ (f[t] \in L <=> g[t] \in L) => b = a
      /\ f[t] \notin L /\ g[t] \in L => b = a + 1
      /\ f[t] \in L /\ g[t] \notin L => b = a - 1
  <2> HIDE DEF F, G
  <2> QED
    BY <1>2, <1>3, <1>4, <1>5, <1>6, <1>7
<1>9. (In(f[t], L) = 1 /\ f[t] \in L) \/ (In(f[t], L) = 0 /\ f[t] \notin L)
  BY DEF In
<1>10. (In(g[t], L) = 1 /\ g[t] \in L) \/ (In(g[t], L) = 0 /\ g[t] \notin L)
  BY DEF In
<1>11. b = a + In(g[t], L) - In(f[t], L)
  <2> DEFINE i == In(f[t], L)
             j == In(g[t], L)
  <2>1. (i = 1 /\ f[t] \in L) \/ (i = 0 /\ f[t] \notin L)
    BY <1>9
  <2>2. (j = 1 /\ g[t] \in L) \/ (j = 0 /\ g[t] \notin L)
    BY <1>10
  <2> HIDE DEF a, b, i, j
  <2>3. b = a + j - i
    BY <1>8, <2>1, <2>2
  <2> QED
    BY <2>3 DEF i, j
<1> QED
  BY <1>8, <1>11 DEF AtMoved, At

\* None of S moves.
LEMMA AtStays ==
  ASSUME NEW S, IsFiniteSet(S), NEW f, NEW g, \A u \in S : g[u] = f[u], NEW L
  PROVE  At(S, f, L) \in Nat /\ At(S, g, L) = At(S, f, L)
<1>1. {u \in S : g[u] \in L} = {u \in S : f[u] \in L}
  OBVIOUS
<1>2. Cardinality({u \in S : f[u] \in L}) \in Nat
  BY FS_Subset, FS_CardinalityType
<1> QED
  BY <1>1, <1>2 DEF At

\* The consumers on their way to an item, the producers about to signal one,
\* and the same for free slots.
Takers(f) == At(Consumers, f, {"popAwake", "popTest"})
Givers(f) == At(Producers, f, {"pushSignal"})
Fillers(f) == At(Producers, f, {"pushAwake", "pushTest"})
Freers(f) == At(Consumers, f, {"popSignal"})

\* If anybody sleeps on not_empty, enough are on their way for n items.
ItemsCovered(f, n) ==
  (\E c \in Consumers : f[c] = "popAsleep") => n <= Takers(f) + Givers(f)

\* If anybody sleeps on not_full, enough are on their way for n free slots.
SlotsCovered(f, n) ==
  (\E p \in Producers : f[p] = "pushAsleep") => n <= Fillers(f) + Freers(f)

Covered(f, n) == ItemsCovered(f, n) /\ SlotsCovered(f, Capacity - n)

\* A counter for every thread.
Counters == [Threads -> PushPc \cup PopPc \cup ClosePc]

\* What changes when one producer moves to the label l.
ProducerMoved(f, g, p, l) ==
  /\ {Takers(f), Givers(f), Fillers(f), Freers(f)} \subseteq Nat
  /\ {Takers(g), Givers(g), Fillers(g), Freers(g)} \subseteq Nat
  /\ Takers(g) = Takers(f)
  /\ Freers(g) = Freers(f)
  /\ Givers(g) = Givers(f) + In(l, {"pushSignal"}) - In(f[p], {"pushSignal"})
  /\ Fillers(g) = Fillers(f) + In(l, {"pushAwake", "pushTest"})
                             - In(f[p], {"pushAwake", "pushTest"})
  /\ \A c \in Consumers : g[c] = f[c]
  /\ \A q \in Producers : g[q] = IF q = p THEN l ELSE f[q]

LEMMA ProducerMoves ==
  ASSUME NEW f \in Counters, NEW p \in Producers, NEW l,
         NEW g, g = [f EXCEPT ![p] = l]
  PROVE  ProducerMoved(f, g, p, l)
<1>1. /\ IsFiniteSet(Producers) /\ IsFiniteSet(Consumers)
      /\ Producers \cap Consumers = {}
  BY QueueAssumption
<1>2. /\ \A c \in Consumers : g[c] = f[c]
      /\ \A q \in Producers : g[q] = IF q = p THEN l ELSE f[q]
  BY <1>1 DEF Counters
<1>3. \A q \in Producers : q # p => g[q] = f[q]
  BY <1>2
<1>4. g[p] = l
  BY <1>2
<1>5. \A L : At(Consumers, f, L) \in Nat /\ At(Consumers, g, L) = At(Consumers, f, L)
  BY <1>1, <1>2, AtStays
<1>6. /\ Takers(f) \in Nat /\ Takers(g) = Takers(f)
      /\ Freers(f) \in Nat /\ Freers(g) = Freers(f)
  BY <1>5 DEF Takers, Freers
<1>7. \A L : AtMoved(Producers, f, g, p, L)
  BY <1>1, <1>3, AtMoves
<1>8. /\ Givers(f) \in Nat /\ Givers(g) \in Nat
      /\ Givers(g) = Givers(f) + In(l, {"pushSignal"}) - In(f[p], {"pushSignal"})
  BY <1>4, <1>7 DEF Givers, AtMoved
<1>9. /\ Fillers(f) \in Nat /\ Fillers(g) \in Nat
      /\ Fillers(g) = Fillers(f) + In(l, {"pushAwake", "pushTest"})
                                 - In(f[p], {"pushAwake", "pushTest"})
  BY <1>4, <1>7 DEF Fillers, AtMoved
<1> QED
  BY <1>2, <1>6, <1>8, <1>9 DEF ProducerMoved

\* The same for a consumer.
ConsumerMoved(f, g, c, l) ==
  /\ {Takers(f), Givers(f), Fillers(f), Freers(f)} \subseteq Nat
  /\ {Takers(g), Givers(g), Fillers(g), Freers(g)} \subseteq Nat
  /\ Givers(g) = Givers(f)
  /\ Fillers(g) = Fillers(f)
  /\ Freers(g) = Freers(f) + In(l, {"popSignal"}) - In(f[c], {"popSignal"})
  /\ Takers(g) = Takers(f) + In(l, {"popAwake", "popTest"})
                           - In(f[c], {"popAwake", "popTest"})
  /\ \A p \in Producers : g[p] = f[p]
  /\ \A d \in Consumers : g[d] = IF d = c THEN l ELSE f[d]

LEMMA ConsumerMoves ==
  ASSUME NEW f \in Counters, NEW c \in Consumers, NEW l,
         NEW g, g = [f EXCEPT ![c] = l]
  PROVE  ConsumerMoved(f, g, c, l)
<1>1. /\ IsFiniteSet(Producers) /\ IsFiniteSet(Consumers)
      /\ Producers \cap Consumers = {}
  BY QueueAssumption
<1>2. /\ \A p \in Producers : g[p] = f[p]
      /\ \A d \in Consumers : g[d] = IF d = c THEN l ELSE f[d]
  BY <1>1 DEF Counters
<1>3. \A d \in Consumers : d # c => g[d] = f[d]
  BY <1>2
<1>4. g[c] = l
  BY <1>2
<1>5. \A L : At(Producers, f, L) \in Nat /\ At(Producers, g, L) = At(Producers, f, L)
  BY <1>1, <1>2, AtStays
<1>6. /\ Givers(f) \in Nat /\ Givers(g) = Givers(f)
      /\ Fillers(f) \in Nat /\ Fillers(g) = Fillers(f)
  BY <1>5 DEF Givers, Fillers
<1>7. \A L : AtMoved(Consumers, f, g, c, L)
  BY <1>1, <1>3, AtMoves
<1>8. /\ Freers(f) \in Nat /\ Freers(g) \in Nat
      /\ Freers(g) = Freers(f) + In(l, {"popSignal"}) - In(f[c], {"popSignal"})
  BY <1>4, <1>7 DEF Freers, AtMoved
<1>9. /\ Takers(f) \in Nat /\ Takers(g) \in Nat
      /\ Takers(g) = Takers(f) + In(l, {"popAwake", "popTest"})
                               - In(f[c], {"popAwake", "popTest"})
  BY <1>4, <1>7 DEF Takers, AtMoved
<1> QED
  BY <1>2, <1>6, <1>8, <1>9 DEF ConsumerMoved

\* A signal takes the signaller off one number and puts the woken thread on
\* another; a thread goes to sleep only when there is nothing to come for; and
\* who finds the queue closed finds nobody asleep.
LEMMA EnoughStep ==
  ASSUME TypeOK, OneInside, BroadcastPending, EnoughWakeups, [Next]_vars
  PROVE  EnoughWakeups'
<1>1. Covered(pc, count)
  <2>1. /\ {p \in Producers : pc[p] \in {"pushSignal"}}
             = {p \in Producers : pc[p] = "pushSignal"}
        /\ {c \in Consumers : pc[c] \in {"popSignal"}}
             = {c \in Consumers : pc[c] = "popSignal"}
    OBVIOUS
  <2> QED
    BY <2>1 DEF EnoughWakeups, Covered, ItemsCovered, SlotsCovered, Takers,
      Givers, Fillers, Freers, At, WaitingNotEmpty, WaitingNotFull
<1> SUFFICES Covered(pc', count')
  <2>1. /\ {p \in Producers : pc'[p] \in {"pushSignal"}}
             = {p \in Producers : pc'[p] = "pushSignal"}
        /\ {c \in Consumers : pc'[c] \in {"popSignal"}}
             = {c \in Consumers : pc'[c] = "popSignal"}
    OBVIOUS
  <2> QED
    BY <2>1 DEF EnoughWakeups, Covered, ItemsCovered, SlotsCovered, Takers,
      Givers, Fillers, Freers, At, WaitingNotEmpty, WaitingNotFull
<1>2. /\ Capacity \in Nat \ {0} /\ count \in 0 .. Capacity
      /\ pc \in Counters
  BY QueueAssumption DEF TypeOK, Counters
<1>3. closed /\ mutex \notin Closers =>
        /\ \A c \in Consumers : pc[c] # "popAsleep"
        /\ \A p \in Producers : pc[p] # "pushAsleep"
  BY DEF BroadcastPending, OneInside, Inside, WaitingNotEmpty, WaitingNotFull
<1>4. ASSUME NEW p \in Producers, PushStep(p) PROVE Covered(pc', count')
  <2>1. CASE PushLock(p)
    <3>1. /\ pc[p] \in {"push", "pushAwake"}
          /\ pc' = [pc EXCEPT ![p] = "pushTest"]
          /\ count' = count
      BY <2>1 DEF PushLock, Goto, ring
    <3>2. ProducerMoved(pc, pc', p, "pushTest")
      BY <1>2, <3>1, ProducerMoves
    <3> QED
      BY <1>1, <1>2, <3>1, <3>2 DEF ProducerMoved, In, Covered, ItemsCovered, SlotsCovered
  <2>2. CASE PushWait(p)
    <3>1. /\ pc[p] = "pushTest"
          /\ pc' = [pc EXCEPT ![p] = "pushAsleep"]
          /\ count' = count
          /\ count = Capacity
      BY <2>2 DEF PushWait, Goto, ring, MustWaitToPush
    <3>2. ProducerMoved(pc, pc', p, "pushAsleep")
      BY <1>2, <3>1, ProducerMoves
    <3> QED
      BY <1>1, <1>2, <3>1, <3>2 DEF ProducerMoved, In, Covered, ItemsCovered, SlotsCovered
  <2>3. CASE PushRefuse(p)
    <3>1. /\ \A c \in Consumers : pc[c] # "popAsleep"
          /\ \A q \in Producers : pc[q] # "pushAsleep"
      <4>1. closed /\ mutex = p
        BY <2>3 DEF PushRefuse, PushIsOver, OneInside, Inside
      <4>2. mutex \notin Closers
        BY <4>1, QueueAssumption
      <4> QED
        BY <1>3, <4>1, <4>2
    <3>2. /\ \A u \in Threads : u # p => pc'[u] = pc[u]
          /\ pc'[p] # "pushAsleep"
      BY <1>2, <2>3 DEF PushRefuse, PushReturn, Goto, Counters
    <3> QED
      BY <3>1, <3>2, QueueAssumption DEF Covered, ItemsCovered, SlotsCovered
  <2>4. CASE PushStore(p)
    <3>1. /\ pc[p] = "pushTest"
          /\ pc' = [pc EXCEPT ![p] = "pushSignal"]
          /\ count' = count + 1
      BY <2>4 DEF PushStore, Goto, ring
    <3>2. ProducerMoved(pc, pc', p, "pushSignal")
      BY <1>2, <3>1, ProducerMoves
    <3> QED
      BY <1>1, <1>2, <3>1, <3>2 DEF ProducerMoved, In, Covered, ItemsCovered, SlotsCovered
  <2>5. CASE PushSignal(p)
    <3>1. pc[p] = "pushSignal" /\ count' = count
      BY <2>5 DEF PushSignal, ring
    <3>2. CASE WaitingNotEmpty = {} /\ pc' = [pc EXCEPT ![p] = "pushUnlock"]
      <4>1. ProducerMoved(pc, pc', p, "pushUnlock")
        BY <1>2, <3>2, ProducerMoves
      <4> QED
        BY <1>1, <1>2, <3>1, <3>2, <4>1
           DEF ProducerMoved, In, Covered, ItemsCovered, SlotsCovered, WaitingNotEmpty
    <3>3. ASSUME NEW w \in WaitingNotEmpty,
                 pc' = [pc EXCEPT ![p] = "pushUnlock", ![w] = "popAwake"]
          PROVE  Covered(pc', count')
      <4> DEFINE mid == [pc EXCEPT ![p] = "pushUnlock"]
      <4>1. w \in Consumers /\ pc[w] = "popAsleep"
        BY DEF WaitingNotEmpty
      <4>2. mid \in Counters /\ pc' = [mid EXCEPT ![w] = "popAwake"]
        BY <1>2, <3>3 DEF Counters
      <4>3. /\ Takers(pc) \in Nat /\ Givers(pc) \in Nat
            /\ Fillers(pc) \in Nat /\ Freers(pc) \in Nat
            /\ Takers(mid) = Takers(pc)
            /\ Freers(mid) = Freers(pc)
            /\ Givers(mid) = Givers(pc) - 1
            /\ Fillers(mid) = Fillers(pc)
            /\ \A c \in Consumers : mid[c] = pc[c]
            /\ \A q \in Producers : mid[q] = IF q = p THEN "pushUnlock" ELSE pc[q]
        <5> HIDE DEF mid
        <5>1. mid = [pc EXCEPT ![p] = "pushUnlock"]
          BY DEF mid
        <5>2. ProducerMoved(pc, mid, p, "pushUnlock")
          BY <1>2, <5>1, ProducerMoves
        <5> QED
          BY <1>2, <3>1, <5>1, <5>2 DEF ProducerMoved, In
      <4> HIDE DEF mid
      <4>4. /\ Takers(pc') = Takers(mid) + 1
            /\ Freers(pc') = Freers(mid)
            /\ Givers(pc') = Givers(mid)
            /\ Fillers(pc') = Fillers(mid)
            /\ \A q \in Producers : pc'[q] = mid[q]
        <5>1. ConsumerMoved(mid, pc', w, "popAwake")
          BY <4>1, <4>2, ConsumerMoves
        <5> QED
          BY <4>1, <4>3, <5>1 DEF ConsumerMoved, In
      <4> QED
        BY <1>1, <1>2, <3>1, <4>1, <4>3, <4>4 DEF Covered, ItemsCovered, SlotsCovered
    <3> QED
      BY <2>5, <3>2, <3>3 DEF PushSignal, Signal, Goto
  <2>6. CASE PushUnlock(p)
    <3>1. PICK l \in {"push", "done"} : pc' = [pc EXCEPT ![p] = l]
      BY <2>6 DEF PushUnlock, PushReturn, Goto
    <3>2. pc[p] = "pushUnlock" /\ count' = count
      BY <2>6 DEF PushUnlock, ring
    <3>3. ProducerMoved(pc, pc', p, l)
      BY <1>2, <3>1, ProducerMoves
    <3> QED
      BY <1>1, <1>2, <3>2, <3>3 DEF ProducerMoved, In, Covered, ItemsCovered, SlotsCovered
  <2> QED
    BY <1>4, <2>1, <2>2, <2>3, <2>4, <2>5, <2>6 DEF PushStep
<1>5. ASSUME NEW c \in Consumers, PopStep(c) PROVE Covered(pc', count')
  <2>1. CASE PopLock(c)
    <3>1. /\ pc[c] \in {"pop", "popAwake"}
          /\ pc' = [pc EXCEPT ![c] = "popTest"]
          /\ count' = count
      BY <2>1 DEF PopLock, Goto, ring
    <3>2. ConsumerMoved(pc, pc', c, "popTest")
      BY <1>2, <3>1, ConsumerMoves
    <3> QED
      BY <1>1, <1>2, <3>1, <3>2 DEF ConsumerMoved, In, Covered, ItemsCovered, SlotsCovered
  <2>2. CASE PopWait(c)
    <3>1. /\ pc[c] = "popTest"
          /\ pc' = [pc EXCEPT ![c] = "popAsleep"]
          /\ count' = count
          /\ count = 0
      BY <2>2 DEF PopWait, Goto, ring, MustWaitToPop
    <3>2. ConsumerMoved(pc, pc', c, "popAsleep")
      BY <1>2, <3>1, ConsumerMoves
    <3> QED
      BY <1>1, <1>2, <3>1, <3>2 DEF ConsumerMoved, In, Covered, ItemsCovered, SlotsCovered
  <2>3. CASE PopDrained(c)
    <3>1. /\ pc[c] = "popTest"
          /\ pc' = [pc EXCEPT ![c] = "done"]
          /\ count' = count
          /\ count = 0
      BY <2>3 DEF PopDrained, PopIsOver, Goto, ring
    <3>2. ConsumerMoved(pc, pc', c, "done")
      BY <1>2, <3>1, ConsumerMoves
    <3> QED
      BY <1>1, <1>2, <3>1, <3>2 DEF ConsumerMoved, In, Covered, ItemsCovered, SlotsCovered
  <2>4. CASE PopTake(c)
    <3>1. /\ pc[c] = "popTest"
          /\ pc' = [pc EXCEPT ![c] = "popSignal"]
          /\ count' = count - 1
      BY <2>4 DEF PopTake, Goto, ring
    <3>2. ConsumerMoved(pc, pc', c, "popSignal")
      BY <1>2, <3>1, ConsumerMoves
    <3> QED
      BY <1>1, <1>2, <3>1, <3>2 DEF ConsumerMoved, In, Covered, ItemsCovered, SlotsCovered
  <2>5. CASE PopSignal(c)
    <3>1. pc[c] = "popSignal" /\ count' = count
      BY <2>5 DEF PopSignal, ring
    <3>2. CASE WaitingNotFull = {} /\ pc' = [pc EXCEPT ![c] = "popUnlock"]
      <4>1. ConsumerMoved(pc, pc', c, "popUnlock")
        BY <1>2, <3>2, ConsumerMoves
      <4> QED
        BY <1>1, <1>2, <3>1, <3>2, <4>1
           DEF ConsumerMoved, In, Covered, ItemsCovered, SlotsCovered, WaitingNotFull
    <3>3. ASSUME NEW w \in WaitingNotFull,
                 pc' = [pc EXCEPT ![c] = "popUnlock", ![w] = "pushAwake"]
          PROVE  Covered(pc', count')
      <4> DEFINE mid == [pc EXCEPT ![c] = "popUnlock"]
      <4>1. w \in Producers /\ pc[w] = "pushAsleep"
        BY DEF WaitingNotFull
      <4>2. mid \in Counters /\ pc' = [mid EXCEPT ![w] = "pushAwake"]
        BY <1>2, <3>3 DEF Counters
      <4>3. /\ Takers(pc) \in Nat /\ Givers(pc) \in Nat
            /\ Fillers(pc) \in Nat /\ Freers(pc) \in Nat
            /\ Givers(mid) = Givers(pc)
            /\ Fillers(mid) = Fillers(pc)
            /\ Freers(mid) = Freers(pc) - 1
            /\ Takers(mid) = Takers(pc)
            /\ \A p \in Producers : mid[p] = pc[p]
            /\ \A d \in Consumers : mid[d] = IF d = c THEN "popUnlock" ELSE pc[d]
        <5> HIDE DEF mid
        <5>1. mid = [pc EXCEPT ![c] = "popUnlock"]
          BY DEF mid
        <5>2. ConsumerMoved(pc, mid, c, "popUnlock")
          BY <1>2, <5>1, ConsumerMoves
        <5> QED
          BY <1>2, <3>1, <5>1, <5>2 DEF ConsumerMoved, In
      <4> HIDE DEF mid
      <4>4. /\ Takers(pc') = Takers(mid)
            /\ Freers(pc') = Freers(mid)
            /\ Givers(pc') = Givers(mid)
            /\ Fillers(pc') = Fillers(mid) + 1
            /\ \A d \in Consumers : pc'[d] = mid[d]
        <5>1. ProducerMoved(mid, pc', w, "pushAwake")
          BY <4>1, <4>2, ProducerMoves
        <5> QED
          BY <4>1, <4>3, <5>1 DEF ProducerMoved, In
      <4> QED
        BY <1>1, <1>2, <3>1, <4>1, <4>3, <4>4 DEF Covered, ItemsCovered, SlotsCovered
    <3> QED
      BY <2>5, <3>2, <3>3 DEF PopSignal, Signal, Goto
  <2>6. CASE PopUnlock(c)
    <3>1. /\ pc[c] = "popUnlock"
          /\ pc' = [pc EXCEPT ![c] = "pop"]
          /\ count' = count
      BY <2>6 DEF PopUnlock, Goto, ring
    <3>2. ConsumerMoved(pc, pc', c, "pop")
      BY <1>2, <3>1, ConsumerMoves
    <3> QED
      BY <1>1, <1>2, <3>1, <3>2 DEF ConsumerMoved, In, Covered, ItemsCovered, SlotsCovered
  <2> QED
    BY <1>5, <2>1, <2>2, <2>3, <2>4, <2>5, <2>6 DEF PopStep
<1>6. ASSUME NEW t \in Closers, CloseStep(t) PROVE Covered(pc', count')
  <2>1. count' = count
    BY <1>6 DEF CloseStep, CloseLock, CloseSet, CloseWakeConsumers,
      CloseWakeProducers, CloseUnlock, ring
  <2>2. IsFiniteSet(Producers) /\ IsFiniteSet(Consumers)
    BY QueueAssumption
  <2>3. ASSUME \A p \in Producers : pc'[p] = pc[p]
        PROVE  Fillers(pc') = Fillers(pc) /\ Givers(pc') = Givers(pc)
    BY <2>2, <2>3, AtStays DEF Fillers, Givers
  <2>4. ASSUME \A c \in Consumers : pc'[c] = pc[c]
        PROVE  Takers(pc') = Takers(pc) /\ Freers(pc') = Freers(pc)
    BY <2>2, <2>4, AtStays DEF Takers, Freers
  <2>5. CASE CloseLock(t) \/ CloseSet(t) \/ CloseUnlock(t)
    <3>1. /\ \A p \in Producers : pc'[p] = pc[p]
          /\ \A c \in Consumers : pc'[c] = pc[c]
      BY <1>2, <2>5, QueueAssumption DEF CloseLock, CloseSet, CloseUnlock, Goto,
        Counters
    <3> QED
      BY <1>1, <2>1, <2>3, <2>4, <3>1 DEF Covered, ItemsCovered, SlotsCovered
  <2>6. CASE CloseWakeConsumers(t)
    <3>1. /\ \A p \in Producers : pc'[p] = pc[p]
          /\ \A c \in Consumers : /\ pc'[c] # "popAsleep"
                                  /\ pc'[c] = "popSignal" <=> pc[c] = "popSignal"
      BY <1>2, <2>6, QueueAssumption
         DEF CloseWakeConsumers, Broadcast, WaitingNotEmpty
    <3>2. {c \in Consumers : pc'[c] \in {"popSignal"}}
            = {c \in Consumers : pc[c] \in {"popSignal"}}
      BY <3>1
    <3>3. Freers(pc') = Freers(pc)
      BY <3>2 DEF Freers, At
    <3> QED
      BY <1>1, <2>1, <2>3, <3>1, <3>3 DEF Covered, ItemsCovered, SlotsCovered
  <2>7. CASE CloseWakeProducers(t)
    <3>1. /\ \A c \in Consumers : pc'[c] = pc[c]
          /\ \A p \in Producers : /\ pc'[p] # "pushAsleep"
                                  /\ pc'[p] = "pushSignal" <=> pc[p] = "pushSignal"
      BY <1>2, <2>7, QueueAssumption
         DEF CloseWakeProducers, Broadcast, WaitingNotFull
    <3>2. {p \in Producers : pc'[p] \in {"pushSignal"}}
            = {p \in Producers : pc[p] \in {"pushSignal"}}
      BY <3>1
    <3>3. Givers(pc') = Givers(pc)
      BY <3>2 DEF Givers, At
    <3> QED
      BY <1>1, <2>1, <2>4, <3>1, <3>3 DEF Covered, ItemsCovered, SlotsCovered
  <2> QED
    BY <1>6, <2>5, <2>6, <2>7 DEF CloseStep
<1>7. ASSUME NEW t \in Producers \cup Consumers, SpuriousWakeup(t)
      PROVE  Covered(pc', count')
  <2>1. count' = count
    BY <1>7 DEF SpuriousWakeup, ring
  <2>2. CASE t \in WaitingNotFull /\ Goto(t, "pushAwake")
    <3>1. t \in Producers /\ pc[t] = "pushAsleep" /\ pc' = [pc EXCEPT ![t] = "pushAwake"]
      BY <2>2 DEF WaitingNotFull, Goto
    <3>2. /\ Takers(pc') = Takers(pc)
          /\ Givers(pc') = Givers(pc)
          /\ Fillers(pc') = Fillers(pc) + 1
          /\ Freers(pc') = Freers(pc)
          /\ Fillers(pc) \in Nat /\ Freers(pc) \in Nat /\ Givers(pc) \in Nat
          /\ \A c \in Consumers : pc'[c] = pc[c]
      <4>1. ProducerMoved(pc, pc', t, "pushAwake")
        BY <1>2, <3>1, ProducerMoves
      <4> QED
        BY <3>1, <4>1 DEF ProducerMoved, In
    <3> QED
      BY <1>1, <1>2, <2>1, <3>1, <3>2 DEF Covered, ItemsCovered, SlotsCovered
  <2>3. CASE t \in WaitingNotEmpty /\ Goto(t, "popAwake")
    <3>1. t \in Consumers /\ pc[t] = "popAsleep" /\ pc' = [pc EXCEPT ![t] = "popAwake"]
      BY <2>3 DEF WaitingNotEmpty, Goto
    <3>2. /\ Takers(pc') = Takers(pc) + 1
          /\ Givers(pc') = Givers(pc)
          /\ Fillers(pc') = Fillers(pc)
          /\ Freers(pc') = Freers(pc)
          /\ Takers(pc) \in Nat /\ Freers(pc) \in Nat /\ Givers(pc) \in Nat
          /\ \A p \in Producers : pc'[p] = pc[p]
      <4>1. ConsumerMoved(pc, pc', t, "popAwake")
        BY <1>2, <3>1, ConsumerMoves
      <4> QED
        BY <3>1, <4>1 DEF ConsumerMoved, In
    <3> QED
      BY <1>1, <1>2, <2>1, <3>1, <3>2 DEF Covered, ItemsCovered, SlotsCovered
  <2> QED
    BY <1>7, <2>2, <2>3 DEF SpuriousWakeup
<1>8. CASE UNCHANGED vars
  BY <1>1, <1>8 DEF vars
<1> QED
  BY <1>4, <1>5, <1>6, <1>7, <1>8 DEF Next, Terminated

\* The inductive invariant holds in every reachable state.
THEOREM Inductive == Spec => []IInv
<1>1. IInv /\ [Next]_vars => IInv'
  BY TypeStep, OneInsideStep, RingStep, BroadcastStep, DrainStep, EnoughStep
     DEF IInv
<1> QED
  BY InitIInv, <1>1, PTL DEF Spec

\* head, tail and count stay in the ranges the C code indexes with.
THEOREM TypeCorrect == Spec => []TypeOK
  BY Inductive, PTL DEF IInv

\* At most one thread is between lock and unlock of q->mutex, also around a
\* pthread_cond_wait in the middle of push or pop.
THEOREM MutualExclusion == Spec => []OneInside
  BY Inductive, PTL DEF IInv

\* head, tail and count agree after any interleaving of pushes and pops.
THEOREM RingStaysAligned == Spec => []RingAligned
  BY Inductive, PTL DEF IInv

\* A consumer that left because pop returned 0 left an empty, closed queue.
THEOREM DrainedForGood == Spec => []DrainIsFinal
  BY Inductive, PTL DEF IInv

\* Once task_queue_close has released the mutex nobody sleeps in push or pop.
THEOREM CloseLeavesNoSleeper == Spec => []NoSleeperAfterClose
<1>1. IInv => NoSleeperAfterClose
  BY QueueAssumption DEF IInv, TypeOK, OneInside, Inside, BroadcastPending,
    NoSleeperAfterClose
<1> QED
  BY Inductive, <1>1, PTL

\* No wake-up is lost: items and free slots never outnumber those who come for
\* them while somebody sleeps, although signals are sent one at a time.
THEOREM NoLostWakeup == Spec => []EnoughWakeups
  BY Inductive, PTL DEF IInv

-----------------------------------------------------------------------------
(* The threads never all wait for each other. *)

\* A thread that can take a step: it owns the mutex, or the mutex is free and
\* it is about to take it.
CanRun(t) ==
  \/ pc[t] \in Inside
  \/ mutex = NoThread /\ pc[t] \in {"push", "pushAwake", "pop", "popAwake", "close"}

\* A closer that is past its assignment has closed the queue.
ClosersClose ==
  \A t \in Closers :
    pc[t] \in {"closeWakeConsumers", "closeWakeProducers", "closeUnlock", "done"}
      => closed

LEMMA ClosersStep == TypeOK /\ ClosersClose /\ [Next]_vars => ClosersClose'
<1> SUFFICES ASSUME TypeOK, ClosersClose, [Next]_vars PROVE ClosersClose'
  OBVIOUS
<1> USE QueueAssumption DEF TypeOK, ClosersClose, Goto
<1>1. ASSUME NEW p \in Producers, PushStep(p) PROVE ClosersClose'
  BY <1>1 DEF PushStep, PushLock, PushWait, PushRefuse, PushStore, PushSignal,
    PushUnlock, PushReturn, Signal, WaitingNotEmpty
<1>2. ASSUME NEW c \in Consumers, PopStep(c) PROVE ClosersClose'
  BY <1>2 DEF PopStep, PopLock, PopWait, PopDrained, PopTake, PopSignal,
    PopUnlock, Signal, WaitingNotFull
<1>3. ASSUME NEW t \in Closers, CloseStep(t) PROVE ClosersClose'
  BY <1>3 DEF CloseStep, CloseLock, CloseSet, CloseWakeConsumers,
    CloseWakeProducers, CloseUnlock, Broadcast, WaitingNotEmpty, WaitingNotFull
<1>4. ASSUME NEW t \in Producers \cup Consumers, SpuriousWakeup(t)
      PROVE  ClosersClose'
  BY <1>4 DEF SpuriousWakeup, WaitingNotFull, WaitingNotEmpty
<1>5. CASE UNCHANGED vars
  BY <1>5 DEF vars
<1> QED
  BY <1>1, <1>2, <1>3, <1>4, <1>5 DEF Next, Terminated

\* If somebody closes the queue, the threads never all wait: until every call
\* has returned, one of them owns the mutex or can take it.
THEOREM NoDeadlock ==
  ASSUME Closers # {}
  PROVE  Spec => [](AllReturned \/ \E t \in Threads : CanRun(t))
<1>1. Init => ClosersClose
  BY QueueAssumption DEF Init, ClosersClose
<1>2. IInv /\ ClosersClose /\ NoSleeperAfterClose =>
        AllReturned \/ \E t \in Threads : CanRun(t)
  <2> SUFFICES ASSUME IInv, ClosersClose, NoSleeperAfterClose,
                      \A t \in Threads : ~CanRun(t)
               PROVE  AllReturned
    OBVIOUS
  <2> USE QueueAssumption DEF CanRun
  <2>1. TypeOK /\ OneInside
    BY DEF IInv
  <2>2. mutex = NoThread
    BY <2>1 DEF TypeOK, OneInside
  <2>3. \A t \in Closers : pc[t] = "done"
    BY <2>1, <2>2 DEF TypeOK, Inside
  <2>4. closed
    BY <2>3 DEF ClosersClose
  <2>5. WaitingNotFull = {} /\ WaitingNotEmpty = {}
    BY <2>2, <2>4 DEF NoSleeperAfterClose
  <2>6. \A p \in Producers : pc[p] = "done"
    BY <2>1, <2>2, <2>5 DEF TypeOK, Inside, WaitingNotFull
  <2>7. \A c \in Consumers : pc[c] = "done"
    BY <2>1, <2>2, <2>5 DEF TypeOK, Inside, WaitingNotEmpty
  <2> QED
    BY <2>3, <2>6, <2>7 DEF AllReturned
<1>3. IInv /\ ClosersClose /\ [Next]_vars => ClosersClose'
  BY ClosersStep DEF IInv
<1> QED
  BY <1>1, <1>2, <1>3, Inductive, CloseLeavesNoSleeper, PTL DEF Spec


\* What a slot of the buffer may hold.
Cells == Items \cup {NoItem}

\* The n slots from h on, as a sequence.
Window(b, h, n) == [k \in 1 .. n |-> b[Slot(h + k - 1)]]

\* Any window of at most Capacity slots is a sequence of cells.
LEMMA WindowSeq ==
  ASSUME NEW b \in [Slots -> Cells], NEW h \in Slots, NEW n \in 0 .. Capacity
  PROVE  /\ Window(b, h, n) \in Seq(Cells)
         /\ Len(Window(b, h, n)) = n
         /\ \A k \in 1 .. n : /\ h + k - 1 \in 0 .. 2 * Capacity - 1
                              /\ Slot(h + k - 1) \in Slots
                              /\ Window(b, h, n)[k] = b[Slot(h + k - 1)]
<1>1. \A k \in 1 .. n : h + k - 1 \in 0 .. 2 * Capacity - 1
  BY QueueAssumption DEF Slots
<1>2. \A k \in 1 .. n : Slot(h + k - 1) \in Slots
  BY <1>1, SlotInRing
<1>3. \A k \in 1 .. n : b[Slot(h + k - 1)] \in Cells
  BY <1>2
<1>4. n \in Nat
  BY QueueAssumption
<1> QED
  BY <1>1, <1>2, <1>3, <1>4 DEF Window

\* A push appends to the abstract queue: it writes the slot after the last one
\* and none of the slots in use.
LEMMA ContentsStored ==
  ASSUME IInv, NEW p \in Producers, PushStore(p)
  PROVE  Contents' = Append(Contents, <<p, sent[p] + 1>>)
<1> DEFINE x == <<p, sent[p] + 1>>
<1>1. /\ count \in 0 .. Capacity - 1
      /\ count \in 0 .. Capacity
      /\ count + 1 \in 0 .. Capacity
      /\ head \in Slots
      /\ tail \in Slots
      /\ buffer \in [Slots -> Cells]
  BY QueueAssumption
     DEF PushStore, MustWaitToPush, PushIsOver, IInv, TypeOK, Cells
<1>2. x \in Cells
  BY QueueAssumption
     DEF PushStore, IInv, TypeOK, PushesLeft, Items, Cells
<1>3. /\ Contents \in Seq(Cells)
      /\ Len(Contents) = count
      /\ \A k \in 1 .. count : /\ head + k - 1 \in 0 .. 2 * Capacity - 1
                               /\ Slot(head + k - 1) \in Slots
                               /\ Contents[k] = buffer[Slot(head + k - 1)]
  <2>1. Contents = Window(buffer, head, count)
    BY DEF Contents, Window
  <2> HIDE DEF x
  <2> QED
    BY <1>1, <2>1, WindowSeq
<1>4. /\ Contents' \in Seq(Cells)
      /\ Len(Contents') = count + 1
      /\ \A k \in 1 .. count + 1 : Contents'[k] = buffer'[Slot(head + k - 1)]
  <2>1. /\ buffer' = [buffer EXCEPT ![tail] = x]
        /\ head' = head
        /\ count' = count + 1
    BY DEF PushStore
  <2> HIDE DEF x
  <2>2. buffer' \in [Slots -> Cells]
    BY <1>1, <1>2, <2>1
  <2>3. Contents' = Window(buffer', head, count + 1)
    BY <2>1 DEF Contents, Window
  <2> QED
    BY <1>1, <2>2, <2>3, WindowSeq
<1>5. Slot(head + (count + 1) - 1) = tail
  BY <1>1 DEF IInv, RingAligned, Slots
<1>6. ASSUME NEW k \in 1 .. count
      PROVE  Slot(head + k - 1) # tail
  <2>1. /\ head + count \in 0 .. 2 * Capacity - 1
        /\ head + k - 1 \in 0 .. 2 * Capacity - 1
    BY <1>1, QueueAssumption DEF Slots
  <2>2. tail = Slot(head + count)
    BY DEF IInv, RingAligned
  <2> QED
    BY <1>1, <2>1, <2>2, SlotValue, QueueAssumption DEF Slots
<1>7. /\ Append(Contents, x) \in Seq(Cells)
      /\ Len(Append(Contents, x)) = count + 1
      /\ \A k \in 1 .. count : Append(Contents, x)[k] = Contents[k]
      /\ Append(Contents, x)[count + 1] = x
  BY <1>2, <1>3, AppendProperties
<1>8. ASSUME NEW k \in 1 .. count + 1
      PROVE  Contents'[k] = Append(Contents, x)[k]
  <2>1. buffer' = [buffer EXCEPT ![tail] = x]
    BY DEF PushStore
  <2>2. CASE k = count + 1
    BY <1>1, <1>4, <1>5, <1>7, <2>1, <2>2
  <2>3. CASE k \in 1 .. count
    BY <1>1, <1>3, <1>4, <1>6, <1>7, <2>1, <2>3
  <2>4. k = count + 1 \/ k \in 1 .. count
    BY <1>1, QueueAssumption
  <2> QED
    BY <2>2, <2>3, <2>4
<1> HIDE DEF x
<1> QED
  BY <1>3, <1>4, <1>7, <1>8, SeqEqual DEF x

\* A pop returns the oldest item and removes just that one.
LEMMA ContentsTaken ==
  ASSUME IInv, NEW c \in Consumers, PopTake(c)
  PROVE  /\ Contents # <<>>
         /\ buffer[head] = Head(Contents)
         /\ Contents' = Tail(Contents)
<1>1. /\ count \in 1 .. Capacity
      /\ count \in 0 .. Capacity
      /\ count - 1 \in 0 .. Capacity
      /\ head \in Slots
      /\ head + 1 \in Nat
      /\ buffer \in [Slots -> Cells]
  BY QueueAssumption
     DEF PopTake, MustWaitToPop, PopIsOver, IInv, TypeOK, Cells, Slots
<1>2. /\ Contents \in Seq(Cells)
      /\ Len(Contents) = count
      /\ \A k \in 1 .. count : Contents[k] = buffer[Slot(head + k - 1)]
  <2>1. Contents = Window(buffer, head, count)
    BY DEF Contents, Window
  <2> QED
    BY <1>1, <2>1, WindowSeq
<1>3. Contents # <<>>
  BY <1>1, <1>2
<1>4. Head(Contents) = buffer[head]
  <2>1. Slot(head + 1 - 1) = head
    BY <1>1, SlotValue, QueueAssumption DEF Slots
  <2> QED
    BY <1>1, <1>2, <1>3, <2>1
<1>5. /\ Contents' \in Seq(Cells)
      /\ Len(Contents') = count - 1
      /\ \A k \in 1 .. count - 1 :
           Contents'[k] = buffer[Slot(Slot(head + 1) + k - 1)]
  <2>1. Contents' = Window(buffer, Slot(head + 1), count - 1)
    BY DEF PopTake, Contents, Window
  <2>2. Slot(head + 1) \in Slots
    BY <1>1, SlotInRing
  <2> QED
    BY <1>1, <2>1, <2>2, WindowSeq
<1>6. /\ Tail(Contents) \in Seq(Cells)
      /\ Len(Tail(Contents)) = count - 1
      /\ \A k \in 1 .. count - 1 : Tail(Contents)[k] = Contents[k + 1]
  BY <1>2, <1>3, HeadTailProperties
<1>7. ASSUME NEW k \in 1 .. count - 1
      PROVE  Contents'[k] = Tail(Contents)[k]
  <2>1. /\ k \in 1 .. Capacity
        /\ k + 1 \in 1 .. count
    BY <1>1, QueueAssumption
  <2>2. Slot(Slot(head + 1) + (k - 1)) = Slot(head + k)
    BY <1>1, <2>1, SlotOfRest
  <2>3. Slot(head + 1) \in Int /\ head \in Int
    BY <1>1, SlotInRing DEF Slots
  <2>4. /\ Slot(head + 1) + (k - 1) = Slot(head + 1) + k - 1
        /\ head + k = head + (k + 1) - 1
    BY <2>1, <2>3
  <2> QED
    BY <1>2, <1>5, <1>6, <2>1, <2>2, <2>4
<1> QED
  BY <1>2, <1>3, <1>4, <1>5, <1>6, <1>7, SeqEqual

\* The empty ring is the empty channel.
LEMMA InitRefines == Init => Channel!Init
<1> SUFFICES ASSUME Init PROVE Channel!Init
  OBVIOUS
<1>1. Contents = <<>>
  BY DEF Init, Contents
<1>2. {c \in Consumers : pc[c] = "done"} = {}
  BY QueueAssumption DEF Init
<1> QED
  BY <1>1, <1>2 DEF Init, Channel!Init

\* Every step of the monitor is one operation of the channel or invisible.
LEMMA StepRefines ==
  ASSUME IInv, [Next]_vars
  PROVE  [Channel!Next]_(Channel!vars)
<1> USE QueueAssumption
<1> DEFINE Drained == {c \in Consumers : pc[c] = "done"}
<1>1. ASSUME UNCHANGED ring, UNCHANGED <<closed, out>>, Drained' = Drained
      PROVE  UNCHANGED Channel!vars
  BY <1>1 DEF Channel!vars, Contents, ring
<1>2. ASSUME NEW p \in Producers, PushStep(p)
      PROVE  [Channel!Next]_(Channel!vars)
  <2>1. CASE PushStore(p)
    <3>1. Contents' = Append(Contents, <<p, sent[p] + 1>>)
      BY <2>1, ContentsStored
    <3>2. <<p, sent[p] + 1>> \in Items
      BY <2>1 DEF PushStore, IInv, TypeOK, PushesLeft, Items
    <3>3. Len(Contents) < Capacity
      BY <2>1, WindowSeq DEF PushStore, MustWaitToPush, PushIsOver, IInv,
        TypeOK, Contents, Window, Cells
    <3>4. Drained' = Drained
      BY <2>1 DEF PushStore, Goto, IInv, TypeOK
    <3> QED
      BY <2>1, <3>1, <3>2, <3>3, <3>4
         DEF PushStore, PushIsOver, Channel!Next, Channel!Accept
  <2>2. CASE ~PushStore(p)
    <3>1. Drained' = Drained
      BY <1>2, <2>2 DEF PushStep, PushLock, PushWait, PushRefuse, PushSignal,
        PushUnlock, PushReturn, Signal, WaitingNotEmpty, Goto, IInv, TypeOK
    <3> QED
      BY <1>1, <1>2, <2>2, <3>1 DEF PushStep, PushLock, PushWait, PushRefuse,
        PushSignal, PushUnlock, PushReturn
  <2> QED
    BY <2>1, <2>2
<1>3. ASSUME NEW c \in Consumers, PopStep(c)
      PROVE  [Channel!Next]_(Channel!vars)
  <2>1. CASE PopTake(c)
    <3>1. /\ Contents # <<>>
          /\ buffer[head] = Head(Contents)
          /\ Contents' = Tail(Contents)
      BY <2>1, ContentsTaken
    <3>2. Drained' = Drained /\ c \in Consumers \ Drained
      BY <2>1 DEF PopTake, Goto, IInv, TypeOK
    <3> QED
      BY <2>1, <3>1, <3>2 DEF PopTake, Channel!Next, Channel!Deliver
  <2>2. CASE PopDrained(c)
    <3>1. Contents = <<>> /\ Contents' = Contents
      BY <2>2 DEF PopDrained, PopIsOver, Contents, ring
    <3>2. Drained' = Drained \cup {c} /\ c \in Consumers \ Drained
      BY <2>2 DEF PopDrained, Goto, IInv, TypeOK
    <3> QED
      BY <2>2, <3>1, <3>2
         DEF PopDrained, PopIsOver, Channel!Next, Channel!Drain
  <2>3. CASE PopLock(c) \/ PopWait(c) \/ PopSignal(c) \/ PopUnlock(c)
    <3>1. Drained' = Drained
      BY <2>3 DEF PopLock, PopWait, PopSignal, PopUnlock, Signal,
        WaitingNotFull, Goto, IInv, TypeOK
    <3> QED
      BY <1>1, <2>3, <3>1 DEF PopLock, PopWait, PopSignal, PopUnlock
  <2> QED
    BY <1>3, <2>1, <2>2, <2>3 DEF PopStep
<1>4. ASSUME NEW t \in Closers, CloseStep(t)
      PROVE  [Channel!Next]_(Channel!vars)
  <2>1. Drained' = Drained
    BY <1>4 DEF CloseStep, CloseLock, CloseSet, CloseWakeConsumers,
      CloseWakeProducers, CloseUnlock, Broadcast, WaitingNotEmpty,
      WaitingNotFull, Goto, IInv, TypeOK
  <2>2. CASE CloseSet(t)
    BY <2>1, <2>2 DEF CloseSet, Contents, ring, Channel!Next, Channel!Close
  <2>3. CASE ~CloseSet(t)
    BY <1>1, <1>4, <2>1, <2>3 DEF CloseStep, CloseLock, CloseWakeConsumers,
      CloseWakeProducers, CloseUnlock
  <2> QED
    BY <2>2, <2>3
<1>5. ASSUME NEW t \in Producers \cup Consumers, SpuriousWakeup(t)
      PROVE  [Channel!Next]_(Channel!vars)
  <2>1. Drained' = Drained
    BY <1>5 DEF SpuriousWakeup, WaitingNotFull, WaitingNotEmpty, Goto, IInv,
      TypeOK
  <2> QED
    BY <1>1, <1>5, <2>1 DEF SpuriousWakeup
<1>6. CASE UNCHANGED vars
  BY <1>1, <1>6 DEF vars, ring
<1> QED
  BY <1>2, <1>3, <1>4, <1>5, <1>6 DEF Next, Terminated

\* task_queue.c and merge_queue.c implement the closeable bounded channel.
THEOREM ImplementsBoundedChannel == Spec => ImplementsChannel
<1>1. IInv /\ [Next]_vars => [Channel!Next]_(Channel!vars)
  BY StepRefines
<1> QED
  BY InitRefines, <1>1, Inductive, PTL DEF Spec, ImplementsChannel, Channel!Spec

-----------------------------------------------------------------------------
(* The threads cannot go on for ever.  Every thread has so many steps left *)
(* at most: a push or a pop brings a waiter back once, a close brings back *)
(* everybody, twice.                                                       *)

\* The broadcasts that closers have still to make.
Broadcasts ==
    At(Closers, pc, {"close", "closeSet", "closeWakeConsumers"})
  + At(Closers, pc, {"close", "closeSet", "closeWakeConsumers", "closeWakeProducers"})

\* What a producer has spent of the 12 that each of its pushes is worth.
Spent(l) ==
  IF l \in {"push", "pushAwake"} THEN -2
  ELSE IF l = "pushTest" THEN -1
  ELSE IF l = "pushSignal" THEN 6
  ELSE IF l = "pushUnlock" THEN 9
  ELSE 0

\* What a consumer has in hand: an item it takes leaves the queue.
InHand(l) ==
  IF l \in {"pop", "popAwake"} THEN 2
  ELSE IF l = "popTest" THEN 1
  ELSE IF l = "popSignal" THEN 6
  ELSE IF l = "popUnlock" THEN 3
  ELSE 0

\* The steps of a closer.
ToClose(l) ==
  IF l = "close" THEN 5
  ELSE IF l = "closeSet" THEN 4
  ELSE IF l = "closeWakeConsumers" THEN 3
  ELSE IF l = "closeWakeProducers" THEN 2
  ELSE IF l = "closeUnlock" THEN 1
  ELSE 0

ThreadLeft(t) ==
  IF t \in Producers THEN 12 * (Load - sent[t]) - Spent(pc[t]) + 2 * Broadcasts
  ELSE IF t \in Consumers THEN InHand(pc[t]) + 2 * Broadcasts
  ELSE ToClose(pc[t])

ThreadsLeft == SumOf([t \in Threads |-> ThreadLeft(t)])

RestLeft == 6 * count + 3 * (MaxSpurious - spurious)

StepsLeft == RestLeft + ThreadsLeft

LeftOK ==
  /\ RestLeft \in Nat
  /\ \A t \in Threads : ThreadLeft(t) \in Nat
  /\ ThreadsLeft \in Nat

LEMMA ThreadsFinite == IsFiniteSet(Threads)
BY QueueAssumption, FS_Union

LEMMA LeftTypes == TypeOK /\ PushesLeft => LeftOK
<1> SUFFICES ASSUME TypeOK, PushesLeft PROVE LeftOK
  OBVIOUS
<1>1. RestLeft \in Nat
  BY QueueAssumption DEF TypeOK, RestLeft
<1>2. Broadcasts \in Nat
  <2>1. IsFiniteSet(Closers) /\ \A t \in Closers : pc[t] = pc[t]
    BY QueueAssumption
  <2>2. \A L : At(Closers, pc, L) \in Nat
    BY <2>1, AtStays
  <2> QED
    BY <2>2 DEF Broadcasts
<1>3. ASSUME NEW t \in Producers
      PROVE  12 * (Load - sent[t]) - Spent(pc[t]) + 2 * Broadcasts \in Nat
  <2>1. pc[t] \in PushPc /\ sent[t] \in 0 .. Load /\ Load \in Nat
    BY QueueAssumption DEF TypeOK
  <2>2. CASE pc[t] = "done"
    BY <1>2, <2>1, <2>2 DEF Spent
  <2>3. CASE pc[t] # "done"
    <3>1. sent[t] < Load
      BY <2>3 DEF PushesLeft
    <3>2. Spent(pc[t]) \in -2 .. 9
      BY <2>1 DEF Spent
    <3> QED
      BY <1>2, <2>1, <3>1, <3>2
  <2> QED
    BY <2>2, <2>3
<1>4. \A l : InHand(l) \in Nat /\ ToClose(l) \in Nat
  BY DEF InHand, ToClose
<1>5. \A t \in Threads : ThreadLeft(t) \in Nat
  <2>1. ASSUME NEW t \in Threads, t \notin Producers
        PROVE  ThreadLeft(t) \in Nat
    <3>1. InHand(pc[t]) \in Nat /\ ToClose(pc[t]) \in Nat
      BY <1>4
    <3> QED
      BY <1>2, <2>1, <3>1 DEF ThreadLeft
  <2>2. ASSUME NEW t \in Producers
        PROVE  ThreadLeft(t) \in Nat
    BY <1>3, <2>2 DEF ThreadLeft
  <2> QED
    BY <2>1, <2>2
<1>6. ThreadsLeft \in Nat
  <2>1. [t \in Threads |-> ThreadLeft(t)] \in [Threads -> Nat]
    BY <1>5
  <2> QED
    BY <2>1, ThreadsFinite, SumType DEF ThreadsLeft
<1> QED
  BY <1>1, <1>5, <1>6 DEF LeftOK

\* Nothing grows for the threads but the two that moved, and those two and
\* the rest shrink together.
LEMMA TwoShrink ==
  ASSUME LeftOK, LeftOK', NEW t \in Threads, NEW w \in Threads, t # w,
         \A u \in Threads \ {t, w} : ThreadLeft(u)' = ThreadLeft(u),
         RestLeft' + ThreadLeft(t)' + ThreadLeft(w)'
           < RestLeft + ThreadLeft(t) + ThreadLeft(w)
  PROVE  StepsLeft' < StepsLeft
<1> DEFINE r == [u \in Threads |-> ThreadLeft(u)]
           s == [u \in Threads |-> ThreadLeft(u)']
           m == [r EXCEPT ![t] = ThreadLeft(t)']
<1>1. /\ r \in [Threads -> Nat] /\ s \in [Threads -> Nat] /\ m \in [Threads -> Nat]
      /\ RestLeft \in Nat /\ RestLeft' \in Nat
  BY DEF LeftOK
<1>2. \A u \in Threads \ {t} : m[u] = r[u]
  OBVIOUS
<1>3. \A u \in Threads \ {w} : s[u] = m[u]
  OBVIOUS
<1>4. /\ r[t] = ThreadLeft(t) /\ r[w] = ThreadLeft(w)
      /\ m[t] = s[t] /\ m[w] = r[w]
      /\ s[t] = ThreadLeft(t)' /\ s[w] = ThreadLeft(w)'
  OBVIOUS
<1>5. ThreadsLeft = SumOf(r) /\ ThreadsLeft' = SumOf(s)
  BY DEF ThreadsLeft
<1>6. RestLeft' + s[t] + s[w] < RestLeft + r[t] + r[w]
  BY <1>4
<1> HIDE DEF r, s, m
<1>7. /\ SumOf(r) \in Nat /\ SumOf(m) \in Nat
      /\ SumOf(m) + r[t] = SumOf(r) + m[t]
  BY <1>1, <1>2, ThreadsFinite, SumChange
<1>8. /\ SumOf(s) \in Nat
      /\ SumOf(s) + m[w] = SumOf(m) + s[w]
  BY <1>1, <1>3, ThreadsFinite, SumChange
<1>9. {r[t], r[w], m[t], m[w], s[t], s[w]} \subseteq Nat
  BY <1>1
<1> QED
  BY <1>1, <1>4, <1>5, <1>6, <1>7, <1>8, <1>9 DEF StepsLeft

LEMMA OneShrinks ==
  ASSUME LeftOK, LeftOK', NEW t \in Threads,
         \A u \in Threads \ {t} : ThreadLeft(u)' = ThreadLeft(u),
         RestLeft' + ThreadLeft(t)' < RestLeft + ThreadLeft(t)
  PROVE  StepsLeft' < StepsLeft
<1> DEFINE r == [u \in Threads |-> ThreadLeft(u)]
           s == [u \in Threads |-> ThreadLeft(u)']
<1>1. /\ r \in [Threads -> Nat] /\ s \in [Threads -> Nat]
      /\ RestLeft \in Nat /\ RestLeft' \in Nat
  BY DEF LeftOK
<1>2. \A u \in Threads \ {t} : s[u] = r[u]
  OBVIOUS
<1>3. r[t] = ThreadLeft(t) /\ s[t] = ThreadLeft(t)'
  OBVIOUS
<1>4. ThreadsLeft = SumOf(r) /\ ThreadsLeft' = SumOf(s)
  BY DEF ThreadsLeft
<1>5. RestLeft' + s[t] < RestLeft + r[t]
  BY <1>3
<1> HIDE DEF r, s
<1>6. /\ SumOf(r) \in Nat /\ SumOf(s) \in Nat
      /\ SumOf(s) + r[t] = SumOf(r) + s[t]
  BY <1>1, <1>2, ThreadsFinite, SumChange
<1>7. r[t] \in Nat /\ s[t] \in Nat
  BY <1>1
<1> QED
  BY <1>1, <1>4, <1>5, <1>6, <1>7 DEF StepsLeft

\* Nobody's share grows and one shrinks.
LEMMA AllShrink ==
  ASSUME LeftOK, LeftOK', NEW t \in Threads,
         \A u \in Threads : ThreadLeft(u)' <= ThreadLeft(u),
         ThreadLeft(t)' < ThreadLeft(t), RestLeft' = RestLeft
  PROVE  StepsLeft' < StepsLeft
<1> DEFINE r == [u \in Threads |-> ThreadLeft(u)]
           s == [u \in Threads |-> ThreadLeft(u)']
           m == [r EXCEPT ![t] = ThreadLeft(t)']
<1>1. /\ r \in [Threads -> Nat] /\ s \in [Threads -> Nat] /\ m \in [Threads -> Nat]
      /\ RestLeft \in Nat
  BY DEF LeftOK
<1>2. \A u \in Threads \ {t} : m[u] = r[u]
  OBVIOUS
<1>3. \A u \in Threads : s[u] \in Nat /\ m[u] \in Nat /\ s[u] <= m[u]
  BY DEF LeftOK
<1>4. m[t] < r[t]
  OBVIOUS
<1>5. ThreadsLeft = SumOf(r) /\ ThreadsLeft' = SumOf(s)
  BY DEF ThreadsLeft
<1> HIDE DEF r, s, m
<1>6. /\ SumOf(r) \in Nat /\ SumOf(m) \in Nat
      /\ SumOf(m) + r[t] = SumOf(r) + m[t]
  BY <1>1, <1>2, ThreadsFinite, SumChange
<1>7. SumOf(s) \in Nat /\ SumOf(s) <= SumOf(m)
  <2>1. /\ SumOf(s) = Cardinality(Pile(s, Threads))
        /\ SumOf(m) = Cardinality(Pile(m, Threads))
    BY <1>1, ThreadsFinite, FoldAllIs DEF SumOf
  <2> QED
    BY <1>3, <2>1, ThreadsFinite, SumMonotone
<1>8. r[t] \in Nat /\ m[t] \in Nat
  BY <1>1
<1> QED
  BY <1>1, <1>4, <1>5, <1>6, <1>7, <1>8 DEF StepsLeft

\* Only threads that move, and closers, change what is left of a thread.
LEMMA ThreadStays ==
  ASSUME NEW t \in Threads, pc'[t] = pc[t],
         t \in Producers => sent'[t] = sent[t],
         Broadcasts' = Broadcasts
  PROVE  ThreadLeft(t)' = ThreadLeft(t)
BY DEF ThreadLeft

LEMMA BroadcastsStay ==
  ASSUME \A t \in Closers : pc'[t] = pc[t]
  PROVE  Broadcasts' = Broadcasts /\ Broadcasts \in Nat
<1>1. \A L : At(Closers, pc, L) \in Nat /\ At(Closers, pc', L) = At(Closers, pc, L)
  BY QueueAssumption, AtStays
<1>2. Broadcasts' =
          At(Closers, pc', {"close", "closeSet", "closeWakeConsumers"})
        + At(Closers, pc', {"close", "closeSet", "closeWakeConsumers", "closeWakeProducers"})
  BY DEF Broadcasts, At
<1> QED
  BY <1>1, <1>2 DEF Broadcasts

\* What a step of push leaves.
LEMMA PushShrinks ==
  ASSUME IInv, IInv', NEW p \in Producers, PushStep(p)
  PROVE  StepsLeft' < StepsLeft
<1> USE QueueAssumption
<1>1. LeftOK /\ LeftOK'
  BY LeftTypes, PTL DEF IInv
<1>2. /\ pc \in Counters /\ sent \in [Producers -> 0 .. Load]
      /\ count \in 0 .. Capacity /\ spurious \in 0 .. MaxSpurious
      /\ Load \in Nat /\ MaxSpurious \in Nat /\ Capacity \in Nat
      /\ sent[p] \in 0 .. Load
  BY DEF IInv, TypeOK, Counters
<1>3. Broadcasts' = Broadcasts /\ Broadcasts \in Nat
  <2>1. \A t \in Closers : pc'[t] = pc[t]
    BY <1>2 DEF Counters, PushStep, PushLock, PushWait, PushRefuse, PushStore,
      PushSignal, PushUnlock, PushReturn, Goto, Signal, WaitingNotEmpty
  <2> QED
    BY <2>1, BroadcastsStay
<1>4. /\ ThreadLeft(p) = 12 * (Load - sent[p]) - Spent(pc[p]) + 2 * Broadcasts
      /\ ThreadLeft(p)' = 12 * (Load - sent'[p]) - Spent(pc'[p]) + 2 * Broadcasts
  BY <1>3 DEF ThreadLeft
<1>5. ASSUME NEW l, Goto(p, l), \A q \in Producers \ {p} : sent'[q] = sent[q],
             sent'[p] \in 0 .. Load, spurious' = spurious, count' \in 0 .. Capacity,
             Spent(pc[p]) \in -2 .. 9, Spent(l) \in -2 .. 9,
             6 * count' - Spent(l) - 12 * sent'[p]
               < 6 * count - Spent(pc[p]) - 12 * sent[p]
      PROVE  StepsLeft' < StepsLeft
  <2>1. pc'[p] = l /\ \A u \in Threads \ {p} : pc'[u] = pc[u]
    BY <1>2, <1>5 DEF Goto, Counters
  <2>2. \A u \in Threads \ {p} : ThreadLeft(u)' = ThreadLeft(u)
    BY <1>3, <1>5, <2>1, ThreadStays
  <2>3. RestLeft' + ThreadLeft(p)' < RestLeft + ThreadLeft(p)
    BY <1>2, <1>3, <1>4, <1>5, <2>1 DEF RestLeft
  <2> QED
    BY <1>1, <2>2, <2>3, OneShrinks
<1>6. CASE PushLock(p)
  <2>1. /\ Spent(pc[p]) = -2 /\ Spent("pushTest") = -1 /\ Goto(p, "pushTest")
        /\ sent' = sent /\ spurious' = spurious /\ count' = count
    BY <1>6 DEF PushLock, Spent, ring
  <2> QED
    BY <1>2, <1>5, <2>1
<1>7. CASE PushWait(p)
  <2>1. /\ Spent(pc[p]) = -1 /\ Spent("pushAsleep") = 0 /\ Goto(p, "pushAsleep")
        /\ sent' = sent /\ spurious' = spurious /\ count' = count
    BY <1>7 DEF PushWait, Spent, ring
  <2> QED
    BY <1>2, <1>5, <2>1
<1>8. CASE PushRefuse(p) \/ PushUnlock(p)
  <2> DEFINE l == IF sent[p] + 1 < Load THEN "push" ELSE "done"
  <2>1. /\ Spent(pc[p]) \in {-1, 9} /\ Spent(l) \in {-2, 0} /\ Goto(p, l)
        /\ pc[p] # "done"
        /\ sent' = [sent EXCEPT ![p] = @ + 1]
        /\ spurious' = spurious /\ count' = count
    BY <1>8 DEF PushRefuse, PushUnlock, PushReturn, Spent, ring
  <2>2. sent'[p] = sent[p] + 1 /\ \A q \in Producers \ {p} : sent'[q] = sent[q]
    BY <1>2, <2>1
  <2>3. sent[p] < Load
    BY <2>1 DEF IInv, PushesLeft
  <2> HIDE DEF l
  <2> QED
    BY <1>2, <1>5, <2>1, <2>2, <2>3
<1>9. CASE PushStore(p)
  <2>1. /\ Spent(pc[p]) = -1 /\ Spent("pushSignal") = 6 /\ Goto(p, "pushSignal")
        /\ sent' = sent /\ spurious' = spurious /\ count' = count + 1
    BY <1>9 DEF PushStore, Spent
  <2>2. count' \in 0 .. Capacity
    BY DEF IInv, TypeOK
  <2> QED
    BY <1>2, <1>5, <2>1, <2>2
<1>10. CASE PushSignal(p)
  <2>1. /\ Spent(pc[p]) = 6 /\ Spent("pushUnlock") = 9
        /\ sent' = sent /\ spurious' = spurious /\ count' = count
    BY <1>10 DEF PushSignal, Spent, ring
  <2>2. CASE Goto(p, "pushUnlock")
    BY <1>2, <1>5, <2>1, <2>2
  <2>3. ASSUME NEW w \in WaitingNotEmpty,
               pc' = [pc EXCEPT ![p] = "pushUnlock", ![w] = "popAwake"]
        PROVE  StepsLeft' < StepsLeft
    <3>1. /\ w \in Consumers /\ pc[w] = "popAsleep" /\ w \notin Producers /\ w # p
      BY <2>3 DEF WaitingNotEmpty
    <3>2. /\ pc'[p] = "pushUnlock" /\ pc'[w] = "popAwake"
          /\ \A u \in Threads \ {p, w} : pc'[u] = pc[u]
      BY <1>2, <2>3, <3>1 DEF Counters
    <3>3. \A u \in Threads \ {p, w} : ThreadLeft(u)' = ThreadLeft(u)
      BY <1>3, <2>1, <3>2, ThreadStays
    <3>4. /\ ThreadLeft(w) = 2 * Broadcasts
          /\ ThreadLeft(w)' = 2 + 2 * Broadcasts
      BY <1>3, <3>1, <3>2 DEF ThreadLeft, InHand
    <3>5. RestLeft' + ThreadLeft(p)' + ThreadLeft(w)'
            < RestLeft + ThreadLeft(p) + ThreadLeft(w)
      BY <1>2, <1>3, <1>4, <2>1, <3>2, <3>4 DEF RestLeft
    <3> QED
      BY <1>1, <3>1, <3>3, <3>5, TwoShrink
  <2> QED
    BY <1>10, <2>2, <2>3 DEF PushSignal, Signal
<1> QED
  BY <1>6, <1>7, <1>8, <1>9, <1>10 DEF PushStep

\* What a step of pop leaves.
LEMMA PopShrinks ==
  ASSUME IInv, IInv', NEW c \in Consumers, PopStep(c)
  PROVE  StepsLeft' < StepsLeft
<1> USE QueueAssumption
<1>1. LeftOK /\ LeftOK'
  BY LeftTypes, PTL DEF IInv
<1>2. /\ pc \in Counters /\ c \notin Producers /\ c \notin Closers
      /\ count \in 0 .. Capacity /\ count' \in 0 .. Capacity
      /\ spurious \in 0 .. MaxSpurious
      /\ MaxSpurious \in Nat /\ Capacity \in Nat
  BY DEF IInv, TypeOK, Counters
<1>3. Broadcasts' = Broadcasts /\ Broadcasts \in Nat
  <2>1. \A t \in Closers : pc'[t] = pc[t]
    BY <1>2 DEF Counters, PopStep, PopLock, PopWait, PopDrained, PopTake,
      PopSignal, PopUnlock, Goto, Signal, WaitingNotFull
  <2> QED
    BY <2>1, BroadcastsStay
<1>4. /\ sent' = sent /\ spurious' = spurious
  BY DEF PopStep, PopLock, PopWait, PopDrained, PopTake, PopSignal, PopUnlock
<1>5. /\ ThreadLeft(c) = InHand(pc[c]) + 2 * Broadcasts
      /\ ThreadLeft(c)' = InHand(pc'[c]) + 2 * Broadcasts
  BY <1>2, <1>3 DEF ThreadLeft
<1>6. \A l : InHand(l) \in Nat
  BY DEF InHand
<1>7. ASSUME NEW l, Goto(c, l), 6 * count' + InHand(l) < 6 * count + InHand(pc[c])
      PROVE  StepsLeft' < StepsLeft
  <2>1. pc'[c] = l /\ \A u \in Threads \ {c} : pc'[u] = pc[u]
    BY <1>2, <1>7 DEF Goto, Counters
  <2>2. \A u \in Threads \ {c} : ThreadLeft(u)' = ThreadLeft(u)
    BY <1>3, <1>4, <2>1, ThreadStays
  <2>3. InHand(l) \in Nat /\ InHand(pc[c]) \in Nat
    BY <1>6
  <2>4. RestLeft' + ThreadLeft(c)' < RestLeft + ThreadLeft(c)
    BY <1>2, <1>3, <1>4, <1>5, <1>7, <2>1, <2>3 DEF RestLeft
  <2> QED
    BY <1>1, <2>2, <2>4, OneShrinks
<1>8. CASE PopLock(c) \/ PopWait(c) \/ PopDrained(c) \/ PopUnlock(c)
  <2>1. /\ count' = count
        /\ \/ InHand(pc[c]) = 2 /\ Goto(c, "popTest") /\ InHand("popTest") = 1
           \/ InHand(pc[c]) = 1 /\ Goto(c, "popAsleep") /\ InHand("popAsleep") = 0
           \/ InHand(pc[c]) = 1 /\ Goto(c, "done") /\ InHand("done") = 0
           \/ InHand(pc[c]) = 3 /\ Goto(c, "pop") /\ InHand("pop") = 2
    BY <1>8 DEF PopLock, PopWait, PopDrained, PopUnlock, InHand, ring
  <2> QED
    BY <1>2, <1>7, <2>1
<1>9. CASE PopTake(c)
  <2>1. /\ InHand(pc[c]) = 1 /\ InHand("popSignal") = 6 /\ Goto(c, "popSignal")
        /\ count' = count - 1
    BY <1>9 DEF PopTake, InHand
  <2> QED
    BY <1>2, <1>7, <2>1
<1>10. CASE PopSignal(c)
  <2>1. InHand(pc[c]) = 6 /\ InHand("popUnlock") = 3 /\ count' = count
    BY <1>10 DEF PopSignal, InHand, ring
  <2>2. CASE Goto(c, "popUnlock")
    BY <1>2, <1>7, <2>1, <2>2
  <2>3. ASSUME NEW w \in WaitingNotFull,
               pc' = [pc EXCEPT ![c] = "popUnlock", ![w] = "pushAwake"]
        PROVE  StepsLeft' < StepsLeft
    <3>1. w \in Producers /\ pc[w] = "pushAsleep" /\ w # c
      BY <1>2, <2>3 DEF WaitingNotFull
    <3>2. /\ pc'[c] = "popUnlock" /\ pc'[w] = "pushAwake"
          /\ \A u \in Threads \ {c, w} : pc'[u] = pc[u]
      BY <1>2, <2>3, <3>1 DEF Counters
    <3>3. \A u \in Threads \ {c, w} : ThreadLeft(u)' = ThreadLeft(u)
      BY <1>3, <1>4, <3>2, ThreadStays
    <3>4. ThreadLeft(w)' = ThreadLeft(w) + 2 /\ ThreadLeft(w) \in Nat
      <4>1. Spent("pushAsleep") = 0 /\ Spent("pushAwake") = -2
        BY DEF Spent
      <4>2. /\ ThreadLeft(w) = 12 * (Load - sent[w]) - 0 + 2 * Broadcasts
            /\ ThreadLeft(w)' = 12 * (Load - sent[w]) - (-2) + 2 * Broadcasts
        BY <1>3, <1>4, <3>1, <3>2, <4>1 DEF ThreadLeft
      <4>3. sent[w] \in Int /\ Load \in Int
        BY <3>1 DEF IInv, TypeOK
      <4> QED
        BY <1>1, <1>3, <3>1, <4>2, <4>3 DEF LeftOK
    <3>5. RestLeft' + ThreadLeft(c)' + ThreadLeft(w)'
            < RestLeft + ThreadLeft(c) + ThreadLeft(w)
      BY <1>2, <1>3, <1>4, <1>5, <2>1, <3>2, <3>4 DEF RestLeft
    <3> QED
      BY <1>1, <3>1, <3>3, <3>5, TwoShrink
  <2> QED
    BY <1>10, <2>2, <2>3 DEF PopSignal, Signal
<1> QED
  BY <1>8, <1>9, <1>10 DEF PopStep

\* What a step of close leaves: a broadcast costs each thread it wakes no more
\* than what the thread was allowed for that broadcast.
LEMMA CloseShrinks ==
  ASSUME IInv, IInv', NEW t \in Closers, CloseStep(t)
  PROVE  StepsLeft' < StepsLeft
<1> USE QueueAssumption
<1> DEFINE A == {"close", "closeSet", "closeWakeConsumers"}
           B == {"close", "closeSet", "closeWakeConsumers", "closeWakeProducers"}
<1>1. LeftOK /\ LeftOK'
  BY LeftTypes, PTL DEF IInv
<1>2. /\ pc \in Counters /\ pc' \in Counters /\ sent' = sent
      /\ t \notin Producers /\ t \notin Consumers
      /\ RestLeft' = RestLeft /\ RestLeft \in Nat
  BY <1>1 DEF IInv, TypeOK, Counters, LeftOK, RestLeft, CloseStep, CloseLock,
    CloseSet, CloseWakeConsumers, CloseWakeProducers, CloseUnlock, ring
<1>3. ThreadLeft(t) = ToClose(pc[t]) /\ ThreadLeft(t)' = ToClose(pc'[t])
  BY <1>2 DEF ThreadLeft
<1>4. \A u \in Closers \ {t} : pc'[u] = pc[u]
  BY <1>2 DEF Counters, CloseStep, CloseLock, CloseSet, CloseWakeConsumers,
    CloseWakeProducers, CloseUnlock, Goto, Broadcast, WaitingNotEmpty,
    WaitingNotFull
<1>5. /\ Broadcasts \in Nat
      /\ Broadcasts' = Broadcasts + In(pc'[t], A) - In(pc[t], A)
                                  + In(pc'[t], B) - In(pc[t], B)
  <2>1. \A L : AtMoved(Closers, pc, pc', t, L)
    BY <1>4, AtMoves
  <2>2. Broadcasts = At(Closers, pc, A) + At(Closers, pc, B)
    BY DEF Broadcasts
  <2>3. Broadcasts' = At(Closers, pc', A) + At(Closers, pc', B)
    BY DEF Broadcasts, At
  <2>4. /\ {At(Closers, pc, A), At(Closers, pc, B)} \subseteq Nat
        /\ At(Closers, pc', A) = At(Closers, pc, A) + In(pc'[t], A) - In(pc[t], A)
        /\ At(Closers, pc', B) = At(Closers, pc, B) + In(pc'[t], B) - In(pc[t], B)
    BY <2>1 DEF AtMoved
  <2>5. {In(pc'[t], A), In(pc[t], A), In(pc'[t], B), In(pc[t], B)} \subseteq Nat
    BY DEF In
  <2> HIDE DEF A, B
  <2> QED
    BY <2>2, <2>3, <2>4, <2>5
<1>6. ASSUME Broadcasts' = Broadcasts,
             \A u \in Threads \ {t} : pc'[u] = pc[u],
             ToClose(pc'[t]) < ToClose(pc[t])
      PROVE  StepsLeft' < StepsLeft
  <2>1. \A u \in Threads \ {t} : ThreadLeft(u)' = ThreadLeft(u)
    BY <1>2, <1>6, ThreadStays
  <2>2. ToClose(pc'[t]) \in Nat /\ ToClose(pc[t]) \in Nat
    BY DEF ToClose
  <2>3. RestLeft' + ThreadLeft(t)' < RestLeft + ThreadLeft(t)
    BY <1>2, <1>3, <1>6, <2>2
  <2> QED
    BY <1>1, <2>1, <2>3, OneShrinks
<1>7. ASSUME Broadcasts' = Broadcasts - 1,
             \A p \in Producers : \/ pc'[p] = pc[p]
                                  \/ pc[p] = "pushAsleep" /\ pc'[p] = "pushAwake",
             \A c \in Consumers : \/ pc'[c] = pc[c]
                                  \/ pc[c] = "popAsleep" /\ pc'[c] = "popAwake",
             ToClose(pc'[t]) < ToClose(pc[t])
      PROVE  StepsLeft' < StepsLeft
  <2>1. ASSUME NEW p \in Producers
        PROVE  ThreadLeft(p)' <= ThreadLeft(p)
    <3>1. /\ ThreadLeft(p) = 12 * (Load - sent[p]) - Spent(pc[p]) + 2 * Broadcasts
          /\ ThreadLeft(p)' = 12 * (Load - sent[p]) - Spent(pc'[p]) + 2 * (Broadcasts - 1)
      BY <1>2, <1>7 DEF ThreadLeft
    <3>2. Spent(pc[p]) - Spent(pc'[p]) \in 0 .. 2 /\ Spent(pc[p]) \in Int /\ Spent(pc'[p]) \in Int
      BY <1>7 DEF Spent
    <3>3. sent[p] \in Int /\ Load \in Int
      BY DEF IInv, TypeOK
    <3> QED
      BY <1>5, <3>1, <3>2, <3>3
  <2>2. ASSUME NEW c \in Consumers
        PROVE  ThreadLeft(c)' <= ThreadLeft(c)
    <3>1. /\ ThreadLeft(c) = InHand(pc[c]) + 2 * Broadcasts
          /\ ThreadLeft(c)' = InHand(pc'[c]) + 2 * (Broadcasts - 1)
      BY <1>7 DEF ThreadLeft
    <3>2. InHand(pc'[c]) - InHand(pc[c]) \in 0 .. 2 /\ InHand(pc[c]) \in Int /\ InHand(pc'[c]) \in Int
      BY <1>7 DEF InHand
    <3> QED
      BY <1>5, <3>1, <3>2
  <2>3. ASSUME NEW u \in Closers \ {t}
        PROVE  ThreadLeft(u)' <= ThreadLeft(u)
    <3>1. /\ ThreadLeft(u) = ToClose(pc[u])
          /\ ThreadLeft(u)' = ToClose(pc[u])
      BY <1>4 DEF ThreadLeft
    <3>2. ToClose(pc[u]) \in Int
      BY DEF ToClose
    <3> QED
      BY <3>1, <3>2
  <2>4. ThreadLeft(t)' < ThreadLeft(t) /\ ThreadLeft(t)' <= ThreadLeft(t)
    <3>1. ToClose(pc'[t]) \in Nat /\ ToClose(pc[t]) \in Nat
      BY DEF ToClose
    <3> QED
      BY <1>3, <1>7, <3>1
  <2>5. \A u \in Threads : ThreadLeft(u)' <= ThreadLeft(u)
    BY <2>1, <2>2, <2>3, <2>4
  <2> QED
    BY <1>1, <1>2, <2>4, <2>5, AllShrink
<1>8. CASE CloseLock(t) \/ CloseSet(t) \/ CloseUnlock(t)
  <2>1. /\ \A u \in Threads \ {t} : pc'[u] = pc[u]
        /\ \/ pc[t] = "close" /\ pc'[t] = "closeSet"
           \/ pc[t] = "closeSet" /\ pc'[t] = "closeWakeConsumers"
           \/ pc[t] = "closeUnlock" /\ pc'[t] = "done"
    BY <1>2, <1>8 DEF CloseLock, CloseSet, CloseUnlock, Goto, Counters
  <2>2. In(pc'[t], A) = In(pc[t], A) /\ In(pc'[t], B) = In(pc[t], B)
    BY <2>1 DEF In
  <2>3. {In(pc[t], A), In(pc[t], B)} \subseteq Nat
    BY DEF In
  <2>4. Broadcasts' = Broadcasts
    <3> HIDE DEF A, B
    <3> QED
      BY <1>5, <2>2, <2>3
  <2>5. ToClose(pc'[t]) < ToClose(pc[t])
    BY <2>1 DEF ToClose
  <2> QED
    BY <1>6, <2>1, <2>4, <2>5
<1>9. CASE CloseWakeConsumers(t) \/ CloseWakeProducers(t)
  <2>1. \/ /\ pc[t] = "closeWakeConsumers"
           /\ pc'[t] = "closeWakeProducers"
           /\ In(pc[t], A) = 1 /\ In(pc'[t], A) = 0
           /\ In(pc[t], B) = 1 /\ In(pc'[t], B) = 1
        \/ /\ pc[t] = "closeWakeProducers"
           /\ pc'[t] = "closeUnlock"
           /\ In(pc[t], A) = 0 /\ In(pc'[t], A) = 0
           /\ In(pc[t], B) = 1 /\ In(pc'[t], B) = 0
    BY <1>9 DEF CloseWakeConsumers, CloseWakeProducers, Broadcast, In
  <2>2. Broadcasts' = Broadcasts - 1
    <3> HIDE DEF A, B
    <3> QED
      BY <1>5, <2>1
  <2>3. /\ \A p \in Producers : \/ pc'[p] = pc[p]
                                \/ pc[p] = "pushAsleep" /\ pc'[p] = "pushAwake"
        /\ \A c \in Consumers : \/ pc'[c] = pc[c]
                                \/ pc[c] = "popAsleep" /\ pc'[c] = "popAwake"
    BY <1>2, <1>9 DEF CloseWakeConsumers, CloseWakeProducers, Broadcast,
      WaitingNotEmpty, WaitingNotFull
  <2>4. ToClose(pc'[t]) < ToClose(pc[t])
    BY <2>1 DEF ToClose
  <2> QED
    BY <1>7, <2>2, <2>3, <2>4
<1> QED
  BY <1>8, <1>9 DEF CloseStep

\* A spurious wake-up is paid for by the bound on them.
LEMMA SpuriousShrinks ==
  ASSUME IInv, IInv', NEW t \in Producers \cup Consumers, SpuriousWakeup(t)
  PROVE  StepsLeft' < StepsLeft
<1> USE QueueAssumption
<1>1. LeftOK /\ LeftOK'
  BY LeftTypes, PTL DEF IInv
<1>2. /\ pc \in Counters /\ sent' = sent /\ count' = count
      /\ spurious' = spurious + 1
      /\ count \in 0 .. Capacity /\ spurious \in 0 .. MaxSpurious
      /\ MaxSpurious \in Nat /\ Capacity \in Nat
  BY DEF IInv, TypeOK, Counters, SpuriousWakeup, ring
<1>3. \/ /\ t \in Producers /\ pc[t] = "pushAsleep" /\ pc'[t] = "pushAwake"
      \/ /\ t \in Consumers /\ pc[t] = "popAsleep" /\ pc'[t] = "popAwake"
  BY <1>2 DEF SpuriousWakeup, WaitingNotFull, WaitingNotEmpty, Goto, Counters
<1>4. \A u \in Threads \ {t} : pc'[u] = pc[u]
  BY <1>2 DEF SpuriousWakeup, Goto, Counters
<1>5. Broadcasts' = Broadcasts /\ Broadcasts \in Nat
  BY <1>4, BroadcastsStay
<1>6. \A u \in Threads \ {t} : ThreadLeft(u)' = ThreadLeft(u)
  BY <1>2, <1>4, <1>5, ThreadStays
<1>7. ThreadLeft(t)' = ThreadLeft(t) + 2 /\ ThreadLeft(t) \in Nat
  <2>1. CASE t \in Producers
    <3>1. Spent("pushAsleep") = 0 /\ Spent("pushAwake") = -2
      BY DEF Spent
    <3>2. pc[t] = "pushAsleep" /\ pc'[t] = "pushAwake"
      BY <1>3, <2>1
    <3>3. /\ ThreadLeft(t) = 12 * (Load - sent[t]) - 0 + 2 * Broadcasts
          /\ ThreadLeft(t)' = 12 * (Load - sent[t]) - (-2) + 2 * Broadcasts
      BY <1>2, <1>5, <2>1, <3>1, <3>2 DEF ThreadLeft
    <3>4. sent[t] \in Int /\ Load \in Int
      BY <2>1 DEF IInv, TypeOK
    <3> QED
      BY <1>1, <1>5, <3>3, <3>4 DEF LeftOK
  <2>2. CASE t \in Consumers
    <3>1. InHand("popAsleep") = 0 /\ InHand("popAwake") = 2
      BY DEF InHand
    <3>2. pc[t] = "popAsleep" /\ pc'[t] = "popAwake" /\ t \notin Producers
      BY <1>3, <2>2
    <3>3. /\ ThreadLeft(t) = 0 + 2 * Broadcasts
          /\ ThreadLeft(t)' = 2 + 2 * Broadcasts
      BY <1>5, <2>2, <3>1, <3>2 DEF ThreadLeft
    <3> QED
      BY <1>5, <3>3
  <2> QED
    BY <2>1, <2>2
<1>8. RestLeft' + ThreadLeft(t)' < RestLeft + ThreadLeft(t)
  BY <1>2, <1>7 DEF RestLeft
<1> QED
  BY <1>1, <1>6, <1>8, OneShrinks

\* Every step but stuttering leaves fewer to take.
LEMMA StepShrinks ==
  IInv /\ IInv' /\ [Next]_vars => [StepsLeft' < StepsLeft]_vars
<1> SUFFICES ASSUME IInv, IInv', [Next]_vars, ~UNCHANGED vars
             PROVE  StepsLeft' < StepsLeft
  OBVIOUS
<1> QED
  BY PushShrinks, PopShrinks, CloseShrinks, SpuriousShrinks DEF Next, Terminated

\* Every step of a thread leaves fewer to take, so pushes, pops and closes
\* cannot go round for ever, however the mutex and the signals are handed out:
\* with NoDeadlock, every call returns if some closer closes and the threads
\* that can run are scheduled.
THEOREM StepsRunOut ==
  Spec => [](StepsLeft \in Nat) /\ [][StepsLeft' < StepsLeft]_vars
<1>1. IInv => StepsLeft \in Nat
  BY LeftTypes DEF IInv, LeftOK, StepsLeft
<1> QED
  BY <1>1, StepShrinks, Inductive, PTL DEF Spec

=============================================================================
