------------------------- MODULE Distribution_proofs ------------------------
(***************************************************************************)
(* How the work is dealt out: proofs about TrialPlan, Trial and Affinity,  *)
(* and about the first two together.                                       *)
(*                                                                         *)
(* The plan, for any int and any long wide enough to hold a product of two *)
(* positive ints (LP64).  Two computations of create_batches may wrap      *)
(* around: the number of batches and the end of a batch.  The argument: a  *)
(* positive count, wrong as it may be, is never so large that a batch      *)
(* starts behind the last trial (StartsBelow), and no batch that starts    *)
(* below the last trial ends behind LongMax before it is cut (EndIs).      *)
(*                                                                         *)
(* The trials, for any width of unsigned, any generator and any number of  *)
(* steps.  The argument: in every turn of the loop the cars are where the  *)
(* sums of their speeds say (CarsAdvance), and the smallest time to        *)
(* collision kept by the loop is below a limit exactly if that of a step   *)
(* was (FitsNext); so the loop ends with the risk the physics gives.       *)
(*                                                                         *)
(* Both: however the trials are cut into batches or parts, the counts add  *)
(* up to those of one run over all trials.                                 *)
(*                                                                         *)
(* The cores, for any number of processes, threads and cores.  The         *)
(* workers of a run are numbered without gaps in every mode, a placed      *)
(* worker is on the core of its number (AffinityInv), and the remainders   *)
(* of 0 .. n - 1 modulo the number of cores are as many of each, or one    *)
(* more (DealtEvenly).  MaxCpu < SetSize: a cpu_set_t has a bit for every  *)
(* core, as it must for the program's own mask to be one.                  *)
(***************************************************************************)
EXTENDS TrialPlan, Trial, Affinity, Partition_proofs, SequenceTheorems

-----------------------------------------------------------------------------
(* Arithmetic, and conversions to signed types. *)

\* Multiplication by a natural number is monotone.
LEMMA TimesMonotone ==
  ASSUME NEW a \in Nat, NEW b \in Nat, NEW q \in Nat, a <= b
  PROVE  a * q <= b * q /\ a * q \in Nat /\ b * q \in Nat
<1> DEFINE c == b - a
<1>1. c \in Nat /\ b = a + c
  OBVIOUS
<1> HIDE DEF c
<1>2. (a + c) * q = a * q + c * q /\ a * q \in Nat /\ c * q \in Nat
  BY <1>1
<1> QED
  BY <1>1, <1>2

\* A conversion to a signed type is in its range, leaves what is in its range
\* alone, and never makes a natural number larger.
LEMMA WrapRange ==
  ASSUME NEW x \in Int, NEW range \in Nat \ {0}
  PROVE  /\ Wrap(x, range) \in Int
         /\ -(range \div 2) <= Wrap(x, range)
         /\ Wrap(x, range) < range - range \div 2
         /\ x \in 0 .. range \div 2 - 1 => Wrap(x, range) = x
         /\ x >= 0 => Wrap(x, range) <= x
<1> DEFINE h == range \div 2
<1>1. h \in Nat /\ 2 * h <= range /\ range <= 2 * h + 1
  BY DivMod
<1> HIDE DEF h
<1> DEFINE y == x + h
<1>2. y \in Int /\ y % range \in 0 .. range - 1
  BY <1>1
<1>3. y \in 0 .. range - 1 => y % range = y
  BY <1>1
<1>4. y >= 0 => y % range <= y
  BY <1>1
<1> DEFINE m == y % range
<1>5. Wrap(x, range) = m - h
  BY DEF Wrap, h
<1>6. /\ m \in 0 .. range - 1
      /\ y \in 0 .. range - 1 => m = y
      /\ y >= 0 => m <= y
  BY <1>2, <1>3, <1>4
<1> HIDE DEF m
<1>7. /\ Wrap(x, range) \in Int
      /\ -h <= Wrap(x, range)
      /\ Wrap(x, range) < range - h
      /\ x \in 0 .. h - 1 => Wrap(x, range) = x
      /\ x >= 0 => Wrap(x, range) <= x
  BY <1>1, <1>5, <1>6
<1> QED
  BY <1>7 DEF h

\* The ranges of int and long.
LEMMA Ranges ==
  /\ IntMax \in Nat /\ LongMax \in Nat
  /\ IntRange \in Nat \ {0} /\ LongRange \in Nat \ {0}
  /\ IntRange \div 2 = IntMax + 1 /\ IntRange - IntRange \div 2 = IntMax + 1
  /\ LongRange \div 2 = LongMax + 1
  /\ IntMax * IntMax \in Nat
  /\ IntMax * IntMax + IntMax <= LongMax
<1>1. IntRange \in Nat /\ IntRange > 1 /\ IntRange = (IntRange \div 2) * 2
  BY PlanAssumption, DivMod
<1>2. IntMax \in Nat /\ IntRange \div 2 = IntMax + 1
  BY <1>1 DEF IntMax
<1>3. IntMax * IntMax \in Nat
  BY <1>2
<1>4. LongRange \in Nat /\ LongRange \div 2 \in Nat
  BY PlanAssumption, DivMod
<1>5. LongRange \div 2 = LongMax + 1 /\ LongMax \in Int
  BY <1>4 DEF LongMax
<1>6. LongMax \in Nat
  BY <1>2, <1>3, <1>5, PlanAssumption
<1>7. LongRange # 0
  BY <1>5, <1>6
<1> QED
  BY <1>1, <1>2, <1>3, <1>4, <1>5, <1>6, <1>7, PlanAssumption

-----------------------------------------------------------------------------
(* The number of batches. *)

\* The number of batches is an int, right if it is one; and however wrong it
\* is, the last of that many batches starts below the number of trials.
LEMMA StartsBelow ==
  ASSUME trials \in 1 .. LongMax, batchSize \in 1 .. IntMax
  PROVE  /\ BatchCount \in Int /\ BatchCount <= IntMax
         /\ BatchCount > 0 => (BatchCount - 1) * batchSize < trials
         /\ BatchesNeeded <= IntMax =>
              /\ BatchCount = BatchesNeeded
              /\ BatchCount > 0
              /\ trials <= BatchCount * batchSize
<1> USE Ranges
<1> DEFINE n == trials + batchSize - 1
           needed == n \div batchSize
           rest == n % batchSize
<1>1. /\ n \in Nat /\ trials <= n
      /\ batchSize \in Nat \ {0}
  OBVIOUS
<1>2. BatchesNeeded = needed
  BY DEF BatchesNeeded
<1>3. BatchCount = Wrap(Quotient(Wrap(n, LongRange), batchSize), IntRange)
  BY DEF BatchCount
<1> HIDE DEF n
<1>4. needed \in Nat /\ rest \in 0 .. batchSize - 1
      /\ n = needed * batchSize + rest
  BY <1>1, DivMod
<1>n. n = trials + batchSize - 1
  BY DEF n
<1> HIDE DEF needed, rest
<1>5. needed * batchSize \in Nat
  BY <1>1, <1>4
<1>6. needed > 0
  <2> SUFFICES ASSUME needed = 0 PROVE FALSE
    BY <1>4
  <2>1. needed * batchSize = 0
    BY <1>1
  <2> QED
    BY <1>1, <1>4, <1>n, <2>1
<1>7. Quotient(Wrap(n, LongRange), batchSize) \in Int
  <2> DEFINE w == Wrap(n, LongRange)
  <2>1. w \in Int
    BY <1>1, WrapRange
  <2> HIDE DEF w
  <2>2. w >= 0 => w \div batchSize \in Int
    BY <1>1, <2>1, DivMod
  <2>3. w < 0 => -w \in Nat /\ (-w) \div batchSize \in Nat
    BY <1>1, <2>1, DivMod
  <2>4. Quotient(w, batchSize) \in Int
    BY <2>1, <2>2, <2>3 DEF Quotient
  <2> QED
    BY <2>4 DEF w
<1>8. BatchCount \in Int /\ BatchCount <= IntMax
  BY <1>3, <1>7, WrapRange
<1>9. CASE n <= LongMax
  <2>1. Wrap(n, LongRange) = n
    BY <1>1, <1>9, WrapRange
  <2>2. Quotient(n, batchSize) = needed
    BY <1>1 DEF Quotient, needed
  <2>3. BatchCount = Wrap(needed, IntRange)
    BY <1>3, <2>1, <2>2
  <2>4. BatchCount <= needed /\ (needed <= IntMax => BatchCount = needed)
    BY <1>4, <2>3, WrapRange
  <2>5. ASSUME BatchCount > 0 PROVE (BatchCount - 1) * batchSize < trials
    <3> DEFINE c == BatchCount - 1
               k == needed - 1
    <3>1. c \in Nat /\ k \in Nat /\ c <= k /\ needed = k + 1
      BY <1>4, <1>6, <1>8, <2>4, <2>5
    <3> HIDE DEF c, k
    <3>2. c * batchSize <= k * batchSize /\ c * batchSize \in Nat
          /\ k * batchSize \in Nat
      BY <1>1, <3>1, TimesMonotone
    <3>3. needed * batchSize = k * batchSize + batchSize
      BY <1>1, <3>1, TimesSucc
    <3>4. c * batchSize < trials
      BY <1>1, <1>4, <1>n, <3>2, <3>3
    <3> QED
      BY <3>4 DEF c
  <2>6. trials <= needed * batchSize
    BY <1>1, <1>4, <1>5, <1>n
  <2> QED
    BY <1>2, <1>6, <1>8, <2>4, <2>5, <2>6
<1>10. CASE n > LongMax
  <2>1. IntMax * batchSize <= IntMax * IntMax /\ IntMax * batchSize \in Nat
    <3>1. batchSize * IntMax <= IntMax * IntMax /\ batchSize * IntMax \in Nat
      BY <1>1, TimesMonotone
    <3>2. batchSize * IntMax = IntMax * batchSize
      BY <1>1
    <3> QED
      BY <3>1, <3>2
  <2>2. ASSUME BatchCount > 0 PROVE (BatchCount - 1) * batchSize < trials
    <3> DEFINE c == BatchCount - 1
    <3>1. c \in Nat /\ c <= IntMax
      BY <1>8, <2>2
    <3> HIDE DEF c
    <3>2. c * batchSize <= IntMax * batchSize /\ c * batchSize \in Nat
      BY <1>1, <3>1, TimesMonotone
    <3>3. c * batchSize < trials
      BY <1>1, <1>10, <1>n, <2>1, <3>2
    <3> QED
      BY <3>3 DEF c
  <2>3. needed > IntMax
    <3> SUFFICES ASSUME needed <= IntMax PROVE FALSE
      BY <1>4
    <3>1. needed * batchSize <= IntMax * batchSize
      BY <1>1, <1>4, TimesMonotone
    <3> QED
      BY <1>1, <1>4, <1>5, <1>10, <2>1, <3>1
  <2> QED
    BY <1>2, <1>4, <1>8, <2>2, <2>3
<1> QED
  BY <1>1, <1>9, <1>10

\* A batch that starts below the number of trials is cut where it should be:
\* the sum that gives its end, start + batch_size, is a long.
LEMMA EndIs ==
  ASSUME trials \in 1 .. LongMax, batchSize \in 1 .. IntMax,
         NEW k \in Nat, k < IntMax
  PROVE  BatchEnd(BatchStart(k))
           = IF (k + 1) * batchSize > trials THEN trials ELSE (k + 1) * batchSize
<1> USE Ranges
<1>1. (k + 1) * batchSize = k * batchSize + batchSize /\ k * batchSize \in Nat
  BY TimesSucc
<1>2. k * batchSize <= IntMax * batchSize /\ IntMax * batchSize \in Nat
  BY TimesMonotone
<1>3. batchSize * IntMax <= IntMax * IntMax /\ batchSize * IntMax \in Nat
  BY TimesMonotone
<1>4. batchSize * IntMax = IntMax * batchSize
  OBVIOUS
<1> DEFINE e == k * batchSize + batchSize
<1>5. e \in 0 .. LongMax
  BY <1>1, <1>2, <1>3, <1>4
<1> HIDE DEF e
<1>6. Wrap(e, LongRange) = e
  BY <1>5, WrapRange
<1>7. BatchEnd(BatchStart(k)) = IF e > trials THEN trials ELSE e
  BY <1>6 DEF BatchEnd, BatchStart, e
<1> QED
  BY <1>1, <1>7 DEF e

-----------------------------------------------------------------------------
(* The inductive invariant. *)

\* The batch number k, counted from 1.
TheBatch(k) ==
  [start_idx |-> (k - 1) * batchSize,
   end_idx   |-> IF k * batchSize > trials THEN trials ELSE k * batchSize]

\* A count is the one that create_batches computes, and not negative; the
\* batches written are the first ones, no more than the count.
PlanInv ==
  /\ trials \in 1 .. LongMax /\ batchSize \in 1 .. IntMax
  /\ plan \in {"count", "loop", "returned", "none"}
  /\ batches \in Seq([start_idx : Int, end_idx : Int])
  /\ count = 0 \/ count = BatchCount
  /\ count >= 0
  /\ Len(batches) <= count
  /\ plan \in {"loop", "returned"} => count = BatchCount
  /\ plan = "count" => batches = <<>>
  /\ plan = "returned" => Len(batches) = count /\ count > 0
  /\ \A k \in 1 .. Len(batches) : batches[k] = TheBatch(k)

LEMMA CountType ==
  ASSUME PlanInv
  PROVE  /\ BatchCount \in Int /\ count \in 0 .. IntMax
         /\ count > 0 => (count - 1) * batchSize < trials
  BY StartsBelow, Ranges DEF PlanInv

\* create_batches writes TheBatch(k) as the k-th.
LEMMA WriteStep ==
  ASSUME PlanInv, WriteBatch
  PROVE  PlanInv'
<1> USE Ranges DEF PlanInv
<1> DEFINE n == Len(batches)
           b == [start_idx |-> BatchStart(n), end_idx |-> BatchEnd(BatchStart(n))]
<1>1. n \in Nat /\ n < count /\ count \in 0 .. IntMax
  BY CountType DEF WriteBatch
<1>2. b = TheBatch(n + 1)
  <2>1. BatchStart(n) = n * batchSize /\ (n + 1) - 1 = n
    BY <1>1 DEF BatchStart
  <2>2. n < IntMax
    BY <1>1
  <2> HIDE DEF n
  <2>3. BatchEnd(BatchStart(n))
          = IF (n + 1) * batchSize > trials THEN trials ELSE (n + 1) * batchSize
    BY <1>1, <2>2, EndIs
  <2> QED
    BY <2>1, <2>3 DEF TheBatch
<1>3. b \in [start_idx : Int, end_idx : Int]
  <2> HIDE DEF n
  <2>1. (n + 1) - 1 = n /\ n * batchSize \in Int /\ (n + 1) * batchSize \in Int
    BY <1>1
  <2> QED
    BY <1>1, <1>2, <2>1 DEF TheBatch
<1>4. batches' = Append(batches, b) /\ UNCHANGED <<trials, batchSize, count, plan>>
  BY DEF WriteBatch
<1> HIDE DEF b
<1>5. /\ batches' \in Seq([start_idx : Int, end_idx : Int])
      /\ Len(batches') = n + 1
      /\ \A k \in 1 .. n : batches'[k] = batches[k]
      /\ batches'[n + 1] = b
  BY <1>3, <1>4
<1>6. \A k \in 1 .. Len(batches') : batches'[k] = TheBatch(k)
  <2> SUFFICES ASSUME NEW k \in 1 .. n + 1 PROVE batches'[k] = TheBatch(k)
    BY <1>5
  <2>1. CASE k = n + 1
    BY <1>2, <1>5, <2>1
  <2>2. CASE k # n + 1
    <3>1. k \in 1 .. n
      BY <1>1, <2>2
    <3> QED
      BY <1>5, <3>1
  <2> QED
    BY <2>1, <2>2
<1>7. BatchCount' = BatchCount /\ \A k : TheBatch(k)' = TheBatch(k)
  BY <1>4 DEF BatchCount, TheBatch
<1>8. plan = "loop" /\ plan' = "loop"
  BY DEF WriteBatch
<1> QED
  BY <1>1, <1>4, <1>5, <1>6, <1>7, <1>8

LEMMA PlanInvariance == PlanSpec => []PlanInv
<1>1. PlanInit => PlanInv
  BY Ranges DEF PlanInit, PlanInv
<1>2. ASSUME PlanInv, [PlanNext]_planVars PROVE PlanInv'
  <2>1. CASE CountBatches
    <3>1. BatchCount \in Int
      BY <1>2, CountType
    <3>2. BatchCount' = BatchCount /\ \A k : TheBatch(k)' = TheBatch(k)
      BY <2>1 DEF CountBatches, BatchCount, TheBatch
    <3>3. batches = <<>> /\ Len(batches) = 0 /\ BatchCount >= 0
      BY <1>2, <2>1 DEF CountBatches, PlanInv
    <3> QED
      BY <1>2, <2>1, <3>1, <3>2, <3>3 DEF CountBatches, PlanInv
  <2>2. CASE WriteBatch
    BY <1>2, <2>2, WriteStep
  <2>3. CASE NoBatches \/ ReturnBatches \/ UNCHANGED planVars
    <3>1. BatchCount' = BatchCount /\ \A k : TheBatch(k)' = TheBatch(k)
      BY <2>3 DEF NoBatches, ReturnBatches, planVars, BatchCount, TheBatch
    <3> QED
      BY <1>2, <2>3, <3>1 DEF NoBatches, ReturnBatches, planVars, PlanInv
  <2> QED
    BY <1>2, <2>1, <2>2, <2>3 DEF PlanNext
<1> QED
  BY <1>1, <1>2, PTL DEF PlanSpec

-----------------------------------------------------------------------------
(* The theorems. *)

\* Where the batch number k lies: it starts below the last trial.
LEMMA BatchBounds ==
  ASSUME PlanInv, NEW k \in 1 .. Len(batches)
  PROVE  /\ (k - 1) * batchSize \in Nat /\ k * batchSize \in Nat
         /\ k * batchSize = (k - 1) * batchSize + batchSize
         /\ (k - 1) * batchSize < trials
         /\ batches[k] = TheBatch(k)
<1> USE Ranges
<1>1. batchSize \in 1 .. IntMax /\ trials \in 1 .. LongMax /\ Len(batches) <= count
  BY DEF PlanInv
<1>2. count \in 0 .. IntMax /\ (count > 0 => (count - 1) * batchSize < trials)
  BY CountType
<1> DEFINE j == k - 1
           c == count - 1
<1>3. j \in Nat /\ c \in Nat /\ j <= c /\ k = j + 1 /\ count > 0
  BY <1>1, <1>2
<1> HIDE DEF j, c
<1>4. (j + 1) * batchSize = j * batchSize + batchSize /\ j * batchSize \in Nat
  BY <1>1, <1>3, TimesSucc
<1>5. j * batchSize <= c * batchSize /\ c * batchSize \in Nat
  BY <1>1, <1>3, TimesMonotone
<1>6. c * batchSize < trials
  BY <1>2, <1>3 DEF c
<1>7. j * batchSize < trials
  BY <1>1, <1>4, <1>5, <1>6
<1>8. j * batchSize = (k - 1) * batchSize
  BY DEF j
<1>9. k * batchSize = (j + 1) * batchSize
  BY <1>3
<1>10. k * batchSize = j * batchSize + batchSize /\ k * batchSize \in Nat
  BY <1>1, <1>4, <1>9
<1>11. batches[k] = TheBatch(k)
  BY DEF PlanInv
<1> QED
  BY <1>4, <1>7, <1>8, <1>10, <1>11

LEMMA PlanIsTyped == PlanInv => PlanTypeOK
<1> SUFFICES ASSUME PlanInv PROVE PlanTypeOK
  OBVIOUS
<1> USE Ranges
<1>1. batches \in Seq([start_idx : 0 .. LongMax, end_idx : 0 .. LongMax])
  <2>1. ASSUME NEW k \in 1 .. Len(batches)
        PROVE  batches[k] \in [start_idx : 0 .. LongMax, end_idx : 0 .. LongMax]
    <3>1. trials \in 1 .. LongMax
      BY DEF PlanInv
    <3> DEFINE s == (k - 1) * batchSize
               e == k * batchSize
    <3>2. s \in Nat /\ e \in Nat /\ s < trials
      BY BatchBounds
    <3>3. batches[k] = [start_idx |-> s,
                        end_idx |-> IF e > trials THEN trials ELSE e]
      BY BatchBounds DEF TheBatch
    <3> HIDE DEF s, e
    <3> QED
      BY <3>1, <3>2, <3>3
  <2>2. batches \in Seq([start_idx : Int, end_idx : Int])
    BY DEF PlanInv
  <2> DEFINE B == [start_idx : 0 .. LongMax, end_idx : 0 .. LongMax]
  <2>3. Len(batches) \in Nat /\ batches \in [1 .. Len(batches) -> B]
    BY <2>1, <2>2
  <2> HIDE DEF B
  <2>4. batches \in Seq(B)
    BY <2>3
  <2> QED
    BY <2>4 DEF B
<1>2. count \in 0 .. IntMax
  BY CountType
<1> QED
  BY <1>1, <1>2 DEF PlanTypeOK, PlanInv

\* The fields of the batches are trials, or the number of trials, and the
\* count is an int that is not negative.
THEOREM TypeCorrect == PlanSpec => []PlanTypeOK
BY PlanInvariance, PlanIsTyped, PTL

LEMMA PlanIsConsecutive == PlanInv => BatchesConsecutive
<1> SUFFICES ASSUME PlanInv, NEW k \in DOMAIN batches
             PROVE  LET b == batches[k] IN
                    /\ b.start_idx = (IF k = 1 THEN 0 ELSE batches[k - 1].end_idx)
                    /\ b.start_idx < b.end_idx
                    /\ b.end_idx <= trials
                    /\ b.end_idx - b.start_idx <= batchSize
  BY DEF BatchesConsecutive
<1>1. k \in 1 .. Len(batches) /\ batchSize \in 1 .. IntMax /\ trials \in 1 .. LongMax
  BY DEF PlanInv
<1> DEFINE s == (k - 1) * batchSize
           e == k * batchSize
<1>2. s \in Nat /\ e \in Nat /\ e = s + batchSize /\ s < trials
  BY <1>1, BatchBounds
<1>3. batches[k] = [start_idx |-> s, end_idx |-> IF e > trials THEN trials ELSE e]
  BY <1>1, BatchBounds DEF TheBatch
<1>4. s = IF k = 1 THEN 0 ELSE batches[k - 1].end_idx
  <2>1. CASE k = 1
    BY <1>1, <2>1, Ranges
  <2>2. CASE k # 1
    <3>1. k - 1 \in 1 .. Len(batches)
      BY <1>1, <2>2
    <3>2. batches[k - 1] = TheBatch(k - 1)
      BY <3>1, BatchBounds
    <3>3. batches[k - 1].end_idx = IF s > trials THEN trials ELSE s
      BY <3>2 DEF TheBatch
    <3> HIDE DEF s
    <3> QED
      BY <1>1, <1>2, <2>2, <3>3
  <2> QED
    BY <2>1, <2>2
<1> HIDE DEF s, e
<1> QED
  BY SMTT(30), <1>1, <1>2, <1>3, <1>4, Ranges

\* The batches cut consecutive, non-empty pieces of at most batch_size trials
\* off the front of the trials, even when the count has wrapped around.
THEOREM CutsConsecutive == PlanSpec => []BatchesConsecutive
BY PlanInvariance, PlanIsConsecutive, PTL

\* What create_batches returns when the number of batches is an int.
LEMMA ReturnedCount ==
  ASSUME PlanInv, plan = "returned", BatchesNeeded <= IntMax
  PROVE  Len(batches) > 0 /\ trials <= Len(batches) * batchSize
<1>1. Len(batches) = BatchCount /\ Len(batches) > 0
  BY DEF PlanInv
<1> QED
  BY <1>1, StartsBelow DEF PlanInv

LEMMA PlanIsEnough == PlanInv => EnoughBatches
<1> SUFFICES ASSUME PlanInv, plan = "returned", BatchesNeeded <= IntMax
             PROVE  AllBatched
  BY DEF EnoughBatches
<1> DEFINE n == Len(batches)
           e == n * batchSize
<1>1. n \in 1 .. Len(batches) /\ batches # <<>>
  BY ReturnedCount DEF PlanInv
<1>2. trials \in 1 .. LongMax /\ trials <= e /\ e \in Nat
  BY <1>1, ReturnedCount, BatchBounds DEF PlanInv
<1>3. batches[n].end_idx = IF e > trials THEN trials ELSE e
  <2> HIDE DEF n
  <2>1. batches[n] = TheBatch(n)
    BY <1>1, BatchBounds
  <2> QED
    BY <2>1 DEF TheBatch
<1>4. Last(batches) = batches[n]
  BY DEF Last
<1> HIDE DEF n, e
<1> QED
  BY <1>1, <1>2, <1>3, <1>4, Ranges DEF AllBatched

\* As long as their number is an int, the batches reach the last trial.
THEOREM CoversAll == PlanSpec => []EnoughBatches
BY PlanInvariance, PlanIsEnough, PTL

\* Trial t is simulated with batch k.
InBatch(t, k) == batches[k].start_idx <= t /\ t < batches[k].end_idx

\* create_batches gives every trial to exactly one batch, as long as the
\* number of batches is an int.
THEOREM EachTrialInOneBatch ==
  PlanSpec => [](plan = "returned" /\ BatchesNeeded <= IntMax =>
               \A t \in 0 .. trials - 1 :
                 \E k \in DOMAIN batches :
                   /\ InBatch(t, k)
                   /\ \A j \in DOMAIN batches : InBatch(t, j) => j = k)
<1>1. ASSUME PlanInv, plan = "returned", BatchesNeeded <= IntMax,
             NEW t \in 0 .. trials - 1
      PROVE  \E k \in DOMAIN batches :
               /\ InBatch(t, k)
               /\ \A j \in DOMAIN batches : InBatch(t, j) => j = k
  <2> USE Ranges
  <2> DEFINE q == t \div batchSize
             n == Len(batches)
             a == q * batchSize
  <2>1. /\ batchSize \in 1 .. IntMax /\ trials \in 1 .. LongMax
        /\ n \in Nat /\ DOMAIN batches = 1 .. n
    BY <1>1 DEF PlanInv
  <2>2. q \in Nat /\ a \in Nat /\ a <= t /\ t < a + batchSize
    <3>1. t \in Nat /\ batchSize \in Nat \ {0}
      BY <2>1
    <3>2. /\ q \in Nat
          /\ t % batchSize \in 0 .. batchSize - 1
          /\ t = a + (t % batchSize)
      BY <3>1, DivMod
    <3>3. a \in Nat
      BY <3>1, <3>2
    <3> HIDE DEF q, a
    <3> QED
      BY <2>1, <3>1, <3>2, <3>3
  <2>3. trials <= n * batchSize
    BY <1>1, ReturnedCount
  <2> HIDE DEF q, n
  <2>4. (q + 1) * batchSize = a + batchSize
    BY <2>1, <2>2, TimesSucc
  <2>5. q < n
    <3> SUFFICES ASSUME n <= q PROVE FALSE
      BY <2>1, <2>2
    <3>1. n * batchSize <= q * batchSize
      BY <2>1, <2>2, TimesMonotone
    <3>2. n * batchSize \in Nat
      BY <2>1
    <3> QED
      BY <2>1, <2>2, <2>3, <3>1, <3>2
  <2> DEFINE k == q + 1
  <2>6. k \in 1 .. n /\ k - 1 = q
    BY <2>1, <2>2, <2>5
  <2>7. ASSUME NEW j \in 1 .. n
        PROVE  InBatch(t, j) <=> (j - 1) * batchSize <= t /\ t < j * batchSize
    <3>1. /\ (j - 1) * batchSize \in Nat /\ j * batchSize \in Nat
          /\ batches[j] = TheBatch(j)
      BY <1>1, BatchBounds DEF n
    <3> DEFINE s == (j - 1) * batchSize
               e == j * batchSize
    <3>2. batches[j] = [start_idx |-> s, end_idx |-> IF e > trials THEN trials ELSE e]
      BY <3>1 DEF TheBatch
    <3>3. s \in Nat /\ e \in Nat
      BY <3>1
    <3> HIDE DEF s, e
    <3>4. InBatch(t, j) <=> s <= t /\ t < e
      BY <2>1, <3>2, <3>3 DEF InBatch
    <3> QED
      BY <3>4 DEF s, e
  <2>8. InBatch(t, k)
    BY <2>2, <2>4, <2>6, <2>7
  <2>9. ASSUME NEW j \in 1 .. n, InBatch(t, j) PROVE j = k
    <3>1. (j - 1) * batchSize <= t /\ t < j * batchSize
      BY <2>7, <2>9
    <3>2. CASE j <= q
      <4>1. j * batchSize <= q * batchSize /\ j * batchSize \in Nat
        BY <2>1, <2>2, <3>2, TimesMonotone
      <4> QED
        BY <2>2, <3>1, <4>1
    <3>3. CASE j > k
      <4>1. k <= j - 1 /\ k \in Nat /\ j - 1 \in Nat
        BY <2>1, <2>2, <3>3
      <4>2. k * batchSize <= (j - 1) * batchSize /\ (j - 1) * batchSize \in Nat
        BY <2>1, <4>1, TimesMonotone
      <4> QED
        BY <2>1, <2>2, <2>4, <3>1, <4>2
    <3> QED
      BY <2>1, <2>2, <3>2, <3>3
  <2> QED
    BY <2>1, <2>6, <2>8, <2>9
<1>2. PlanInv => (plan = "returned" /\ BatchesNeeded <= IntMax =>
                 \A t \in 0 .. trials - 1 :
                   \E k \in DOMAIN batches :
                     /\ InBatch(t, k)
                     /\ \A j \in DOMAIN batches : InBatch(t, j) => j = k)
  BY <1>1
<1> QED
  BY PlanInvariance, <1>2, PTL

-----------------------------------------------------------------------------
(* The numbers a trial draws. *)

Unsigned == 0 .. Modulus - 1

LEMMA Product ==
  ASSUME NEW a \in Nat, NEW b \in Nat
  PROVE  a * b \in Nat
OBVIOUS

LEMMA LcgType == ASSUME NEW s \in Unsigned PROVE LcgNext(s) \in Unsigned
<1> USE TrialAssumption DEF Unsigned
<1>1. s * LcgFactor \in Nat
  BY Product
<1> DEFINE n == s * LcgFactor + LcgTerm
<1>2. n \in Nat
  BY <1>1
<1> HIDE DEF n
<1>3. n % Modulus \in 0 .. Modulus - 1
  BY <1>2, DivMod
<1> QED
  BY <1>3 DEF n, LcgNext

\* Seven calls of the generator.
LEMMA DrawType ==
  ASSUME NEW s \in Unsigned
  PROVE  Draw(s) \in [0 .. 7 -> Unsigned]
<1> DEFINE Is(d) == d = [n \in 0 .. 7 |-> IF n = 0 THEN s ELSE LcgNext(d[n - 1])]
           d1 == LcgNext(s)
           d2 == LcgNext(d1)
           d3 == LcgNext(d2)
           d4 == LcgNext(d3)
           d5 == LcgNext(d4)
           d6 == LcgNext(d5)
           d7 == LcgNext(d6)
           witness == [n \in 0 .. 7 |->
                         IF n = 0 THEN s ELSE IF n = 1 THEN d1 ELSE
                         IF n = 2 THEN d2 ELSE IF n = 3 THEN d3 ELSE
                         IF n = 4 THEN d4 ELSE IF n = 5 THEN d5 ELSE
                         IF n = 6 THEN d6 ELSE d7]
<1>1. \A n \in 0 .. 7 :
        witness[n] = IF n = 0 THEN s ELSE LcgNext(witness[n - 1])
  <2> SUFFICES ASSUME NEW n \in 0 .. 7
               PROVE  witness[n] = IF n = 0 THEN s ELSE LcgNext(witness[n - 1])
    OBVIOUS
  <2>1. \/ n = 0 \/ n = 1 \/ n = 2 \/ n = 3 \/ n = 4 \/ n = 5 \/ n = 6 \/ n = 7
    OBVIOUS
  <2>2. /\ witness[0] = s /\ witness[1] = d1 /\ witness[2] = d2
        /\ witness[3] = d3 /\ witness[4] = d4 /\ witness[5] = d5
        /\ witness[6] = d6 /\ witness[7] = d7
    OBVIOUS
  <2> HIDE DEF witness
  <2> QED
    BY <2>1, <2>2
<1>2. Is(witness)
  <2>1. witness = [n \in 0 .. 7 |-> IF n = 0 THEN s ELSE LcgNext(witness[n - 1])]
    BY <1>1
  <2> QED
    BY <2>1
<1>3. \E d : Is(d)
  <2> HIDE DEF witness, Is
  <2> QED
    BY <1>2
<1> DEFINE draw == CHOOSE d : Is(d)
<1>4. Draw(s) = draw
  BY DEF Draw
<1>5. Is(draw)
  <2> HIDE DEF Is
  <2> QED
    BY <1>3
<1>6. \A n \in 0 .. 7 : draw[n] = IF n = 0 THEN s ELSE LcgNext(draw[n - 1])
  <2> HIDE DEF draw
  <2> QED
    BY <1>5
<1>7. draw = [n \in 0 .. 7 |-> draw[n]]
  <2> HIDE DEF draw
  <2> QED
    BY <1>5
<1> HIDE DEF draw, Is
<1>8. draw[0] \in Unsigned
  BY <1>6
<1>9. \A n \in 1 .. 7 : draw[n - 1] \in Unsigned => draw[n] \in Unsigned
  BY <1>6, LcgType
<1>10. /\ draw[1] \in Unsigned /\ draw[2] \in Unsigned /\ draw[3] \in Unsigned
       /\ draw[4] \in Unsigned /\ draw[5] \in Unsigned /\ draw[6] \in Unsigned
       /\ draw[7] \in Unsigned
  BY <1>8, <1>9
<1>11. \A n \in 0 .. 7 : draw[n] \in Unsigned
  BY <1>8, <1>10
<1> QED
  BY <1>4, <1>7, <1>11

LEMMA BetweenType ==
  ASSUME NEW draw \in Unsigned, NEW min \in Nat, NEW max \in Nat, min <= max
  PROVE  Between(draw, min, max) \in Nat /\ min <= Between(draw, min, max)
<1> USE TrialAssumption DEF Unsigned
<1> DEFINE n == (max - min) * draw
           m == Modulus - 1
<1>1. n \in Nat /\ m \in Nat \ {0}
  <2>1. max - min \in Nat /\ draw \in Nat
    OBVIOUS
  <2>2. n \in Nat
    BY <2>1, Product
  <2> QED
    BY <2>2
<1> HIDE DEF n, m
<1>2. n \div m \in Nat
  BY <1>1, DivMod
<1> QED
  BY <1>2 DEF n, m, Between

\* Speeds and brakes are not negative, and the cars are apart.
ParamsOK(p) ==
  /\ p.egoSpeed \in Nat /\ p.frontSpeed \in Nat
  /\ p.distance \in Nat \ {0} /\ p.reaction \in Nat
  /\ p.egoBrake \in Nat /\ p.frontBrake \in Nat

LEMMA ParamsType == ASSUME NEW s \in Unsigned PROVE ParamsOK(ParamsFrom(s))
<1> DEFINE d == Draw(s)
           v1 == Between(d[1], 600, 1200)
           v2 == Between(d[2], 400, 1100)
           v3 == Between(d[3], 500, 10000)
           v4 == Between(d[4], 5, 25)
           v5 == Between(d[5], 3, 9)
           v6 == Between(d[6], 2, 10)
           v7 == Between(d[7], 5, 10)
<1>1. d \in [0 .. 7 -> Unsigned]
  BY DrawType
<1> HIDE DEF d
<1>2. /\ v1 \in Nat /\ v2 \in Nat /\ v3 \in Nat /\ 500 <= v3 /\ v4 \in Nat
      /\ v5 \in Nat /\ v6 \in Nat /\ v7 \in Nat
  <2>1. /\ d[1] \in Unsigned /\ d[2] \in Unsigned /\ d[3] \in Unsigned
        /\ d[4] \in Unsigned /\ d[5] \in Unsigned /\ d[6] \in Unsigned
        /\ d[7] \in Unsigned
    BY <1>1
  <2>2. ASSUME NEW x \in Unsigned
        PROVE  /\ Between(x, 600, 1200) \in Nat /\ Between(x, 400, 1100) \in Nat
               /\ Between(x, 5, 25) \in Nat /\ Between(x, 3, 9) \in Nat
               /\ Between(x, 2, 10) \in Nat /\ Between(x, 5, 10) \in Nat
    <3>1. Between(x, 600, 1200) \in Nat
      BY BetweenType
    <3>2. Between(x, 400, 1100) \in Nat
      BY BetweenType
    <3>3. Between(x, 5, 25) \in Nat
      BY BetweenType
    <3>4. Between(x, 3, 9) \in Nat
      BY BetweenType
    <3>5. Between(x, 2, 10) \in Nat
      BY BetweenType
    <3>6. Between(x, 5, 10) \in Nat
      BY BetweenType
    <3> QED
      BY <3>1, <3>2, <3>3, <3>4, <3>5, <3>6
  <2>3. ASSUME NEW x \in Unsigned
        PROVE  Between(x, 500, 10000) \in Nat /\ 500 <= Between(x, 500, 10000)
    BY BetweenType
  <2> QED
    BY <2>1, <2>2, <2>3
<1> HIDE DEF v1, v2, v3, v4, v5, v6, v7
<1>3. v5 * v7 \in Nat
  BY <1>2, Product
<1> DEFINE brake == v5 * v7
<1>4. brake \div 10 \in Nat
  <2> HIDE DEF brake
  <2> QED
    BY <1>3, DivMod DEF brake
<1>5. ToMps(v1) \in Nat /\ ToMps(v2) \in Nat
  BY <1>2 DEF ToMps
<1>6. ParamsFrom(s) =
        [egoSpeed   |-> ToMps(v1), frontSpeed |-> ToMps(v2),
         distance   |-> v3,        reaction   |-> v4,
         egoBrake   |-> brake \div 10, frontBrake |-> v6]
  BY DEF ParamsFrom, d, v1, v2, v3, v4, v5, v6, v7
<1> HIDE DEF brake
<1> QED
  BY <1>2, <1>4, <1>5, <1>6 DEF ParamsOK

-----------------------------------------------------------------------------
(* The ways of the cars. *)

\* The function that adds up g over 1 .. k.
AddsUp(w, n, g) ==
  w = [k \in 0 .. n |-> IF k = 0 THEN 0 ELSE w[k - 1] + g[k]]

\* The pile over 1 .. k, one element after the other.
LEMMA PileUpTo ==
  ASSUME NEW n \in Nat, NEW g, \A k \in 1 .. n : g[k] \in Nat
  PROVE  /\ \A k \in 0 .. n : Cardinality(Pile(g, 1 .. k)) \in Nat
         /\ Cardinality(Pile(g, 1 .. 0)) = 0
         /\ \A k \in 1 .. n :
              Cardinality(Pile(g, 1 .. k)) = g[k] + Cardinality(Pile(g, 1 .. k - 1))
<1>1. IsFiniteSet(1 .. n)
  BY FS_Interval
<1>2. ASSUME NEW k \in 0 .. n
      PROVE  IsFiniteSet(Pile(g, 1 .. k)) /\ Cardinality(Pile(g, 1 .. k)) \in Nat
  <2>1. 1 .. k \in SUBSET (1 .. n)
    OBVIOUS
  <2>2. IsFiniteSet(Pile(g, 1 .. k))
    BY <1>1, <2>1, PileFinite
  <2> QED
    BY <2>2, FS_CardinalityType
<1>3. Cardinality(Pile(g, 1 .. 0)) = 0
  <2>1. Pile(g, 1 .. 0) = {}
    BY DEF Pile
  <2> QED
    BY <2>1, FS_EmptySet
<1>4. ASSUME NEW k \in 1 .. n
      PROVE  Cardinality(Pile(g, 1 .. k)) = g[k] + Cardinality(Pile(g, 1 .. k - 1))
  <2> DEFINE B == 1 .. k
  <2>1. k \in B /\ B \ {k} = 1 .. k - 1 /\ k - 1 \in 0 .. n
    OBVIOUS
  <2>2. IsFiniteSet(Pile(g, B \ {k}))
    BY <1>2, <2>1
  <2> HIDE DEF B
  <2>3. Cardinality(Pile(g, B)) = g[k] + Cardinality(Pile(g, B \ {k}))
    BY <2>1, <2>2, PileAdd
  <2> QED
    BY <2>1, <2>3 DEF B
<1> QED
  BY <1>2, <1>3, <1>4

LEMMA SumsExist ==
  ASSUME NEW n \in Nat, NEW g, \A k \in 1 .. n : g[k] \in Nat
  PROVE  \E w : AddsUp(w, n, g)
<1> DEFINE w == [k \in 0 .. n |-> Cardinality(Pile(g, 1 .. k))]
<1>1. ASSUME NEW k \in 0 .. n
      PROVE  w[k] = IF k = 0 THEN 0 ELSE w[k - 1] + g[k]
  <2>1. CASE k = 0
    BY <2>1, PileUpTo
  <2>2. CASE k # 0
    <3>1. k \in 1 .. n /\ k - 1 \in 0 .. n
      BY <2>2
    <3>2. /\ Cardinality(Pile(g, 1 .. k)) = g[k] + Cardinality(Pile(g, 1 .. k - 1))
          /\ Cardinality(Pile(g, 1 .. k - 1)) \in Nat /\ g[k] \in Nat
      BY <3>1, PileUpTo
    <3>3. w[k] = w[k - 1] + g[k]
      BY <3>1, <3>2
    <3> QED
      BY <2>2, <3>3
  <2> QED
    BY <2>1, <2>2
<1>2. AddsUp(w, n, g)
  BY <1>1 DEF AddsUp
<1> QED
  BY <1>2

\* What such a function computes: induction over k.
LEMMA SumsAre ==
  ASSUME NEW n \in Nat, NEW g, \A k \in 1 .. n : g[k] \in Nat,
         NEW w, AddsUp(w, n, g)
  PROVE  /\ w[0] = 0
         /\ \A k \in 1 .. n : w[k] = w[k - 1] + g[k]
         /\ \A k \in 0 .. n : w[k] \in Nat
<1>1. \A k \in 0 .. n : w[k] = IF k = 0 THEN 0 ELSE w[k - 1] + g[k]
  BY DEF AddsUp
<1>2. w[0] = 0 /\ \A k \in 1 .. n : w[k] = w[k - 1] + g[k]
  BY <1>1
<1> DEFINE Bad == {k \in 0 .. n : w[k] \notin Nat}
<1>3. SUFFICES ASSUME Bad # {} PROVE FALSE
  BY <1>2
<1>4. PICK k \in Bad : \A j \in Bad : ~(j < k)
  <2>1. Bad \subseteq Nat
    OBVIOUS
  <2> HIDE DEF Bad
  <2>2. \E k \in Bad : \A j \in Bad : ~(<<j, k>> \in OpToRel(<, Nat))
    BY <1>3, <2>1, NatLessThanWellFounded, WFMin
  <2> QED
    BY <2>1, <2>2 DEF OpToRel
<1>5. k # 0 /\ k - 1 \in 0 .. n
  BY <1>2, <1>4
<1>6. w[k - 1] \in Nat
  BY <1>4, <1>5
<1> QED
  BY <1>2, <1>4, <1>5, <1>6

LEMMA SpeedType ==
  ASSUME NEW v \in Nat, NEW brake \in Nat, NEW n \in Nat
  PROVE  /\ SpeedAfter(v, brake, n) \in Nat
         /\ SpeedAfter(v, brake, n + 1)
              = Nonnegative(SpeedAfter(v, brake, n) - brake)
         /\ SpeedAfter(v, brake, 0) = v
<1> DEFINE b == brake * n
<1>1. b \in Nat /\ brake * (n + 1) = b + brake /\ brake * 0 = 0
  OBVIOUS
<1> HIDE DEF b
<1> QED
  BY <1>1 DEF SpeedAfter, Nonnegative, b

LEMMA SoonerType ==
  ASSUME NEW k \in Nat, NEW free \in Nat
  PROVE  k - Sooner(k, free) \in Nat
BY DEF Sooner

LEMMA WayIs ==
  ASSUME NEW v \in Nat, NEW brake \in Nat, NEW free \in Nat
  PROVE  /\ Way(v, brake, free)[0] = 0
         /\ \A k \in 1 .. TimeSteps :
              Way(v, brake, free)[k] = Way(v, brake, free)[k - 1]
                                         + SpeedAfter(v, brake, k - Sooner(k, free))
         /\ \A k \in 0 .. TimeSteps : Way(v, brake, free)[k] \in Nat
<1> DEFINE g == [k \in 1 .. TimeSteps |-> SpeedAfter(v, brake, k - Sooner(k, free))]
           way == CHOOSE w : AddsUp(w, TimeSteps, g)
<1>2. TimeSteps \in Nat
  BY TrialAssumption
<1>1. \A k \in 1 .. TimeSteps : g[k] \in Nat
  <2> SUFFICES ASSUME NEW k \in 1 .. TimeSteps PROVE g[k] \in Nat
    OBVIOUS
  <2>1. k - Sooner(k, free) \in Nat
    BY <1>2, SoonerType
  <2>2. SpeedAfter(v, brake, k - Sooner(k, free)) \in Nat
    BY <2>1, SpeedType
  <2> QED
    BY <2>2
<1>3. AddsUp(way, TimeSteps, g)
  <2> HIDE DEF g
  <2> QED
    BY <1>1, <1>2, SumsExist
<1>4. Way(v, brake, free) = way
  <2>1. ASSUME NEW w
        PROVE  AddsUp(w, TimeSteps, g) <=>
                 w = [k \in 0 .. TimeSteps |->
                        IF k = 0 THEN 0
                        ELSE w[k - 1] + SpeedAfter(v, brake, k - Sooner(k, free))]
    <3>1. \A k \in 0 .. TimeSteps : k # 0 =>
            g[k] = SpeedAfter(v, brake, k - Sooner(k, free))
      BY <1>2
    <3> HIDE DEF g
    <3> QED
      BY <3>1 DEF AddsUp
  <2> QED
    BY <2>1 DEF Way
<1>5. \A k \in 1 .. TimeSteps : g[k] = SpeedAfter(v, brake, k - Sooner(k, free))
  OBVIOUS
<1> HIDE DEF g, way
<1>6. /\ way[0] = 0
      /\ \A k \in 1 .. TimeSteps : way[k] = way[k - 1] + g[k]
      /\ \A k \in 0 .. TimeSteps : way[k] \in Nat
  BY <1>1, <1>2, <1>3, SumsAre
<1> QED
  BY <1>4, <1>5, <1>6

\* Where the cars are after k steps, without the loop.
FrontWay(p) == Way(p.frontSpeed, p.frontBrake, 0)
EgoWay(p) == Way(p.egoSpeed, p.egoBrake, p.reaction)

GapAt(p, k) == p.distance + FrontWay(p)[k] - EgoWay(p)[k]
RelAt(p, k) == (EgoWay(p)[k] - EgoWay(p)[k - 1]) - (FrontWay(p)[k] - FrontWay(p)[k - 1])

FrontSpeed(p, k) == SpeedAfter(p.frontSpeed, p.frontBrake, k)
EgoSpeed(p, k) == SpeedAfter(p.egoSpeed, p.egoBrake, k - Sooner(k, p.reaction))

CarsAt(p, k) ==
  [frontSpeed |-> FrontSpeed(p, k), frontPos |-> p.distance + FrontWay(p)[k],
   egoSpeed   |-> EgoSpeed(p, k),   egoPos   |-> EgoWay(p)[k]]

LEMMA WaysAre ==
  ASSUME NEW p, ParamsOK(p)
  PROVE  /\ FrontWay(p)[0] = 0 /\ EgoWay(p)[0] = 0
         /\ \A k \in 1 .. TimeSteps :
              /\ FrontWay(p)[k] = FrontWay(p)[k - 1] + FrontSpeed(p, k)
              /\ EgoWay(p)[k] = EgoWay(p)[k - 1] + EgoSpeed(p, k)
         /\ \A k \in 0 .. TimeSteps :
              /\ FrontWay(p)[k] \in Nat /\ EgoWay(p)[k] \in Nat
              /\ FrontSpeed(p, k) \in Nat /\ EgoSpeed(p, k) \in Nat
<1>1. TimeSteps \in Nat
  BY TrialAssumption
<1>2. ASSUME NEW k \in Nat PROVE k - Sooner(k, 0) = k
  BY DEF Sooner
<1>3. /\ FrontWay(p)[0] = 0
      /\ \A k \in 1 .. TimeSteps :
           FrontWay(p)[k] = FrontWay(p)[k - 1]
                           + SpeedAfter(p.frontSpeed, p.frontBrake, k - Sooner(k, 0))
      /\ \A k \in 0 .. TimeSteps : FrontWay(p)[k] \in Nat
  BY WayIs DEF FrontWay, ParamsOK
<1>4. /\ EgoWay(p)[0] = 0
      /\ \A k \in 1 .. TimeSteps : EgoWay(p)[k] = EgoWay(p)[k - 1] + EgoSpeed(p, k)
      /\ \A k \in 0 .. TimeSteps : EgoWay(p)[k] \in Nat
  BY WayIs DEF EgoWay, EgoSpeed, ParamsOK
<1>5. ASSUME NEW k \in 0 .. TimeSteps
      PROVE  FrontSpeed(p, k) \in Nat /\ EgoSpeed(p, k) \in Nat
  <2>1. k \in Nat
    BY <1>1
  <2>2. /\ p.frontSpeed \in Nat /\ p.frontBrake \in Nat
        /\ p.egoSpeed \in Nat /\ p.egoBrake \in Nat /\ p.reaction \in Nat
    BY DEF ParamsOK
  <2>3. k - Sooner(k, p.reaction) \in Nat
    BY <2>1, <2>2, SoonerType
  <2>4. FrontSpeed(p, k) \in Nat
    BY <2>1, <2>2, SpeedType DEF FrontSpeed
  <2>5. EgoSpeed(p, k) \in Nat
    BY <2>2, <2>3, SpeedType DEF EgoSpeed
  <2> QED
    BY <2>4, <2>5
<1>6. \A k \in 1 .. TimeSteps : FrontWay(p)[k] = FrontWay(p)[k - 1] + FrontSpeed(p, k)
  BY <1>1, <1>2, <1>3 DEF FrontSpeed
<1> QED
  BY <1>3, <1>4, <1>5, <1>6

\* Each car brakes by one more step; the following one when its driver has
\* reacted.
LEMMA SpeedsAre ==
  ASSUME NEW p, ParamsOK(p), NEW k \in Nat
  PROVE  /\ FrontSpeed(p, k + 1) = Nonnegative(FrontSpeed(p, k) - p.frontBrake)
         /\ EgoSpeed(p, k + 1) = IF k >= p.reaction
                                 THEN Nonnegative(EgoSpeed(p, k) - p.egoBrake)
                                 ELSE EgoSpeed(p, k)
         /\ FrontSpeed(p, 0) = p.frontSpeed /\ EgoSpeed(p, 0) = p.egoSpeed
<1>1. /\ FrontSpeed(p, k + 1) = Nonnegative(FrontSpeed(p, k) - p.frontBrake)
      /\ FrontSpeed(p, 0) = p.frontSpeed
  <2>1. p.frontSpeed \in Nat /\ p.frontBrake \in Nat
    BY DEF ParamsOK
  <2> QED
    BY <2>1, SpeedType DEF FrontSpeed
<1>2. EgoSpeed(p, 0) = p.egoSpeed
  <2>1. 0 - Sooner(0, p.reaction) = 0
    BY DEF ParamsOK, Sooner
  <2> QED
    BY <2>1, SpeedType DEF ParamsOK, EgoSpeed
<1>3. CASE k >= p.reaction
  <2> DEFINE n == k - p.reaction
  <2>1. /\ n \in Nat
        /\ k - Sooner(k, p.reaction) = n
        /\ (k + 1) - Sooner(k + 1, p.reaction) = n + 1
    BY <1>3 DEF ParamsOK, Sooner
  <2> HIDE DEF n
  <2>2. SpeedAfter(p.egoSpeed, p.egoBrake, n + 1)
          = Nonnegative(SpeedAfter(p.egoSpeed, p.egoBrake, n) - p.egoBrake)
    <3>1. p.egoSpeed \in Nat /\ p.egoBrake \in Nat /\ n \in Nat
      BY <2>1 DEF ParamsOK
    <3> QED
      BY <3>1, SpeedType
  <2> QED
    BY <1>1, <1>2, <1>3, <2>1, <2>2 DEF EgoSpeed
<1>4. CASE ~(k >= p.reaction)
  <2>1. /\ k - Sooner(k, p.reaction) = 0
        /\ (k + 1) - Sooner(k + 1, p.reaction) = 0
    BY <1>4 DEF ParamsOK, Sooner
  <2> QED
    BY <1>1, <1>2, <1>4, <2>1 DEF EgoSpeed
<1> QED
  BY <1>3, <1>4

\* advance_one_step goes along these ways.
LEMMA CarsAdvance ==
  ASSUME NEW p, ParamsOK(p), NEW k \in 0 .. TimeSteps, k < TimeSteps
  PROVE  Advance(p, CarsAt(p, k), k) = CarsAt(p, k + 1)
<1>1. k \in Nat /\ k + 1 \in 1 .. TimeSteps /\ (k + 1) - 1 = k
  BY TrialAssumption
<1>2. /\ FrontWay(p)[k + 1] = FrontWay(p)[k] + FrontSpeed(p, k + 1)
      /\ EgoWay(p)[k + 1] = EgoWay(p)[k] + EgoSpeed(p, k + 1)
  BY <1>1, WaysAre
<1>3. /\ FrontWay(p)[k] \in Nat /\ FrontSpeed(p, k + 1) \in Nat /\ p.distance \in Nat
  BY <1>1, WaysAre DEF ParamsOK
<1>4. p.distance + FrontWay(p)[k + 1] = (p.distance + FrontWay(p)[k]) + FrontSpeed(p, k + 1)
  BY <1>2, <1>3
<1>5. /\ FrontSpeed(p, k + 1) = Nonnegative(FrontSpeed(p, k) - p.frontBrake)
      /\ EgoSpeed(p, k + 1) = IF k >= p.reaction
                              THEN Nonnegative(EgoSpeed(p, k) - p.egoBrake)
                              ELSE EgoSpeed(p, k)
  BY <1>1, SpeedsAre
<1>6. Advance(p, CarsAt(p, k), k) =
        [frontSpeed |-> FrontSpeed(p, k + 1),
         frontPos   |-> (p.distance + FrontWay(p)[k]) + FrontSpeed(p, k + 1),
         egoSpeed   |-> EgoSpeed(p, k + 1),
         egoPos     |-> EgoWay(p)[k] + EgoSpeed(p, k + 1)]
  BY <1>5 DEF Advance, CarsAt
<1> QED
  BY <1>2, <1>4, <1>6 DEF CarsAt

\* The gap and the closing speed of the cars.
LEMMA CarsAre ==
  ASSUME NEW p, ParamsOK(p), NEW k \in 0 .. TimeSteps
  PROVE  /\ Gap(CarsAt(p, k)) = GapAt(p, k) /\ GapAt(p, k) \in Int
         /\ GapAt(p, 0) = p.distance
         /\ k # 0 => Closing(CarsAt(p, k)) = RelAt(p, k) /\ RelAt(p, k) \in Int
<1>1. FrontWay(p)[k] \in Nat /\ EgoWay(p)[k] \in Nat /\ p.distance \in Nat
  BY WaysAre DEF ParamsOK
<1>2. Gap(CarsAt(p, k)) = GapAt(p, k) /\ GapAt(p, k) \in Int
  BY <1>1 DEF Gap, CarsAt, GapAt
<1>3. GapAt(p, 0) = p.distance
  BY <1>1, WaysAre DEF GapAt
<1>4. ASSUME k # 0
      PROVE  Closing(CarsAt(p, k)) = RelAt(p, k) /\ RelAt(p, k) \in Int
  <2>1. k \in 1 .. TimeSteps /\ k - 1 \in 0 .. TimeSteps
    BY <1>4, TrialAssumption
  <2>2. /\ FrontWay(p)[k] = FrontWay(p)[k - 1] + FrontSpeed(p, k)
        /\ EgoWay(p)[k] = EgoWay(p)[k - 1] + EgoSpeed(p, k)
        /\ FrontWay(p)[k - 1] \in Nat /\ EgoWay(p)[k - 1] \in Nat
        /\ FrontSpeed(p, k) \in Nat /\ EgoSpeed(p, k) \in Nat
    BY <2>1, WaysAre
  <2>3. RelAt(p, k) = EgoSpeed(p, k) - FrontSpeed(p, k)
    BY <2>2 DEF RelAt
  <2> QED
    BY <2>2, <2>3 DEF Closing, CarsAt
<1> QED
  BY <1>2, <1>3, <1>4

-----------------------------------------------------------------------------
(* Times to collision.  The smallest of all steps is below a limit exactly *)
(* if that of one step is: fractions are compared by their products.       *)

Fractions == (Nat \ {0}) \X Nat

LEMMA LessTrans ==
  ASSUME NEW a \in Fractions, NEW b \in Fractions, NEW limit \in Nat
  PROVE  /\ Less(a, b) /\ Less(b, <<limit, 1>>) => Less(a, <<limit, 1>>)
         /\ ~Less(a, b) /\ Less(a, <<limit, 1>>) => Less(b, <<limit, 1>>)
<1> DEFINE a1 == a[1]
           a2 == a[2]
           b1 == b[1]
           b2 == b[2]
<1>1. /\ a1 \in Nat \ {0} /\ a2 \in Nat /\ b1 \in Nat \ {0} /\ b2 \in Nat
  BY DEF Fractions
<1>2. /\ Less(a, b) <=> a1 * b2 < b1 * a2
      /\ Less(a, <<limit, 1>>) <=> a1 < limit * a2
      /\ Less(b, <<limit, 1>>) <=> b1 < limit * b2
  BY <1>1 DEF Less
<1> HIDE DEF a1, a2, b1, b2
<1> DEFINE la == limit * a2
           lb == limit * b2
<1>3. la \in Nat /\ lb \in Nat
  BY <1>1, Product
<1>4. lb * a2 = la * b2
  BY <1>1
<1> HIDE DEF la, lb
<1>5. ASSUME a1 * b2 < b1 * a2, b1 < lb PROVE a1 < la
  <2>1. b1 * a2 <= lb * a2 /\ lb * a2 \in Nat /\ b1 * a2 \in Nat
    BY <1>1, <1>3, <1>5, TimesMonotone
  <2>2. a1 * b2 < la * b2
    <3> DEFINE x == a1 * b2
               y == b1 * a2
               z == lb * a2
    <3>1. x < y /\ y <= z /\ x \in Nat /\ y \in Nat /\ z \in Nat
      BY <1>1, <1>5, <2>1, Product
    <3> HIDE DEF x, y, z
    <3>2. x < z
      BY <3>1
    <3> QED
      BY <1>4, <3>2 DEF x, z
  <2> QED
    BY <1>1, <1>3, <2>2, LessByProduct
<1>6. ASSUME ~(a1 * b2 < b1 * a2), a1 < la PROVE b1 < lb
  <2> SUFFICES ASSUME lb <= b1 PROVE FALSE
    BY <1>1, <1>3
  <2>1. lb * a2 <= b1 * a2 /\ lb * a2 \in Nat /\ b1 * a2 \in Nat
    BY <1>1, <1>3, TimesMonotone
  <2>2. a1 * b2 <= la * b2 /\ a1 * b2 \in Nat /\ la * b2 \in Nat
    BY <1>1, <1>3, <1>6, TimesMonotone
  <2>3. a1 * b2 = la * b2
    BY <1>4, <1>6, <2>1, <2>2
  <2>4. b2 # 0
    <3> SUFFICES ASSUME b2 = 0 PROVE FALSE
      OBVIOUS
    <3>1. b1 * a2 = 0
      BY <1>1, <1>6, <2>1
    <3>2. a2 = 0
      BY <1>1, <3>1
    <3> QED
      BY <1>1, <1>6, <3>2 DEF la
  <2>5. (a1 + 1) * b2 = a1 * b2 + b2 /\ (a1 + 1) * b2 <= la * b2
    BY <1>1, <1>3, <1>6, TimesSucc, TimesMonotone
  <2> QED
    BY <1>1, <2>2, <2>3, <2>4, <2>5
<1> QED
  BY <1>2, <1>5, <1>6 DEF la, lb

\* In one of the first n steps the gap closes, or the time to collision is
\* below a limit.
Hits(p, n) == \E k \in 1 .. n : GapAt(p, k) <= 0
Below(p, n, limit) == \E k \in 1 .. n : GapAt(p, k) < limit * RelAt(p, k)

\* ttc is the smallest time to collision of the first n steps.
Fits(p, n, ttc) ==
  /\ ttc \in Fractions
  /\ \A limit \in Nat : Less(ttc, <<limit, 1>>) <=> Below(p, n, limit)

LEMMA FitsFirst == ASSUME NEW p PROVE Fits(p, 0, LargeTtc)
<1>1. LargeTtc \in Fractions
  BY DEF LargeTtc, Fractions
<1>2. ASSUME NEW limit \in Nat PROVE ~Less(LargeTtc, <<limit, 1>>)
  BY DEF LargeTtc, Less
<1>3. ASSUME NEW limit \in Nat PROVE ~Below(p, 0, limit)
  BY DEF Below
<1> QED
  BY <1>1, <1>2, <1>3 DEF Fits

LEMMA TtcIs ==
  ASSUME NEW p, ParamsOK(p), NEW k \in 1 .. TimeSteps, GapAt(p, k) > 0
  PROVE  /\ Ttc(CarsAt(p, k)) \in Fractions
         /\ \A limit \in Nat :
              Less(Ttc(CarsAt(p, k)), <<limit, 1>>)
                <=> GapAt(p, k) < limit * RelAt(p, k)
<1> DEFINE gap == GapAt(p, k)
           rel == RelAt(p, k)
<1>1. gap \in Nat \ {0} /\ rel \in Int
      /\ Gap(CarsAt(p, k)) = gap /\ Closing(CarsAt(p, k)) = rel
  <2>1. k \in 0 .. TimeSteps /\ k # 0
    BY TrialAssumption
  <2> QED
    BY <2>1, CarsAre
<1> HIDE DEF gap, rel
<1>2. Ttc(CarsAt(p, k)) = IF rel > 0 THEN <<gap, rel>> ELSE <<1, 0>>
  BY <1>1 DEF Ttc, LargeTtc
<1>3. Ttc(CarsAt(p, k)) \in Fractions
  BY <1>1, <1>2 DEF Fractions
<1>4. ASSUME NEW limit \in Nat
      PROVE  Less(Ttc(CarsAt(p, k)), <<limit, 1>>) <=> gap < limit * rel
  <2>1. CASE rel > 0
    BY <1>1, <1>2, <2>1 DEF Less
  <2>2. CASE ~(rel > 0)
    <3>1. limit * rel <= 0
      <4> DEFINE m == -rel
      <4>1. m \in Nat /\ rel = -m
        BY <1>1, <2>2
      <4> HIDE DEF m
      <4>2. limit * m \in Nat /\ limit * (-m) = -(limit * m)
        BY <4>1
      <4> QED
        BY <4>1, <4>2
    <3>2. limit * rel \in Int
      BY <1>1
    <3>3. ~(gap < limit * rel)
      BY <1>1, <3>1, <3>2
    <3>4. ~Less(<<1, 0>>, <<limit, 1>>)
      BY DEF Less
    <3> QED
      BY <1>2, <2>2, <3>3, <3>4
  <2> QED
    BY <2>1, <2>2
<1> QED
  BY <1>3, <1>4 DEF gap, rel

\* The loop keeps the smallest.
LEMMA FitsNext ==
  ASSUME NEW p, ParamsOK(p), NEW k \in 1 .. TimeSteps, GapAt(p, k) > 0,
         NEW m, Fits(p, k - 1, m)
  PROVE  Fits(p, k, IF Less(Ttc(CarsAt(p, k)), m) THEN Ttc(CarsAt(p, k)) ELSE m)
<1> DEFINE t == Ttc(CarsAt(p, k))
           next == IF Less(t, m) THEN t ELSE m
<1>1. t \in Fractions /\ m \in Fractions
  BY TtcIs DEF Fits
<1>2. ASSUME NEW limit \in Nat
      PROVE  Less(t, <<limit, 1>>) <=> GapAt(p, k) < limit * RelAt(p, k)
  BY TtcIs
<1> HIDE DEF t
<1>3. ASSUME NEW limit \in Nat
      PROVE  Less(next, <<limit, 1>>)
               <=> Less(t, <<limit, 1>>) \/ Less(m, <<limit, 1>>)
  BY <1>1, LessTrans
<1>4. ASSUME NEW limit \in Nat
      PROVE  Below(p, k, limit)
               <=> Below(p, k - 1, limit) \/ GapAt(p, k) < limit * RelAt(p, k)
  <2>1. \A j : j \in 1 .. k <=> j \in 1 .. k - 1 \/ j = k
    BY TrialAssumption
  <2> QED
    BY <2>1 DEF Below
<1>5. next \in Fractions
  BY <1>1
<1> HIDE DEF next
<1>6. Fits(p, k, next)
  BY <1>2, <1>3, <1>4, <1>5 DEF Fits
<1> QED
  BY <1>6 DEF next, t

\* The risk by the physics, and what classify_risk makes of the loop's locals.
LEMMA RiskIs ==
  ASSUME NEW s
  PROVE  LET p == ParamsFrom(s)
         IN  RiskOf(s) = IF Hits(p, TimeSteps)      THEN Collision ELSE
                         IF Below(p, TimeSteps, 15) THEN High      ELSE
                         IF Below(p, TimeSteps, 30) THEN Medium    ELSE
                         IF Below(p, TimeSteps, 50) THEN Low       ELSE Safe
<1> DEFINE p == ParamsFrom(s)
           gap == [k \in 1 .. TimeSteps |-> p.distance + FrontWay(p)[k] - EgoWay(p)[k]]
           rel == [k \in 1 .. TimeSteps |-> (EgoWay(p)[k] - EgoWay(p)[k - 1])
                                              - (FrontWay(p)[k] - FrontWay(p)[k - 1])]
           Close(limit) == \E k \in 1 .. TimeSteps : gap[k] < limit * rel[k]
<1>1. RiskOf(s) = IF \E k \in 1 .. TimeSteps : gap[k] <= 0 THEN Collision ELSE
                  IF Close(15) THEN High   ELSE
                  IF Close(30) THEN Medium ELSE
                  IF Close(50) THEN Low    ELSE Safe
  BY DEF RiskOf, FrontWay, EgoWay
<1>2. \A k \in 1 .. TimeSteps : gap[k] = GapAt(p, k) /\ rel[k] = RelAt(p, k)
  BY DEF GapAt, RelAt
<1> HIDE DEF p, gap, rel
<1>3. (\E k \in 1 .. TimeSteps : gap[k] <= 0) <=> Hits(p, TimeSteps)
  BY <1>2 DEF Hits
<1>4. \A limit : Close(limit) <=> Below(p, TimeSteps, limit)
  BY <1>2 DEF Below
<1> HIDE DEF Close
<1> QED
  BY <1>1, <1>3, <1>4 DEF p

LEMMA RiskFits ==
  ASSUME NEW s, NEW n \in 0 .. TimeSteps, NEW hit \in BOOLEAN, NEW ttc,
         hit <=> n # 0 /\ GapAt(ParamsFrom(s), n) <= 0,
         ~hit => n = TimeSteps /\ ~Hits(ParamsFrom(s), n) /\ Fits(ParamsFrom(s), n, ttc)
  PROVE  Classify(hit, ttc) = RiskOf(s) /\ RiskOf(s) \in Risks
         /\ (RiskOf(s) = Collision <=> hit)
<1> DEFINE p == ParamsFrom(s)
<1>1. CASE hit
  <2>1. n \in 1 .. TimeSteps /\ GapAt(p, n) <= 0
    BY <1>1, TrialAssumption
  <2>2. Hits(p, TimeSteps)
    BY <2>1 DEF Hits
  <2> QED
    BY <1>1, <2>2, RiskIs
       DEF Classify, Risks, Collision, Safe, High, Medium, Low
<1>2. CASE ~hit
  <2>1. ~Hits(p, TimeSteps)
    BY <1>2
  <2>2. \A limit \in Nat : Less(ttc, <<limit, 1>>) <=> Below(p, TimeSteps, limit)
    BY <1>2 DEF Fits
  <2>3. /\ Less(ttc, <<15, 1>>) <=> Below(p, TimeSteps, 15)
        /\ Less(ttc, <<30, 1>>) <=> Below(p, TimeSteps, 30)
        /\ Less(ttc, <<50, 1>>) <=> Below(p, TimeSteps, 50)
    BY <2>2
  <2> QED
    BY <1>2, <2>1, <2>3, RiskIs
       DEF Classify, Risks, Collision, Safe, High, Medium, Low
<1> QED
  BY <1>1, <1>2

-----------------------------------------------------------------------------
(* Seeds.  The factor has an inverse modulo Modulus, and an exclusive or   *)
(* with the base seed can be undone: different indices, different seeds.   *)

\* A remainder and a quotient are unique.
LEMMA Division ==
  ASSUME NEW d \in Nat \ {0}, NEW q \in Nat, NEW r \in 0 .. d - 1
  PROVE  (q * d + r) % d = r /\ (q * d + r) \div d = q
<1> DEFINE n == q * d + r
           z == n \div d
           m == n % d
<1>1. q * d \in Nat /\ d \in Nat /\ r \in Nat
  BY Product
<1>2. n \in Nat
  BY <1>1
<1>3. n = q * d + r
  OBVIOUS
<1> HIDE DEF n
<1>4. z \in Nat /\ m \in 0 .. d - 1 /\ n = z * d + m
  BY <1>2, DivMod
<1> HIDE DEF z, m
<1>5. z = q
  <2>1. ASSUME NEW a \in Nat, NEW b \in Nat, a < b PROVE a * d + d <= b * d
    <3>1. (a + 1) * d = a * d + d /\ (a + 1) * d <= b * d
      BY <1>1, <2>1, TimesSucc, TimesMonotone
    <3> QED
      BY <3>1
  <2>2. z * d \in Nat
    BY <1>1, <1>4, Product
  <2>3. ~(z < q)
    <3> SUFFICES ASSUME z < q PROVE FALSE
      OBVIOUS
    <3>1. z * d + d <= q * d
      BY <1>4, <2>1
    <3> QED
      BY <1>1, <1>3, <1>4, <2>2, <3>1
  <2>4. ~(q < z)
    <3> SUFFICES ASSUME q < z PROVE FALSE
      OBVIOUS
    <3>1. q * d + d <= z * d
      BY <1>4, <2>1
    <3> QED
      BY <1>1, <1>3, <1>4, <2>2, <3>1
  <2> QED
    BY <1>4, <2>3, <2>4
<1>6. m = r
  BY <1>1, <1>3, <1>4, <1>5
<1> QED
  BY <1>5, <1>6 DEF m, n, z

\* A product modulo d, of the remainder.
LEMMA TimesMod ==
  ASSUME NEW d \in Nat \ {0}, NEW a \in Nat, NEW f \in Nat
  PROVE  (a * f) % d = ((a % d) * f) % d
<1> DEFINE q == a \div d
           r == a % d
<1>1. q \in Nat /\ r \in Nat /\ a = q * d + r
  BY DivMod
<1> HIDE DEF q, r
<1> DEFINE x == r * f
           y == x \div d
           m == x % d
<1>2. x \in Nat
  BY <1>1, Product
<1>3. a * f = q * d * f + x
  BY <1>1
<1> HIDE DEF x
<1>4. y \in Nat /\ m \in 0 .. d - 1 /\ x = y * d + m
  BY <1>2, DivMod
<1> HIDE DEF y, m
<1>5. q * f \in Nat /\ q * d * f = (q * f) * d
  BY <1>1
<1> DEFINE z == q * f
<1>6. a * f = (z + y) * d + m
  <2>1. (z + y) * d = z * d + y * d /\ z * d \in Nat /\ y * d \in Nat
    BY <1>4, <1>5
  <2> QED
    BY <1>3, <1>4, <1>5, <2>1
<1>7. z + y \in Nat
  BY <1>4, <1>5
<1> HIDE DEF z
<1> DEFINE w == z + y
<1>8. (a * f) % d = m
  <2>1. w \in Nat /\ a * f = w * d + m
    BY <1>6, <1>7
  <2> HIDE DEF w
  <2>2. (w * d + m) % d = m
    BY <1>4, <2>1, Division
  <2> QED
    BY <2>1, <2>2
<1> QED
  BY <1>8 DEF m, x, r

\* The factor of the seeds loses no bit of the index.
LEMMA FactorDistinct ==
  ASSUME NEW a \in Nat, NEW b \in Nat
  PROVE  (a * SeedFactor) % Modulus = (b * SeedFactor) % Modulus
           <=> a % Modulus = b % Modulus
<1>1. Modulus \in Nat \ {0} /\ SeedFactor \in Nat
  BY TrialAssumption
<1>2. PICK inverse \in Nat : (inverse * SeedFactor) % Modulus = 1
  BY <1>1, FactorAssumption
<1>3. ASSUME NEW c \in Nat
      PROVE  (((c * SeedFactor) % Modulus) * inverse) % Modulus = c % Modulus
  <2> DEFINE x == c * SeedFactor
             y == inverse * SeedFactor
  <2>1. x \in Nat /\ y \in Nat
    BY <1>1, <1>2, <1>3, Product
  <2>2. x * inverse = y * c
    BY <1>1, <1>2, <1>3
  <2> HIDE DEF x, y
  <2>3. (x * inverse) % Modulus = ((x % Modulus) * inverse) % Modulus
    BY <1>1, <1>2, <2>1, TimesMod
  <2>4. (y * c) % Modulus = ((y % Modulus) * c) % Modulus
    BY <1>1, <1>3, <2>1, TimesMod
  <2>5. y % Modulus = 1
    BY <1>2 DEF y
  <2>6. 1 * c = c
    BY <1>3
  <2>7. ((x % Modulus) * inverse) % Modulus = c % Modulus
    BY <2>2, <2>3, <2>4, <2>5, <2>6
  <2> QED
    BY <2>7 DEF x
<1>4. ASSUME NEW c \in Nat
      PROVE  (c * SeedFactor) % Modulus = ((c % Modulus) * SeedFactor) % Modulus
  BY <1>1, <1>4, TimesMod
<1>5. ASSUME (a * SeedFactor) % Modulus = (b * SeedFactor) % Modulus
      PROVE  a % Modulus = b % Modulus
  <2>1. (((a * SeedFactor) % Modulus) * inverse) % Modulus = a % Modulus
    BY <1>3
  <2>2. (((b * SeedFactor) % Modulus) * inverse) % Modulus = b % Modulus
    BY <1>3
  <2> QED
    BY <1>5, <2>1, <2>2
<1>6. ASSUME a % Modulus = b % Modulus
      PROVE  (a * SeedFactor) % Modulus = (b * SeedFactor) % Modulus
  BY <1>4, <1>6
<1> QED
  BY <1>5, <1>6

LEMMA SeedType ==
  ASSUME seed \in Unsigned, NEW k \in Nat
  PROVE  SeedFor(k) \in Unsigned
<1> DEFINE x == k * SeedFactor
<1>1. x \in Nat /\ Modulus \in Nat \ {0}
  BY TrialAssumption, Product
<1> HIDE DEF x
<1>2. x % Modulus \in 0 .. Modulus - 1
  BY <1>1, DivMod
<1> QED
  BY <1>2, ExclusiveOrAssumption DEF SeedFor, Unsigned, x

LEMMA SeedForDistinct ==
  ASSUME seed \in Unsigned, NEW a \in Nat, NEW b \in Nat
  PROVE  SeedFor(a) = SeedFor(b) <=> a % Modulus = b % Modulus
<1> DEFINE x(c) == (c * SeedFactor) % Modulus
<1>1. ASSUME NEW c \in Nat PROVE x(c) \in 0 .. Modulus - 1
  <2> DEFINE y == c * SeedFactor
  <2>1. y \in Nat /\ Modulus \in Nat \ {0}
    BY <1>1, TrialAssumption, Product
  <2> HIDE DEF y
  <2>2. y % Modulus \in 0 .. Modulus - 1
    BY <2>1, DivMod
  <2> QED
    BY <2>2 DEF y
<1>2. x(a) = x(b) <=> a % Modulus = b % Modulus
  BY FactorDistinct
<1>3. SeedFor(a) = ExclusiveOr(seed, x(a)) /\ SeedFor(b) = ExclusiveOr(seed, x(b))
  BY DEF SeedFor
<1>4. x(a) \in 0 .. Modulus - 1 /\ x(b) \in 0 .. Modulus - 1
  BY <1>1
<1> HIDE DEF x
<1>5. /\ ExclusiveOr(seed, ExclusiveOr(seed, x(a))) = x(a)
      /\ ExclusiveOr(seed, ExclusiveOr(seed, x(b))) = x(b)
  BY <1>4, ExclusiveOrAssumption DEF Unsigned
<1> QED
  BY <1>2, <1>3, <1>5

-----------------------------------------------------------------------------
(* The inductive invariant. *)

\* Of the first trials of the batch, those of a risk.
Counted(n, r) == {k \in first .. n - 1 : RiskOf(SeedFor(k)) = r}

\* What the batch has counted when trial n is next.
Counts(n) ==
  [total      |-> n - first,
   collisions |-> Cardinality(Counted(n, Collision)),
   histogram  |-> [r \in Risks |-> Cardinality(Counted(n, r))]]

\* The locals of run_trial after `step' turns of its loop, for the seed s.
Loop(s) ==
  LET p == ParamsFrom(s) IN
  /\ params = p
  /\ step \in 0 .. TimeSteps
  /\ cars = CarsAt(p, step)
  /\ collided \in BOOLEAN
  /\ collided <=> step # 0 /\ GapAt(p, step) <= 0
  /\ ~collided => ~Hits(p, step) /\ Fits(p, step, minTtc)

TrialInv ==
  /\ seed \in Unsigned
  /\ first \in Nat /\ i \in first .. End
  /\ pc \in {"next", "burn", "inner", "ready", "step"}
  /\ out = Counts(i)
  /\ pc # "next" => i < End
  /\ pc \in {"burn", "inner", "ready"} => trialSeed = SeedFor(i)
  /\ pc = "step" => Loop(SeedFor(i))

\* The configuration stays, and so do the seeds and what is counted.
LEMMA ConfigStays ==
  ASSUME config' = config
  PROVE  /\ \A k : SeedFor(k)' = SeedFor(k)
         /\ Counts(i)' = Counts(i')
         /\ End' = End /\ first' = first /\ seed' = seed
<1>1. seed' = seed /\ first' = first
  BY DEF config
<1>2. \A k : SeedFor(k)' = SeedFor(k)
  BY <1>1 DEF SeedFor
<1>3. \A r : Counted(i, r)' = Counted(i', r)
  BY <1>1, <1>2 DEF Counted
<1>4. Counts(i)' = Counts(i')
  BY <1>1, <1>3 DEF Counts
<1> QED
  BY <1>1, <1>2, <1>3, <1>4 DEF End

LEMMA EndType ==
  ASSUME TrialInv
  PROVE  i \in Nat /\ End \in Nat /\ End = first + BatchSize
BY TrialAssumption DEF TrialInv, End

\* One turn of the loop.
LEMMA DriveStep ==
  ASSUME TrialInv, Drive
  PROVE  Loop(SeedFor(i))' /\ CarsAt(params, step) = cars
         /\ CarsAt(params, step + 1) = cars' /\ ParamsOK(params)
<1> DEFINE s == SeedFor(i)
           p == ParamsFrom(s)
           k == step + 1
<1>1. Loop(s)
  BY DEF TrialInv, Drive
<1>2. config' = config /\ i' = i /\ params' = params
  BY DEF Drive, Frame
<1>3. ParamsOK(p)
  BY EndType, SeedType, ParamsType DEF TrialInv
<1>4. s' = s
  BY <1>2, ConfigStays
<1>5. /\ params = p /\ step \in 0 .. TimeSteps /\ step < TimeSteps
      /\ cars = CarsAt(p, step) /\ ~Hits(p, step) /\ Fits(p, step, minTtc)
  BY <1>1 DEF Loop, Drive
<1>6. /\ cars' = Advance(params, cars, step)
      /\ minTtc' = IF Less(Ttc(cars'), minTtc) THEN Ttc(cars') ELSE minTtc
      /\ collided' = (Gap(cars') <= 0)
      /\ step' = k
  BY DEF Drive
<1> HIDE DEF s, p
<1>7. k \in 1 .. TimeSteps /\ k - 1 = step /\ k \in 0 .. TimeSteps /\ k # 0
  BY <1>5, TrialAssumption
<1>8. cars' = CarsAt(p, k)
  BY <1>3, <1>5, <1>6, CarsAdvance
<1> HIDE DEF k
<1>9. Gap(cars') = GapAt(p, k) /\ GapAt(p, k) \in Int
  BY <1>3, <1>7, <1>8, CarsAre
<1>10. collided' \in BOOLEAN /\ (collided' <=> GapAt(p, k) <= 0)
  <2> DEFINE closed == GapAt(p, k) <= 0
  <2>1. collided' = closed
    BY <1>6, <1>9
  <2>2. closed \in BOOLEAN
    OBVIOUS
  <2> HIDE DEF closed
  <2>3. collided' \in BOOLEAN /\ (collided' <=> closed)
    BY <2>1, <2>2
  <2> QED
    BY <2>3 DEF closed
<1>11. ASSUME ~collided' PROVE ~Hits(p, k) /\ Fits(p, k, minTtc')
  <2>1. GapAt(p, k) > 0
    BY <1>9, <1>10, <1>11
  <2>2. ~Hits(p, k)
    <3>1. \A j \in 1 .. k : j \in 1 .. step \/ j = k
      BY <1>7
    <3> QED
      BY <1>5, <1>9, <2>1, <3>1 DEF Hits
  <2>3. Fits(p, k - 1, minTtc)
    BY <1>5, <1>7
  <2>4. Fits(p, k, IF Less(Ttc(CarsAt(p, k)), minTtc) THEN Ttc(CarsAt(p, k)) ELSE minTtc)
    BY <1>3, <1>7, <2>1, <2>3, FitsNext
  <2> QED
    BY <1>6, <1>8, <2>2, <2>4
<1>12. p' = p
  BY <1>4 DEF p
<1>13. Loop(s)'
  <2>1. /\ params' = p /\ step' \in 0 .. TimeSteps /\ cars' = CarsAt(p, step')
        /\ collided' \in BOOLEAN
        /\ collided' <=> step' # 0 /\ GapAt(p, step') <= 0
        /\ ~collided' => ~Hits(p, step') /\ Fits(p, step', minTtc')
    BY <1>2, <1>5, <1>6, <1>7, <1>8, <1>10, <1>11
  <2> QED
    BY <1>4, <2>1 DEF Loop, p
<1> QED
  BY <1>3, <1>5, <1>8, <1>13 DEF s, k

\* One trial more.
LEMMA CountsNext ==
  ASSUME TrialInv, i < End, NEW hit \in BOOLEAN, NEW ttc,
         Classify(hit, ttc) = RiskOf(SeedFor(i)),
         RiskOf(SeedFor(i)) \in Risks,
         RiskOf(SeedFor(i)) = Collision <=> hit
  PROVE  [total      |-> out.total + 1,
          collisions |-> out.collisions + (IF hit THEN 1 ELSE 0),
          histogram  |-> [out.histogram EXCEPT ![Classify(hit, ttc)] = @ + 1]]
           = Counts(i + 1)
<1> DEFINE risk == RiskOf(SeedFor(i))
           size(n, r) == Cardinality(Counted(n, r))
<1>1. i \in Nat /\ first \in Nat /\ first <= i
  BY EndType DEF TrialInv
<1>2. ASSUME NEW r
      PROVE  /\ size(i, r) \in Nat
             /\ size(i + 1, r) = size(i, r) + (IF risk = r THEN 1 ELSE 0)
  <2>1. IsFiniteSet(Counted(i, r))
    <3>1. IsFiniteSet(first .. i - 1)
      BY <1>1, FS_Interval
    <3> QED
      BY <3>1, FS_Subset DEF Counted
  <2>2. size(i, r) \in Nat
    BY <2>1, FS_CardinalityType
  <2>3. \A k : k \in first .. (i + 1) - 1 <=> k \in first .. i - 1 \/ k = i
    BY <1>1
  <2>4. i \notin Counted(i, r)
    BY <1>1 DEF Counted
  <2>5. CASE risk = r
    <3>1. Counted(i + 1, r) = Counted(i, r) \cup {i}
      BY <2>3, <2>5 DEF Counted
    <3> QED
      BY <2>1, <2>2, <2>4, <2>5, <3>1, FS_AddElement
  <2>6. CASE risk # r
    <3>1. Counted(i + 1, r) = Counted(i, r)
      BY <2>3, <2>6 DEF Counted
    <3> QED
      BY <2>2, <2>6, <3>1
  <2> QED
    BY <2>5, <2>6
<1>3. /\ out.total = i - first /\ out.collisions = size(i, Collision)
      /\ out.histogram = [r \in Risks |-> size(i, r)]
  BY DEF TrialInv, Counts
<1>4. out.total + 1 = (i + 1) - first
  BY <1>1, <1>3
<1> HIDE DEF size, risk
<1>5. out.collisions + (IF hit THEN 1 ELSE 0) = size(i + 1, Collision)
  BY <1>2, <1>3 DEF risk
<1>6. [out.histogram EXCEPT ![risk] = @ + 1] = [r \in Risks |-> size(i + 1, r)]
  <2>1. \A r \in Risks : [out.histogram EXCEPT ![risk] = @ + 1][r] = size(i + 1, r)
    BY <1>2, <1>3 DEF risk
  <2> QED
    BY <1>3, <2>1
<1> QED
  BY <1>4, <1>5, <1>6 DEF Counts, size, risk

LEMMA RecordStep ==
  ASSUME TrialInv, Record
  PROVE  out' = Counts(i + 1) /\ i < End
<1>1. Loop(SeedFor(i)) /\ i < End
  BY DEF TrialInv, Record
<1>2. /\ Classify(collided, minTtc) = RiskOf(SeedFor(i))
      /\ RiskOf(SeedFor(i)) \in Risks
      /\ (RiskOf(SeedFor(i)) = Collision <=> collided)
  BY <1>1, RiskFits DEF Loop, Record
<1>3. collided \in BOOLEAN
  BY <1>1 DEF Loop
<1> QED
  BY <1>1, <1>2, <1>3, CountsNext DEF Record

LEMMA TrialInvariance == Spec => []TrialInv
<1>1. Init => TrialInv
  <2> SUFFICES ASSUME Init PROVE TrialInv
    OBVIOUS
  <2>1. /\ seed \in Unsigned /\ first \in Nat /\ i \in first .. End /\ i = first
        /\ pc = "next"
    BY TrialAssumption DEF Init, Unsigned, End
  <2>2. \A r : Counted(i, r) = {}
    BY <2>1 DEF Counted
  <2>3. Counts(i) = [total |-> 0, collisions |-> 0, histogram |-> [r \in Risks |-> 0]]
    BY <2>1, <2>2, FS_EmptySet DEF Counts
  <2> QED
    BY <2>1, <2>3 DEF Init, TrialInv
<1>2. ASSUME TrialInv, [Next]_vars PROVE TrialInv'
  <2>1. config' = config
    BY <1>2 DEF Next, Begin, Burn, BurnInner, Generate, Drive, Record, Frame, vars
  <2>2. /\ \A k : SeedFor(k)' = SeedFor(k)
        /\ Counts(i)' = Counts(i')
        /\ End' = End /\ first' = first /\ seed' = seed
    BY <2>1, ConfigStays
  <2>3. /\ seed' \in Unsigned /\ first' \in Nat
        /\ i \in Nat /\ End \in Nat /\ i \in first .. End /\ first \in Nat
    BY <1>2, <2>2, EndType DEF TrialInv
  <2>4. CASE Begin
    BY <1>2, <2>2, <2>3, <2>4 DEF Begin, Frame, TrialInv
  <2>5. CASE Burn \/ BurnInner
    BY <1>2, <2>2, <2>3, <2>5 DEF Burn, BurnInner, Frame, TrialInv
  <2>6. CASE Generate
    <3> DEFINE s == SeedFor(i)
               p == ParamsFrom(s)
    <3>1. ParamsOK(p)
      BY <1>2, <2>3, SeedType, ParamsType DEF TrialInv
    <3>2. /\ params' = p /\ step' = 0 /\ collided' = FALSE /\ minTtc' = LargeTtc
          /\ cars' = [frontSpeed |-> p.frontSpeed, frontPos |-> p.distance,
                      egoSpeed   |-> p.egoSpeed,   egoPos   |-> 0]
          /\ i' = i /\ s' = s
      BY <1>2, <2>2, <2>6 DEF Generate, Frame, TrialInv
    <3> HIDE DEF p
    <3>3. cars' = CarsAt(p, 0)
      <4>1. /\ FrontWay(p)[0] = 0 /\ EgoWay(p)[0] = 0
            /\ FrontSpeed(p, 0) = p.frontSpeed /\ EgoSpeed(p, 0) = p.egoSpeed
        BY <3>1, WaysAre, SpeedsAre
      <4>2. p.distance + 0 = p.distance
        BY <3>1 DEF ParamsOK
      <4> QED
        BY <3>2, <4>1, <4>2 DEF CarsAt
    <3>4. ~Hits(p, 0) /\ Fits(p, 0, LargeTtc)
      BY FitsFirst DEF Hits
    <3>5. 0 \in 0 .. TimeSteps
      BY TrialAssumption
    <3>6. Loop(s)'
      BY <3>2, <3>3, <3>4, <3>5 DEF Loop, p
    <3> QED
      BY <1>2, <2>2, <2>3, <2>6, <3>6 DEF Generate, Frame, TrialInv
  <2>7. CASE Drive
    <3>1. Loop(SeedFor(i))'
      BY <1>2, <2>7, DriveStep
    <3> QED
      BY <1>2, <2>2, <2>3, <2>7, <3>1 DEF Drive, Frame, TrialInv
  <2>8. CASE Record
    <3>1. out' = Counts(i + 1) /\ i < End /\ i' = i + 1 /\ pc' = "next"
      BY <1>2, <2>8, RecordStep DEF Record
    <3>2. i' \in first' .. End'
      BY <2>2, <2>3, <3>1
    <3>3. out' = Counts(i)'
      BY <2>2, <3>1
    <3> QED
      BY <2>3, <3>1, <3>2, <3>3 DEF TrialInv
  <2>9. CASE UNCHANGED vars
    <3>1. /\ i' = i /\ pc' = pc /\ out' = out /\ trialSeed' = trialSeed
          /\ Loop(SeedFor(i))' = Loop(SeedFor(i))
      BY <2>2, <2>9 DEF vars, Loop
    <3> QED
      BY <1>2, <2>2, <2>3, <3>1 DEF TrialInv
  <2> QED
    BY <1>2, <2>4, <2>5, <2>6, <2>7, <2>8, <2>9 DEF Next
<1> QED
  BY <1>1, <1>2, PTL DEF Spec

-----------------------------------------------------------------------------
(* The theorems. *)

\* The Result of a batch counts each of its trials once, at the risk that the
\* physics gives for its seed, whatever the extra CPU work.
THEOREM ResultIsTheRisks == Spec => []BatchResult
<1>1. TrialInv => BatchResult
  <2> SUFFICES ASSUME TrialInv, Done PROVE BatchResult
    BY DEF BatchResult
  <2>1. i = End /\ out = Counts(End) /\ first \in Nat /\ End - first = BatchSize
    BY EndType, TrialAssumption DEF TrialInv, Done
  <2>2. Collision \in Risks
    BY DEF Collision, Risks, Safe
  <2> QED
    BY <2>1, <2>2 DEF BatchResult, Counts, Counted
<1> QED
  BY TrialInvariance, <1>1, PTL

\* Trials draw from the same seed only if their indices are equal as unsigned.
THEOREM SeedsAreDistinct == Spec => []SeedsDistinct
<1>1. TrialInv => SeedsDistinct
  <2> SUFFICES ASSUME TrialInv, pc \in {"burn", "inner", "ready"},
                      NEW k \in 0 .. 2 * Modulus - 1
               PROVE  SeedFor(k) = trialSeed <=> k % Modulus = i % Modulus
    BY DEF SeedsDistinct
  <2>1. trialSeed = SeedFor(i) /\ seed \in Unsigned
    BY DEF TrialInv
  <2>2. i \in Nat /\ k \in Nat
    BY EndType, TrialAssumption
  <2> QED
    BY <2>1, <2>2, SeedForDistinct
<1> QED
  BY TrialInvariance, <1>1, PTL

\* No car rolls backwards, in any step of any trial.
THEOREM CarsNeverReverse == Spec => NoReverse
<1>1. ASSUME TrialInv, [Next]_vars
      PROVE  [pc = "step" /\ pc' = "step" =>
                cars'.egoPos >= cars.egoPos /\ cars'.frontPos >= cars.frontPos]_vars
  <2>1. CASE Drive
    <3> DEFINE k == step + 1
    <3>1. /\ cars = CarsAt(params, step) /\ cars' = CarsAt(params, k)
          /\ ParamsOK(params)
      BY <1>1, <2>1, DriveStep
    <3>2. step \in 0 .. TimeSteps /\ step < TimeSteps
      BY <1>1, <2>1 DEF TrialInv, Drive, Loop
    <3>3. k \in 1 .. TimeSteps /\ k - 1 = step /\ k \in 0 .. TimeSteps
      BY <3>2, TrialAssumption
    <3> HIDE DEF k
    <3>4. /\ FrontWay(params)[k] = FrontWay(params)[step] + FrontSpeed(params, k)
          /\ EgoWay(params)[k] = EgoWay(params)[step] + EgoSpeed(params, k)
          /\ FrontWay(params)[step] \in Nat /\ EgoWay(params)[step] \in Nat
          /\ FrontSpeed(params, k) \in Nat /\ EgoSpeed(params, k) \in Nat
      BY <3>1, <3>2, <3>3, WaysAre
    <3>5. params.distance \in Nat
      BY <3>1 DEF ParamsOK
    <3>6. /\ cars.egoPos = EgoWay(params)[step] /\ cars'.egoPos = EgoWay(params)[k]
          /\ cars.frontPos = params.distance + FrontWay(params)[step]
          /\ cars'.frontPos = params.distance + FrontWay(params)[k]
      BY <3>1 DEF CarsAt
    <3> QED
      BY <3>4, <3>5, <3>6
  <2>2. CASE ~Drive
    <3>1. ~(pc = "step" /\ pc' = "step") \/ UNCHANGED vars
      BY <1>1, <2>2 DEF Next, Begin, Burn, BurnInner, Generate, Record, Done
    <3> QED
      BY <3>1
  <2> QED
    BY <2>1, <2>2
<1> QED
  BY TrialInvariance, <1>1, PTL DEF Spec, NoReverse

-----------------------------------------------------------------------------
(* The batches together.  Cutting the trials into batches, running each    *)
(* and adding up the Results gives what one run of all trials gives.       *)

\* w starts at 0 and grows by g.
Grows(w, n, g) == w[0] = 0 /\ \A k \in 1 .. n : w[k] = w[k - 1] + g[k]

\* There is one way to grow: induction over k.
LEMMA SumsUnique ==
  ASSUME NEW n \in Nat, NEW g, NEW v, Grows(v, n, g), NEW w, Grows(w, n, g)
  PROVE  v[n] = w[n]
<1> USE DEF Grows
<1> DEFINE Bad == {k \in 0 .. n : v[k] # w[k]}
<1>1. SUFFICES ASSUME Bad # {} PROVE FALSE
  OBVIOUS
<1>2. PICK k \in Bad : \A j \in Bad : ~(j < k)
  <2>1. Bad \subseteq Nat
    OBVIOUS
  <2> HIDE DEF Bad
  <2>2. \E k \in Bad : \A j \in Bad : ~(<<j, k>> \in OpToRel(<, Nat))
    BY <1>1, <2>1, NatLessThanWellFounded, WFMin
  <2> QED
    BY <2>1, <2>2 DEF OpToRel
<1>3. k \in 1 .. n /\ k - 1 \in 0 .. n
  BY <1>2
<1>4. v[k - 1] = w[k - 1]
  BY <1>2, <1>3
<1> QED
  BY <1>2, <1>3, <1>4

\* Of the trials from a to before b, those of a risk.
OfRisk(a, b, r) == {k \in a .. b - 1 : RiskOf(SeedFor(k)) = r}
RiskCount(a, b, r) == Cardinality(OfRisk(a, b, r))

\* A range of trials cut in two.
LEMMA RiskCountCut ==
  ASSUME NEW a \in Nat, NEW b \in Nat, NEW c \in Nat, a <= b, b <= c, NEW r
  PROVE  /\ RiskCount(a, b, r) \in Nat
         /\ RiskCount(a, c, r) = RiskCount(a, b, r) + RiskCount(b, c, r)
<1>1. ASSUME NEW x \in Nat, NEW y \in Nat
      PROVE  IsFiniteSet(OfRisk(x, y, r)) /\ RiskCount(x, y, r) \in Nat
  <2>1. IsFiniteSet(x .. y - 1)
    BY FS_Interval
  <2>2. IsFiniteSet(OfRisk(x, y, r))
    BY <2>1, FS_Subset DEF OfRisk
  <2> QED
    BY <2>2, FS_CardinalityType DEF RiskCount
<1>2. /\ OfRisk(a, c, r) = OfRisk(a, b, r) \cup OfRisk(b, c, r)
      /\ OfRisk(a, b, r) \cap OfRisk(b, c, r) = {}
  <2>1. \A k : k \in a .. c - 1 <=> k \in a .. b - 1 \/ k \in b .. c - 1
    OBVIOUS
  <2>2. \A k : ~(k \in a .. b - 1 /\ k \in b .. c - 1)
    OBVIOUS
  <2> QED
    BY <2>1, <2>2 DEF OfRisk
<1>3. IsFiniteSet(OfRisk(a, b, r)) /\ IsFiniteSet(OfRisk(b, c, r))
  BY <1>1
<1>4. Cardinality(OfRisk(a, b, r) \cup OfRisk(b, c, r))
        = RiskCount(a, b, r) + RiskCount(b, c, r)
            - Cardinality(OfRisk(a, b, r) \cap OfRisk(b, c, r))
  BY <1>3, FS_Union DEF RiskCount
<1>5. Cardinality(OfRisk(a, b, r) \cap OfRisk(b, c, r)) = 0
  BY <1>2, FS_EmptySet
<1>6. RiskCount(a, b, r) \in Nat /\ RiskCount(b, c, r) \in Nat
  BY <1>1
<1>7. RiskCount(a, c, r) = RiskCount(a, b, r) + RiskCount(b, c, r)
  BY <1>2, <1>4, <1>5, <1>6 DEF RiskCount
<1> QED
  BY <1>6, <1>7

\* When a batch is done, the counts it hands on are those of its range.
THEOREM BatchCountsItsRange ==
  Spec => [](Done => \A r \in Risks : out.histogram[r] = RiskCount(first, End, r))
<1>1. TrialInv => (Done => \A r \in Risks :
                             out.histogram[r] = RiskCount(first, End, r))
  BY DEF TrialInv, Done, Counts, Counted, RiskCount, OfRisk
<1> QED
  BY TrialInvariance, <1>1, PTL

\* The trials cut into ranges, one after the other.
Cuts(cut, n) ==
  /\ cut[0] = 0
  /\ \A k \in 1 .. n : /\ cut[k - 1] \in Nat /\ cut[k] \in Nat
                       /\ cut[k - 1] <= cut[k]

\* Counts of such ranges add up.
LEMMA RangesAddUp ==
  ASSUME NEW n \in Nat, NEW cut, Cuts(cut, n), NEW r, NEW g,
         g = [k \in 1 .. n |-> RiskCount(cut[k - 1], cut[k], r)]
  PROVE  FoldFunction(+, 0, g) = RiskCount(0, cut[n], r)
<1> DEFINE upTo == [k \in 0 .. n |-> RiskCount(0, cut[k], r)]
           pile == [k \in 0 .. n |-> Cardinality(Pile(g, 1 .. k))]
<1>1. /\ cut[0] = 0
      /\ \A k \in 1 .. n : cut[k - 1] \in Nat /\ cut[k] \in Nat /\ cut[k - 1] <= cut[k]
  BY DEF Cuts
<1>2. ASSUME NEW k \in 1 .. n
      PROVE  g[k] = RiskCount(cut[k - 1], cut[k], r) /\ g[k] \in Nat
  <2>1. \A b, c \in Nat : b <= c => RiskCount(b, c, r) \in Nat
    BY RiskCountCut
  <2> QED
    BY <1>1, <2>1
<1>3. g \in [1 .. n -> Nat]
  BY <1>2
<1>4. FoldFunction(+, 0, g) = Cardinality(Pile(g, 1 .. n))
  <2>1. IsFiniteSet(1 .. n)
    BY FS_Interval
  <2> QED
    BY <1>3, <2>1, FoldAllIs
<1>5. \A k \in 1 .. n : k \in 0 .. n /\ k - 1 \in 0 .. n
  OBVIOUS
<1>6. Grows(pile, n, g)
  <2>1. /\ \A k \in 0 .. n : Cardinality(Pile(g, 1 .. k)) \in Nat
        /\ Cardinality(Pile(g, 1 .. 0)) = 0
        /\ \A k \in 1 .. n : Cardinality(Pile(g, 1 .. k))
                               = g[k] + Cardinality(Pile(g, 1 .. k - 1))
    BY <1>2, PileUpTo
  <2>2. \A k \in 0 .. n : pile[k] = Cardinality(Pile(g, 1 .. k))
    OBVIOUS
  <2> HIDE DEF pile
  <2>3. pile[0] = 0
    BY <2>1, <2>2
  <2>4. ASSUME NEW k \in 1 .. n PROVE pile[k] = pile[k - 1] + g[k]
    <3>1. pile[k] = g[k] + pile[k - 1] /\ pile[k - 1] \in Nat /\ g[k] \in Nat
      BY <1>2, <1>5, <2>1, <2>2
    <3> QED
      BY <3>1
  <2> QED
    BY <2>3, <2>4 DEF Grows
<1>7. Grows(upTo, n, g)
  <2>1. RiskCount(0, 0, r) = 0
    <3>1. OfRisk(0, 0, r) = {}
      BY DEF OfRisk
    <3> QED
      BY <3>1, FS_EmptySet DEF RiskCount
  <2>2. ASSUME NEW k \in 1 .. n
        PROVE  RiskCount(0, cut[k], r) = RiskCount(0, cut[k - 1], r) + g[k]
    <3>1. \A b, c \in Nat : b <= c =>
            RiskCount(0, c, r) = RiskCount(0, b, r) + RiskCount(b, c, r)
      BY RiskCountCut
    <3>2. RiskCount(0, cut[k], r)
            = RiskCount(0, cut[k - 1], r) + RiskCount(cut[k - 1], cut[k], r)
      BY <1>1, <3>1
    <3> QED
      BY <1>2, <3>2
  <2>3. upTo[0] = 0
    BY <1>1, <2>1
  <2>4. \A k \in 1 .. n : upTo[k] = upTo[k - 1] + g[k]
    BY <1>5, <2>2
  <2> QED
    BY <2>3, <2>4 DEF Grows
<1>8. upTo[n] = RiskCount(0, cut[n], r) /\ pile[n] = Cardinality(Pile(g, 1 .. n))
  OBVIOUS
<1> HIDE DEF pile, upTo
<1>9. pile[n] = upTo[n]
  BY <1>6, <1>7, SumsUnique
<1> QED
  BY <1>4, <1>8, <1>9

\* The counts of the batches that create_batches returns add up to those of a
\* run over all trials, as in sequential mode.
THEOREM BatchesAddUp ==
  PlanSpec => [](plan = "returned" /\ BatchesNeeded <= IntMax =>
    \A r \in Risks :
      FoldFunction(+, 0, [k \in DOMAIN batches |->
          RiskCount(batches[k].start_idx, batches[k].end_idx, r)])
        = RiskCount(0, trials, r))
<1>1. ASSUME PlanInv, plan = "returned", BatchesNeeded <= IntMax, NEW r \in Risks
      PROVE  FoldFunction(+, 0, [k \in DOMAIN batches |->
                 RiskCount(batches[k].start_idx, batches[k].end_idx, r)])
               = RiskCount(0, trials, r)
  <2> DEFINE n == Len(batches)
             g == [k \in DOMAIN batches |->
                     RiskCount(batches[k].start_idx, batches[k].end_idx, r)]
             cut == [k \in 0 .. n |-> IF k = 0 THEN 0 ELSE batches[k].end_idx]
  <2>1. n \in Nat /\ DOMAIN batches = 1 .. n /\ trials \in Nat
    BY <1>1, Ranges DEF PlanInv
  <2>2. PlanTypeOK /\ BatchesConsecutive /\ AllBatched
    BY <1>1, PlanIsTyped, PlanIsConsecutive, PlanIsEnough DEF EnoughBatches
  <2>3. ASSUME NEW k \in 1 .. n
        PROVE  /\ batches[k].start_idx = cut[k - 1]
               /\ cut[k - 1] \in Nat /\ cut[k] \in Nat /\ cut[k - 1] <= cut[k]
               /\ cut[k] = batches[k].end_idx
    <3>1. /\ batches[k].start_idx = (IF k = 1 THEN 0 ELSE batches[k - 1].end_idx)
          /\ batches[k].start_idx < batches[k].end_idx
      BY <2>1, <2>2 DEF BatchesConsecutive
    <3>2. batches[k] \in [start_idx : 0 .. LongMax, end_idx : 0 .. LongMax]
      <4> DEFINE B == [start_idx : 0 .. LongMax, end_idx : 0 .. LongMax]
      <4>1. batches \in Seq(B) /\ k \in 1 .. Len(batches)
        BY <2>2 DEF PlanTypeOK
      <4> HIDE DEF B
      <4>2. batches[k] \in B
        BY <4>1
      <4> QED
        BY <4>2 DEF B
    <3>3. batches[k].start_idx \in Nat /\ batches[k].end_idx \in Nat
      BY <3>2, Ranges
    <3>4. cut[k - 1] = batches[k].start_idx /\ cut[k] = batches[k].end_idx
      BY <2>1, <3>1
    <3> QED
      BY <3>1, <3>3, <3>4
  <2>4. cut[0] = 0 /\ cut[n] = trials
    <3>1. n # 0 /\ batches[n].end_idx = trials
      BY <2>1, <2>2 DEF AllBatched, Last
    <3> QED
      BY <2>1, <3>1
  <2> HIDE DEF cut, n
  <2>5. g = [k \in 1 .. n |-> RiskCount(cut[k - 1], cut[k], r)]
    BY <2>1, <2>3
  <2>6. Cuts(cut, n)
    BY <2>3, <2>4 DEF Cuts
  <2> HIDE DEF g
  <2>7. FoldFunction(+, 0, g) = RiskCount(0, cut[n], r)
    BY <2>1, <2>5, <2>6, RangesAddUp
  <2> QED
    BY <2>4, <2>7 DEF g
<1>2. PlanInv => (plan = "returned" /\ BatchesNeeded <= IntMax =>
        \A r \in Risks :
          FoldFunction(+, 0, [k \in DOMAIN batches |->
              RiskCount(batches[k].start_idx, batches[k].end_idx, r)])
            = RiskCount(0, trials, r))
  BY <1>1
<1> QED
  BY PlanInvariance, <1>2, PTL

\* So do the counts of the parts that thread, process and hybrid mode give to
\* their workers, however many there are.
THEOREM PartsAddUp ==
  ASSUME NEW total \in Nat, NEW parts \in Nat \ {0}, NEW r \in Risks
  PROVE  FoldFunction(+, 0, [k \in 1 .. parts |->
             RiskCount(PartStart(total, parts, k - 1), PartEnd(total, parts, k - 1), r)])
           = RiskCount(0, total, r)
<1> DEFINE q == total \div parts
           rest == total % parts
           cut == [k \in 0 .. parts |-> Start(k, q, rest)]
           g == [k \in 1 .. parts |->
                   RiskCount(PartStart(total, parts, k - 1),
                             PartEnd(total, parts, k - 1), r)]
<1>1. q \in Nat /\ rest \in 0 .. parts - 1 /\ total = q * parts + rest
  BY DivMod
<1>2. parts * q = q * parts
  BY <1>1
<1>3. ASSUME NEW j \in 0 .. parts - 1
      PROVE  /\ PartStart(total, parts, j) = Start(j, q, rest)
             /\ PartEnd(total, parts, j) = Start(j, q, rest) + Size(j, q, rest)
             /\ Start(j, q, rest) \in Nat
  BY PartIs
<1> HIDE DEF q, rest
<1>4. ASSUME NEW j \in 0 .. parts - 1
      PROVE  /\ Start(j + 1, q, rest) = Start(j, q, rest) + Size(j, q, rest)
             /\ Size(j, q, rest) \in Nat
  <2>1. (j + 1) * q = j * q + q /\ j * q \in Nat
    BY <1>1, TimesSucc
  <2> DEFINE jq == j * q
  <2>2. /\ Start(j, q, rest) = jq + Lesser(j, rest) /\ jq \in Nat
        /\ Start(j + 1, q, rest) = jq + q + Lesser(j + 1, rest)
    BY <2>1 DEF Start
  <2> HIDE DEF jq
  <2> QED
    BY <1>1, <2>2 DEF Size, Lesser
<1>5. Start(0, q, rest) = 0 /\ Start(parts, q, rest) = total
  <2>1. Lesser(0, rest) = 0 /\ Lesser(parts, rest) = rest /\ 0 * q = 0
    BY <1>1 DEF Lesser
  <2> QED
    BY <1>1, <1>2, <2>1 DEF Start
<1>6. ASSUME NEW k \in 1 .. parts
      PROVE  /\ cut[k - 1] = PartStart(total, parts, k - 1)
             /\ cut[k] = PartEnd(total, parts, k - 1)
             /\ cut[k - 1] \in Nat /\ cut[k] \in Nat /\ cut[k - 1] <= cut[k]
  <2> DEFINE j == k - 1
  <2>1. j \in 0 .. parts - 1 /\ j \in 0 .. parts /\ j + 1 = k /\ k \in 0 .. parts
    OBVIOUS
  <2>2. cut[j] = Start(j, q, rest) /\ cut[k] = Start(k, q, rest)
    BY <2>1
  <2> HIDE DEF j, cut
  <2>3. cut[j] = PartStart(total, parts, j) /\ cut[k] = PartEnd(total, parts, j)
    BY <1>3, <1>4, <2>1, <2>2
  <2>4. /\ Start(j, q, rest) \in Nat /\ Size(j, q, rest) \in Nat
        /\ cut[k] = Start(j, q, rest) + Size(j, q, rest)
    BY <1>3, <1>4, <2>1, <2>2
  <2>5. cut[j] \in Nat /\ cut[k] \in Nat /\ cut[j] <= cut[k]
    BY <2>2, <2>4
  <2> QED
    BY <2>3, <2>5 DEF j
<1>7. cut[0] = 0 /\ cut[parts] = total
  BY <1>5
<1> HIDE DEF cut
<1>8. g = [k \in 1 .. parts |-> RiskCount(cut[k - 1], cut[k], r)]
  BY <1>6
<1>9. Cuts(cut, parts)
  BY <1>6, <1>7 DEF Cuts
<1> HIDE DEF g
<1>10. FoldFunction(+, 0, g) = RiskCount(0, cut[parts], r)
  BY <1>8, <1>9, RangesAddUp
<1> QED
  BY <1>7, <1>10 DEF g

-----------------------------------------------------------------------------
(* Workers on cores.  Worker n of all workers goes to core n modulo the    *)
(* number of cores, and the residues of 0 .. size - 1 are as many of each. *)

\* The numbers below size that are dealt to core c of `cores'.
Dealt(size, cores, c) == {n \in 0 .. size - 1 : n % cores = c}

\* Each core gets the size divided by the number of cores, or one more.
LEMMA DealtEvenly ==
  ASSUME NEW size \in Nat, NEW cores \in Nat \ {0}, NEW c \in 0 .. cores - 1
  PROVE  /\ IsFiniteSet(Dealt(size, cores, c))
         /\ Cardinality(Dealt(size, cores, c)) \in Nat
         /\ size \div cores <= Cardinality(Dealt(size, cores, c))
         /\ Cardinality(Dealt(size, cores, c)) <= size \div cores + 1
<1> DEFINE K == Dealt(size, cores, c)
           q == size \div cores
           rest == size % cores
           turn == [n \in K |-> n \div cores]
           worker == [m \in 0 .. q - 1 |-> m * cores + c]
<1>1. q \in Nat /\ rest \in 0 .. cores - 1 /\ size = q * cores + rest
  BY DivMod
<1> HIDE DEF q, rest
<1>2. ASSUME NEW n \in K
      PROVE  /\ n \in Nat /\ n < size /\ n \div cores \in 0 .. q
             /\ n = (n \div cores) * cores + c
  <2>1. n \in Nat /\ n < size /\ n % cores = c
    BY DEF Dealt
  <2> DEFINE m == n \div cores
  <2>2. m \in Nat /\ n = m * cores + c
    BY <2>1, DivMod
  <2> HIDE DEF m
  <2>3. m <= q
    <3> SUFFICES ASSUME q < m PROVE FALSE
      BY <1>1, <2>2
    <3>1. q + 1 \in Nat /\ q + 1 <= m
      BY <1>1, <2>2
    <3>2. (q + 1) * cores <= m * cores /\ (q + 1) * cores = q * cores + cores
          /\ q * cores \in Nat /\ m * cores \in Nat
      BY <1>1, <2>2, <3>1, TimesMonotone, TimesSucc
    <3> QED
      BY <1>1, <2>1, <2>2, <3>2
  <2>4. m \in 0 .. q
    BY <1>1, <2>2, <2>3
  <2> QED
    BY <2>1, <2>2, <2>4 DEF m
<1>3. ASSUME NEW m \in 0 .. q - 1
      PROVE  m * cores + c \in K /\ (m * cores + c) \div cores = m
  <2>1. m \in Nat /\ m + 1 <= q /\ m + 1 \in Nat
    BY <1>1
  <2>2. (m + 1) * cores <= q * cores /\ (m + 1) * cores = m * cores + cores
        /\ q * cores \in Nat /\ m * cores \in Nat
    BY <1>1, <2>1, TimesMonotone, TimesSucc
  <2> DEFINE n == m * cores + c
  <2>3. n \in Nat /\ n < size
    BY <1>1, <2>2
  <2>4. n % cores = c
    BY <2>1, Division
  <2>5. n \div cores = m
    BY <2>1, Division
  <2> HIDE DEF n
  <2>6. n \in K
    BY <1>1, <2>3, <2>4 DEF Dealt
  <2> QED
    BY <2>5, <2>6 DEF n
<1> DEFINE low == 0 .. q - 1
           high == 0 .. q
<1>4. IsFiniteSet(low) /\ Cardinality(low) = q /\ IsFiniteSet(high) /\ Cardinality(high) = q + 1
  BY <1>1, FS_Interval
<1>5. IsFiniteSet(K)
  <2>1. IsFiniteSet(0 .. size - 1) /\ K \subseteq 0 .. size - 1
    BY FS_Interval DEF Dealt
  <2> QED
    BY <2>1, FS_Subset
<1> HIDE DEF K
<1>6. turn \in Injection(K, high)
  <2>1. turn \in [K -> high]
    BY <1>2
  <2>2. ASSUME NEW x \in K, NEW y \in K, turn[x] = turn[y] PROVE x = y
    BY <1>2, <2>2
  <2> QED
    BY <2>1, <2>2 DEF Injection, IsInjective
<1>7. worker \in Injection(low, K)
  <2>1. worker \in [low -> K]
    BY <1>3
  <2>2. ASSUME NEW x \in low, NEW y \in low, worker[x] = worker[y] PROVE x = y
    BY <1>3, <2>2
  <2> QED
    BY <2>1, <2>2 DEF Injection, IsInjective
<1> HIDE DEF turn, worker, low, high
<1>8. Cardinality(K) <= q + 1 /\ q <= Cardinality(K)
  BY <1>4, <1>5, <1>6, <1>7, FS_Injection
<1>9. Cardinality(K) \in Nat
  BY <1>5, FS_CardinalityType
<1> QED
  BY <1>5, <1>8, <1>9 DEF K, q

\* How many workers there are, and the number of a worker among them.
NumWorkers == IF mode = "process" THEN Processes ELSE
              IF mode = "hybrid"  THEN Processes * Threads ELSE Threads
Number(w) == IF mode = "process" THEN w[1] ELSE WorkerId(w[1], w[2])

LEMMA WorkersNumbered ==
  /\ NumWorkers \in Nat \ {0}
  /\ [w \in Workers |-> Number(w)] \in Bijection(Workers, 0 .. NumWorkers - 1)
<1> USE AffinityAssumption
<1> DEFINE number == [w \in Workers |-> Number(w)]
<1>1. CASE mode = "process"
  <2>1. Workers = Pids \X {0} /\ NumWorkers = Processes
        /\ \A w \in Workers : Number(w) = w[1]
    BY <1>1 DEF Workers, NumWorkers, Number
  <2>2. number \in [Workers -> 0 .. Processes - 1]
    BY <2>1 DEF Pids
  <2>3. ASSUME NEW x \in Workers, NEW y \in Workers, number[x] = number[y]
        PROVE  x = y
    BY <2>1, <2>3
  <2>4. ASSUME NEW n \in 0 .. Processes - 1 PROVE \E w \in Workers : number[w] = n
    <3>1. <<n, 0>> \in Workers /\ number[<<n, 0>>] = n
      BY <2>1 DEF Pids
    <3> QED
      BY <3>1
  <2> HIDE DEF number
  <2>5. number \in Bijection(Workers, 0 .. Processes - 1)
    BY <2>2, <2>3, <2>4 DEF Bijection, Injection, Surjection, IsInjective
  <2>6. NumWorkers \in Nat \ {0}
    BY <2>1
  <2> QED
    BY <2>1, <2>5, <2>6 DEF number
<1>2. CASE mode = "hybrid"
  <2>1. Workers = Pids \X Tids /\ NumWorkers = Processes * Threads
        /\ \A w \in Workers : Number(w) = w[1] * Threads + w[2]
    BY <1>2 DEF Workers, NumWorkers, Number, WorkerId
  <2>2. /\ Processes * Threads \in Nat
        /\ \A w \in Workers :
             /\ w = <<w[1], w[2]>> /\ w[1] \in Pids /\ w[2] \in Tids
             /\ number[w] \in 0 .. Processes * Threads - 1
             /\ number[w] \div Threads = w[1] /\ number[w] % Threads = w[2]
    <3>1. Processes * Threads \in Nat
      BY Product
    <3>2. ASSUME NEW i1 \in Pids, NEW t1 \in Tids
          PROVE  /\ i1 * Threads + t1 \in 0 .. Processes * Threads - 1
                 /\ (i1 * Threads + t1) \div Threads = i1
                 /\ (i1 * Threads + t1) % Threads = t1
      <4>1. i1 \in Nat /\ i1 + 1 \in Nat /\ i1 + 1 <= Processes /\ t1 \in 0 .. Threads - 1
        BY DEF Pids, Tids
      <4>2. (i1 + 1) * Threads <= Processes * Threads
            /\ (i1 + 1) * Threads = i1 * Threads + Threads /\ i1 * Threads \in Nat
        BY <4>1, TimesMonotone, TimesSucc
      <4>3. i1 * Threads + t1 \in 0 .. Processes * Threads - 1
        BY <3>1, <4>1, <4>2
      <4> QED
        BY <4>1, <4>3, Division
    <3>3. \A w \in Workers : w = <<w[1], w[2]>> /\ w[1] \in Pids /\ w[2] \in Tids
      BY <2>1
    <3> QED
      BY <2>1, <3>1, <3>2, <3>3
  <2>3. number \in [Workers -> 0 .. Processes * Threads - 1]
    BY <2>2
  <2>4. ASSUME NEW x \in Workers, NEW y \in Workers, number[x] = number[y]
        PROVE  x = y
    <3>1. x[1] = y[1] /\ x[2] = y[2]
      BY <2>2, <2>4
    <3> QED
      BY <2>2, <3>1
  <2>5. ASSUME NEW n \in 0 .. Processes * Threads - 1
        PROVE  \E w \in Workers : number[w] = n
    <3> DEFINE p == n \div Threads
               t == n % Threads
    <3>1. n \in Nat /\ n < Processes * Threads
      BY <2>2
    <3>2. p \in Nat /\ t \in 0 .. Threads - 1 /\ n = p * Threads + t
      BY <3>1, DivMod
    <3> HIDE DEF p, t
    <3>3. p < Processes
      <4> SUFFICES ASSUME Processes <= p PROVE FALSE
        BY <3>2
      <4>1. Processes * Threads <= p * Threads /\ p * Threads \in Nat
        BY <3>2, TimesMonotone
      <4> QED
        BY <2>2, <3>1, <3>2, <4>1
    <3>4. <<p, t>> \in Workers
      BY <2>1, <3>2, <3>3 DEF Pids, Tids
    <3>5. number[<<p, t>>] = p * Threads + t
      BY <2>1, <3>4
    <3> QED
      BY <3>2, <3>4, <3>5
  <2> HIDE DEF number
  <2>6. number \in Bijection(Workers, 0 .. Processes * Threads - 1)
    BY <2>3, <2>4, <2>5 DEF Bijection, Injection, Surjection, IsInjective
  <2>7. Processes * Threads # 0
    <3>1. Processes \in Nat \ {0} /\ Threads \in Nat \ {0}
      OBVIOUS
    <3> QED
      BY <3>1
  <2>8. NumWorkers \in Nat \ {0}
    BY <2>1, <2>2, <2>7
  <2> QED
    BY <2>1, <2>6, <2>8 DEF number
<1>3. CASE mode # "process" /\ mode # "hybrid"
  <2>1. Workers = {0} \X Tids /\ NumWorkers = Threads
        /\ \A w \in Workers : Number(w) = w[2]
    <3>1. Workers = {0} \X Tids /\ NumWorkers = Threads
      BY <1>3 DEF Workers, NumWorkers
    <3>2. \A w \in Workers : w[1] = 0 /\ w[2] \in Nat
      BY <3>1 DEF Tids
    <3>3. \A w \in Workers : Number(w) = w[2]
      BY <1>3, <3>2 DEF Number, WorkerId
    <3> QED
      BY <3>1, <3>3
  <2>2. number \in [Workers -> 0 .. Threads - 1]
    BY <2>1 DEF Tids
  <2>3. ASSUME NEW x \in Workers, NEW y \in Workers, number[x] = number[y]
        PROVE  x = y
    BY <2>1, <2>3
  <2>4. ASSUME NEW n \in 0 .. Threads - 1 PROVE \E w \in Workers : number[w] = n
    <3>1. <<0, n>> \in Workers /\ number[<<0, n>>] = n
      BY <2>1 DEF Tids
    <3> QED
      BY <3>1
  <2> HIDE DEF number
  <2>5. number \in Bijection(Workers, 0 .. Threads - 1)
    BY <2>2, <2>3, <2>4 DEF Bijection, Injection, Surjection, IsInjective
  <2>6. NumWorkers \in Nat \ {0}
    BY <2>1
  <2> QED
    BY <2>1, <2>5, <2>6 DEF number
<1> QED
  BY <1>1, <1>2, <1>3

\* The cores asked for: that many, counted from 0.
NumCores == IF coreCount > 0 THEN coreCount ELSE NumWorkers

\* How far a child or a thread can be.
Progress == {"absent", "started", "placed"}

\* A worker pinned to its core when it may use it.
OnCore(core, mask) == enabled /\ core < SetSize /\ core \in cpus => mask = {core}

\* Who has been placed is on the core of its number.
AffinityInv ==
  /\ mode \in {"thread", "pipeline", "process", "hybrid"}
  /\ enabled \in BOOLEAN /\ coreCount \in Nat /\ cpus \subseteq 0 .. MaxCpu
  /\ child \in [Pids -> Progress] /\ childMask \in [Pids -> SUBSET cpus]
  /\ thread \in [Pids -> [Tids -> Progress]]
  /\ threadMask \in [Pids -> [Tids -> SUBSET cpus]]
  /\ mode = "process" =>
       \A p \in Pids : child[p] = "placed" =>
         OnCore(Number(<<p, 0>>) % NumCores, childMask[p])
  /\ mode # "process" =>
       \A p \in Pids, t \in Tids : thread[p][t] = "placed" =>
         OnCore(Number(<<p, t>>) % NumCores, threadMask[p][t])

LEMMA PlacedIs ==
  ASSUME NEW core, NEW current \in SUBSET cpus
  PROVE  Pin(core, current) \in SUBSET cpus
BY DEF Pin

LEMMA UpdateEntry ==
  ASSUME NEW P, NEW T, NEW S, NEW f \in [P -> [T -> S]],
         NEW p \in P, NEW t \in T, NEW v \in S
  PROVE  LET g == [f EXCEPT ![p][t] = v]
         IN  /\ g \in [P -> [T -> S]]
             /\ g[p][t] = v
             /\ \A j \in P, u \in T : j # p \/ u # t => g[j][u] = f[j][u]
<1> DEFINE row == [f[p] EXCEPT ![t] = v]
           g == [f EXCEPT ![p] = row]
<1>1. f[p] \in [T -> S]
  OBVIOUS
<1>2. row \in [T -> S] /\ row[t] = v /\ \A u \in T : u # t => row[u] = f[p][u]
  BY <1>1
<1>3. [f EXCEPT ![p][t] = v] = g
  OBVIOUS
<1> HIDE DEF row
<1>4. g \in [P -> [T -> S]] /\ g[p] = row /\ \A j \in P : j # p => g[j] = f[j]
  BY <1>2
<1> HIDE DEF g
<1>5. \A j \in P, u \in T : j # p \/ u # t => g[j][u] = f[j][u]
  BY <1>2, <1>4
<1> QED
  BY <1>2, <1>3, <1>4, <1>5

LEMMA AffinityInvariance == AffinitySpec => []AffinityInv
<1>1. AffinityInit => AffinityInv
  <2> SUFFICES ASSUME AffinityInit PROVE AffinityInv
    OBVIOUS
  <2>1. /\ mode \in {"thread", "pipeline", "process", "hybrid"}
        /\ enabled \in BOOLEAN /\ coreCount \in Nat /\ cpus \subseteq 0 .. MaxCpu
    BY AffinityAssumption DEF AffinityInit
  <2>2. /\ child \in [Pids -> Progress] /\ childMask \in [Pids -> SUBSET cpus]
        /\ thread \in [Pids -> [Tids -> Progress]]
        /\ threadMask \in [Pids -> [Tids -> SUBSET cpus]]
    BY DEF AffinityInit, Progress
  <2>3. /\ \A p \in Pids : child[p] # "placed"
        /\ \A p \in Pids, t \in Tids : thread[p][t] # "placed"
    BY DEF AffinityInit
  <2> QED
    BY <2>1, <2>2, <2>3 DEF AffinityInv
<1>2. ASSUME AffinityInv, [AffinityNext]_affinityVars PROVE AffinityInv'
  <2> DEFINE Same == UNCHANGED setting
  <2>1. Same
    BY <1>2 DEF AffinityNext, Fork, PinChild, Create, PinThread, affinityVars
  <2>2. /\ \A w : Number(w)' = Number(w)
        /\ NumCores' = NumCores
        /\ \A core, mask : OnCore(core, mask)' = OnCore(core, mask)
        /\ mode' = mode /\ enabled' = enabled /\ coreCount' = coreCount /\ cpus' = cpus
    BY <2>1 DEF setting, Number, NumCores, NumWorkers, OnCore
  <2> HIDE DEF Same
  <2>3. ASSUME NEW p \in Pids, Fork(p) PROVE AffinityInv'
    <3>1. /\ child' = [child EXCEPT ![p] = "started"]
          /\ childMask' = [childMask EXCEPT ![p] = cpus]
          /\ thread' = thread /\ threadMask' = threadMask
      BY <2>3 DEF Fork, threads
    <3>2. \A j \in Pids : child'[j] = "placed" =>
            child[j] = "placed" /\ childMask'[j] = childMask[j]
      BY <1>2, <3>1 DEF AffinityInv
    <3>3. child' \in [Pids -> Progress] /\ childMask' \in [Pids -> SUBSET cpus]
      BY <1>2, <3>1 DEF AffinityInv, Progress
    <3>4. mode = "process" =>
            \A j \in Pids : child'[j] = "placed" =>
              OnCore(Number(<<j, 0>>) % NumCores, childMask'[j])
      BY <1>2, <3>2 DEF AffinityInv
    <3> QED
      BY <1>2, <2>2, <3>1, <3>3, <3>4 DEF AffinityInv
  <2>4. ASSUME NEW p \in Pids, PinChild(p) PROVE AffinityInv'
    <3>1. /\ child' = [child EXCEPT ![p] = "placed"]
          /\ childMask' = [childMask EXCEPT ![p] = Placed(p, Processes, childMask[p])]
          /\ thread' = thread /\ threadMask' = threadMask
      BY <2>4 DEF PinChild, threads
    <3>2. Placed(p, Processes, childMask[p]) \in SUBSET cpus
      BY <1>2, PlacedIs DEF AffinityInv, Placed
    <3>3. mode = "process" =>
            OnCore(Number(<<p, 0>>) % NumCores, Placed(p, Processes, childMask[p]))
      BY DEF OnCore, Number, NumCores, NumWorkers, Placed, Pin, CoreFor
    <3>4. \A j \in Pids : j # p => child'[j] = child[j] /\ childMask'[j] = childMask[j]
      BY <1>2, <3>1 DEF AffinityInv
    <3>5. childMask'[p] = Placed(p, Processes, childMask[p])
      BY <1>2, <3>1 DEF AffinityInv
    <3>6. mode = "process" =>
            \A j \in Pids : child'[j] = "placed" =>
              OnCore(Number(<<j, 0>>) % NumCores, childMask'[j])
      BY <1>2, <3>3, <3>4, <3>5 DEF AffinityInv
    <3>7. child' \in [Pids -> Progress] /\ childMask' \in [Pids -> SUBSET cpus]
      BY <1>2, <3>1, <3>2 DEF AffinityInv, Progress
    <3> QED
      BY <1>2, <2>2, <3>1, <3>6, <3>7 DEF AffinityInv
  <2>5. ASSUME NEW p \in Pids, NEW t \in Tids, Create(p, t) PROVE AffinityInv'
    <3>1. /\ thread' = [thread EXCEPT ![p][t] = "started"]
          /\ threadMask' = [threadMask EXCEPT ![p][t] = childMask[p]]
          /\ child' = child /\ childMask' = childMask
      BY <2>5 DEF Create, children
    <3>2. /\ thread \in [Pids -> [Tids -> Progress]] /\ "started" \in Progress
          /\ threadMask \in [Pids -> [Tids -> SUBSET cpus]]
          /\ childMask[p] \in SUBSET cpus
      BY <1>2 DEF AffinityInv, Progress
    <3>3. /\ thread' \in [Pids -> [Tids -> Progress]]
          /\ thread'[p][t] = "started"
          /\ \A j \in Pids, u \in Tids : j # p \/ u # t => thread'[j][u] = thread[j][u]
      BY <3>1, <3>2, UpdateEntry
    <3>4. /\ threadMask' \in [Pids -> [Tids -> SUBSET cpus]]
          /\ \A j \in Pids, u \in Tids :
               j # p \/ u # t => threadMask'[j][u] = threadMask[j][u]
      BY <3>1, <3>2, UpdateEntry
    <3>5. mode # "process" =>
            \A j \in Pids, u \in Tids : thread'[j][u] = "placed" =>
              OnCore(Number(<<j, u>>) % NumCores, threadMask'[j][u])
      BY <1>2, <3>3, <3>4 DEF AffinityInv
    <3> QED
      BY <1>2, <2>2, <3>1, <3>3, <3>4, <3>5 DEF AffinityInv
  <2>6. ASSUME NEW p \in Pids, NEW t \in Tids, PinThread(p, t) PROVE AffinityInv'
    <3> DEFINE workers == IF mode = "hybrid" THEN Processes * Threads ELSE Threads
               mask == Placed(WorkerId(p, t), workers, threadMask[p][t])
    <3>1. /\ thread' = [thread EXCEPT ![p][t] = "placed"]
          /\ threadMask' = [threadMask EXCEPT ![p][t] = mask]
          /\ child' = child /\ childMask' = childMask
      BY <2>6 DEF PinThread, children
    <3>2. mask \in SUBSET cpus
      BY <1>2, PlacedIs DEF AffinityInv, Placed
    <3>3. mode # "process" => OnCore(Number(<<p, t>>) % NumCores, mask)
      BY DEF OnCore, Number, NumCores, NumWorkers, Placed, Pin, CoreFor
    <3> HIDE DEF mask, workers
    <3>4. /\ thread' \in [Pids -> [Tids -> Progress]]
          /\ threadMask' \in [Pids -> [Tids -> SUBSET cpus]]
          /\ threadMask'[p][t] = mask
          /\ \A j \in Pids, u \in Tids : j # p \/ u # t =>
               thread'[j][u] = thread[j][u] /\ threadMask'[j][u] = threadMask[j][u]
      <4>1. /\ thread \in [Pids -> [Tids -> Progress]] /\ "placed" \in Progress
            /\ threadMask \in [Pids -> [Tids -> SUBSET cpus]]
        BY <1>2 DEF AffinityInv, Progress
      <4>2. /\ thread' \in [Pids -> [Tids -> Progress]]
            /\ \A j \in Pids, u \in Tids :
                 j # p \/ u # t => thread'[j][u] = thread[j][u]
        BY <3>1, <4>1, UpdateEntry
      <4>3. /\ threadMask' \in [Pids -> [Tids -> SUBSET cpus]]
            /\ threadMask'[p][t] = mask
            /\ \A j \in Pids, u \in Tids :
                 j # p \/ u # t => threadMask'[j][u] = threadMask[j][u]
        BY <3>1, <3>2, <4>1, UpdateEntry
      <4> QED
        BY <4>2, <4>3
    <3>5. mode # "process" =>
            \A j \in Pids, u \in Tids : thread'[j][u] = "placed" =>
              OnCore(Number(<<j, u>>) % NumCores, threadMask'[j][u])
      BY <1>2, <3>3, <3>4 DEF AffinityInv
    <3> QED
      BY <1>2, <2>2, <3>1, <3>4, <3>5 DEF AffinityInv
  <2>7. CASE UNCHANGED affinityVars
    BY <1>2, <2>2, <2>7 DEF affinityVars, children, threads, AffinityInv
  <2> QED
    BY <1>2, <2>3, <2>4, <2>5, <2>6, <2>7 DEF AffinityNext
<1> QED
  BY <1>1, <1>2, PTL DEF AffinitySpec

\* When the program may use the cores asked for, the workers of every mode are
\* spread over them evenly, for any number of processes, threads and cores a
\* cpu_set_t can name.
THEOREM WorkersSpread ==
  ASSUME MaxCpu < SetSize
  PROVE  AffinitySpec => []Spread
<1>1. AffinityInv => Spread
  <2> DEFINE size == Cardinality(Workers)
             asked == IF coreCount > 0 THEN coreCount ELSE size
  <2> SUFFICES ASSUME AffinityInv, AllPlaced, enabled, 0 .. asked - 1 \subseteq cpus
               PROVE  /\ \A c, d \in 0 .. asked - 1 : Load(c) - Load(d) <= 1
                      /\ \A w \in Workers : Cardinality(Mask(w)) = 1
    BY DEF Spread
  <2>1. /\ NumWorkers \in Nat \ {0}
        /\ [w \in Workers |-> Number(w)] \in Bijection(Workers, 0 .. NumWorkers - 1)
    BY WorkersNumbered
  <2> DEFINE number == [w \in Workers |-> Number(w)]
  <2>2. IsFiniteSet(Workers) /\ size = NumWorkers
    <3>1. IsFiniteSet(0 .. NumWorkers - 1) /\ Cardinality(0 .. NumWorkers - 1) = NumWorkers
      BY <2>1, FS_Interval
    <3> HIDE DEF number
    <3>2. IsFiniteSet(Workers)
      BY <2>1, <3>1, FS_Injection DEF Bijection
    <3>3. ExistsBijection(Workers, 0 .. NumWorkers - 1)
      BY <2>1 DEF ExistsBijection
    <3> QED
      BY <3>1, <3>2, <3>3, FS_Bijection
  <2>3. asked = NumCores /\ NumCores \in Nat \ {0}
    BY <2>1, <2>2 DEF NumCores, AffinityInv
  <2> HIDE DEF size, asked
  <2>4. ASSUME NEW w \in Workers
        PROVE  /\ number[w] \in 0 .. NumWorkers - 1
               /\ number[w] % NumCores \in 0 .. NumCores - 1
               /\ Mask(w) = {number[w] % NumCores}
    <3>1. number[w] \in 0 .. NumWorkers - 1 /\ number[w] \in Nat
      BY <2>1 DEF Bijection, Injection
    <3> DEFINE core == number[w] % NumCores
    <3>2. core \in 0 .. NumCores - 1
      BY <2>3, <3>1, DivMod
    <3>3. core \in cpus /\ core < SetSize
      BY <2>3, <3>2, AffinityAssumption DEF AffinityInv
    <3>4. number[w] = Number(w)
      OBVIOUS
    <3>5. OnCore(core, Mask(w))
      <4>1. IsPlaced(w)
        BY DEF AllPlaced
      <4>2. CASE mode = "process"
        <5>1. w[1] \in Pids /\ Number(w) = Number(<<w[1], 0>>)
          BY <4>2 DEF Workers, Number
        <5> QED
          BY <3>4, <4>1, <4>2, <5>1 DEF IsPlaced, Mask, AffinityInv
      <4>3. CASE mode # "process"
        <5>1. w[1] \in Pids /\ w[2] \in Tids /\ w = <<w[1], w[2]>>
          BY <4>3, AffinityAssumption DEF Workers, Pids
        <5> QED
          BY <3>4, <4>1, <4>3, <5>1 DEF IsPlaced, Mask, AffinityInv
      <4> QED
        BY <4>2, <4>3
    <3> HIDE DEF core
    <3>6. Mask(w) = {core}
      BY <3>3, <3>5 DEF OnCore
    <3> QED
      BY <3>1, <3>2, <3>6 DEF core
  <2>5. ASSUME NEW c \in 0 .. NumCores - 1
        PROVE  Load(c) = Cardinality(Dealt(NumWorkers, NumCores, c))
    <3> DEFINE W == {w \in Workers : Mask(w) = {c}}
               D == Dealt(NumWorkers, NumCores, c)
               f == [w \in W |-> number[w]]
    <3>1. \A w \in Workers : Mask(w) = {c} <=> number[w] % NumCores = c
      BY <2>4
    <3>2. f \in [W -> D]
      BY <2>4, <3>1 DEF Dealt
    <3>3. ASSUME NEW x \in W, NEW y \in W, f[x] = f[y] PROVE x = y
      <4>1. number[x] = number[y]
        BY <3>3
      <4> HIDE DEF number
      <4> QED
        BY <2>1, <4>1 DEF Bijection, Injection, IsInjective, number
    <3>4. ASSUME NEW n \in D PROVE \E w \in W : f[w] = n
      <4>1. n \in 0 .. NumWorkers - 1 /\ n % NumCores = c
        BY DEF Dealt
      <4>2. PICK w \in Workers : number[w] = n
        BY <2>1, <4>1 DEF Bijection, Surjection
      <4>3. w \in W
        BY <3>1, <4>1, <4>2
      <4> QED
        BY <4>2, <4>3
    <3>5. IsFiniteSet(W)
      BY <2>2, FS_Subset
    <3>6. IsFiniteSet(D)
      BY <2>1, <2>3, DealtEvenly
    <3>7. Load(c) = Cardinality(W)
      BY DEF Load
    <3> HIDE DEF W, D, f
    <3>8. ExistsBijection(W, D)
      <4>1. f \in Bijection(W, D)
        BY <3>2, <3>3, <3>4 DEF Bijection, Injection, Surjection, IsInjective
      <4> QED
        BY <4>1 DEF ExistsBijection
    <3> QED
      BY <3>5, <3>6, <3>7, <3>8, FS_Bijection DEF D
  <2>6. ASSUME NEW c \in 0 .. NumCores - 1, NEW d \in 0 .. NumCores - 1
        PROVE  Load(c) - Load(d) <= 1
    <3> DEFINE q == NumWorkers \div NumCores
    <3>1. /\ Load(c) \in Nat /\ Load(c) <= q + 1
          /\ Load(d) \in Nat /\ q <= Load(d)
      BY <2>1, <2>3, <2>5, DealtEvenly
    <3>2. q \in Nat
      BY <2>1, <2>3, DivMod
    <3> HIDE DEF q
    <3> QED
      BY <3>1, <3>2
  <2>7. ASSUME NEW w \in Workers PROVE Cardinality(Mask(w)) = 1
    BY <2>4, FS_Singleton
  <2> QED
    BY <2>3, <2>6, <2>7
<1> QED
  BY AffinityInvariance, <1>1, PTL

=============================================================================
