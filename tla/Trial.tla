------------------------------- MODULE Trial --------------------------------
(***************************************************************************)
(* run_batch of src/src/simulation.c and the trials it runs: the seed of a *)
(* trial, the extra CPU work, the seven draws that set the scene, the      *)
(* braking of the two cars step by step, and the risk that is counted.     *)
(*                                                                         *)
(* unsigned is Modulus values wide and the doubles are fixed-point numbers *)
(* in the units of one step of 0.1 s: speeds in 0.1 m/s, positions in cm,  *)
(* times in steps.  The CPU work is done by loops over a local variable;   *)
(* their only other effect is a volatile that nothing reads.               *)
(***************************************************************************)
EXTENDS Integers, FiniteSets

CONSTANTS
  Modulus,      \* 2^32
  SeedFactor,   \* 2654435761 % Modulus
  LcgFactor,    \* 1664525 % Modulus
  LcgTerm,      \* 1013904223 % Modulus
  Trials,       \* cfg->trials
  TimeSteps,    \* cfg->time_steps
  BatchSize,    \* trials of the batch
  BaseSeeds,    \* the values of cfg->seed
  ExclusiveOr(_, _)  \* of the bits of two unsigned: C's ^

ASSUME TrialAssumption ==
  /\ Modulus \in Nat \ {0, 1}
  /\ {SeedFactor, LcgFactor, LcgTerm} \subseteq 0 .. Modulus - 1
  /\ {Trials, TimeSteps, BatchSize} \subseteq Nat \ {0}
  /\ BatchSize <= Trials
  /\ BaseSeeds \subseteq 0 .. Modulus - 1

ASSUME ExclusiveOrAssumption ==
  \A a, b \in 0 .. Modulus - 1 :
    /\ ExclusiveOr(a, b) \in 0 .. Modulus - 1
    /\ ExclusiveOr(a, ExclusiveOr(a, b)) = b

\* 2654435761 is odd and so has an inverse modulo a power of two.
ASSUME FactorAssumption ==
  \E inverse \in 0 .. Modulus - 1 : (inverse * SeedFactor) % Modulus = 1

\* RiskLevel
Safe == 0
Low == 1
Medium == 2
High == 3
Collision == 4
Risks == Safe .. Collision

VARIABLES
  seed, skewed, innerWork,  \* cfg: seed, workload_mode, profile_inner_work
  first, i,                 \* batch->start_idx, and the loop index
  pc,                       \* where run_trial_for_index is
  trialSeed,                \* its local seed
  params, cars,             \* TrialParams and VehicleState
  step, minTtc, collided,   \* locals of run_trial
  out                       \* the batch's Result

config == <<seed, skewed, innerWork, first>>
vars == <<config, i, pc, trialSeed, params, cars, step, minTtc, collided, out>>

End == first + BatchSize

-----------------------------------------------------------------------------
(* ---- random numbers ---------------------------------------------------- *)

\* Faulty: the factor is even, so some bits of the index are lost.
SeedForEven(trial) == ExclusiveOr(seed, (trial * (SeedFactor - 1)) % Modulus)

SeedFor(trial) == ExclusiveOr(seed, (trial * SeedFactor) % Modulus)

LcgNext(s) == (s * LcgFactor + LcgTerm) % Modulus

\* The state of the generator after each of n calls.
Draw(s) == LET d[n \in 0 .. 7] == IF n = 0 THEN s ELSE LcgNext(d[n - 1])
           IN  d

Between(draw, min, max) == min + ((max - min) * draw) \div (Modulus - 1)

\* From 0.1 km/h to 0.1 m/s.
ToMps(kmh) == (kmh * 10) \div 36

ParamsFrom(s) ==
  LET d == Draw(s)
  IN  [egoSpeed   |-> ToMps(Between(d[1], 600, 1200)),
       frontSpeed |-> ToMps(Between(d[2], 400, 1100)),
       distance   |-> Between(d[3], 500, 10000),
       reaction   |-> Between(d[4], 5, 25),
       egoBrake   |-> (Between(d[5], 3, 9) * Between(d[7], 5, 10)) \div 10,
       frontBrake |-> Between(d[6], 2, 10)]

(* ---- two cars ---------------------------------------------------------- *)

Nonnegative(x) == IF x < 0 THEN 0 ELSE x

Gap(c) == c.frontPos - c.egoPos
Closing(c) == c.egoSpeed - c.frontSpeed

\* Faulty: the speeds are not clamped.
AdvanceUnclamped(p, c, t) ==
  LET front == c.frontSpeed - p.frontBrake
      ego   == IF t >= p.reaction THEN c.egoSpeed - p.egoBrake ELSE c.egoSpeed
  IN  [frontSpeed |-> front, frontPos |-> c.frontPos + front,
       egoSpeed   |-> ego,   egoPos   |-> c.egoPos + ego]

\* advance_one_step: each car brakes, the following one once its driver has
\* reacted, and then moves.
Advance(p, c, t) ==
  LET front == Nonnegative(c.frontSpeed - p.frontBrake)
      ego   == IF t >= p.reaction THEN Nonnegative(c.egoSpeed - p.egoBrake)
                                  ELSE c.egoSpeed
  IN  [frontSpeed |-> front, frontPos |-> c.frontPos + front,
       egoSpeed   |-> ego,   egoPos   |-> c.egoPos + ego]

\* A time to collision is a fraction of steps; large_ttc is infinite.
LargeTtc == <<1, 0>>
Less(a, b) == a[1] * b[2] < b[1] * a[2]

Ttc(c) == IF Closing(c) > 0 /\ Gap(c) > 0 THEN <<Gap(c), Closing(c)>>
                                          ELSE LargeTtc

Classify(hit, ttc) ==
  IF hit                  THEN Collision ELSE
  IF Less(ttc, <<15, 1>>) THEN High      ELSE
  IF Less(ttc, <<30, 1>>) THEN Medium    ELSE
  IF Less(ttc, <<50, 1>>) THEN Low       ELSE Safe

\* workload_difficulty_for_trial: in a skewed run the last quarter is heavy.
Heavy(trial) == skewed /\ trial >= Trials - (Trials \div 4)

-----------------------------------------------------------------------------
NoCars == [frontSpeed |-> 0, frontPos |-> 0, egoSpeed |-> 0, egoPos |-> 0]

Init ==
  /\ seed \in BaseSeeds
  /\ skewed \in BOOLEAN
  /\ innerWork \in BOOLEAN
  /\ first \in 0 .. Trials - BatchSize
  /\ i = first
  /\ pc = "next"
  /\ trialSeed = 0
  /\ params = ParamsFrom(0)
  /\ cars = NoCars
  /\ step = 0
  /\ minTtc = LargeTtc
  /\ collided = FALSE
  /\ out = [total |-> 0, collisions |-> 0, histogram |-> [r \in Risks |-> 0]]

Frame == UNCHANGED <<config, i, out>>
Locals == <<params, cars, step, minTtc, collided>>

\* A trial starts: its seed is made; what comes next is the extra work.
Begin ==
  /\ pc = "next"
  /\ i < End
  /\ trialSeed' = SeedFor(i)
  /\ pc' = IF Heavy(i) THEN "burn" ELSE IF innerWork THEN "inner" ELSE "ready"
  /\ UNCHANGED Locals
  /\ Frame

\* Faulty: the loop draws its numbers from the seed of the trial.
BurnInPlace ==
  /\ pc = "burn"
  /\ pc' = IF innerWork THEN "inner" ELSE "ready"
  /\ trialSeed' = LcgNext(trialSeed)
  /\ UNCHANGED Locals
  /\ Frame

\* burn_cpu_work gets the seed by value.
Burn ==
  /\ pc = "burn"
  /\ pc' = IF innerWork THEN "inner" ELSE "ready"
  /\ UNCHANGED <<Locals, trialSeed>>
  /\ Frame

\* burn_inner_cpu_work, too.
BurnInner ==
  /\ pc = "inner"
  /\ pc' = "ready"
  /\ UNCHANGED <<Locals, trialSeed>>
  /\ Frame

\* The beginning of run_trial.
Generate ==
  /\ pc = "ready"
  /\ pc' = "step"
  /\ params' = ParamsFrom(trialSeed)
  /\ trialSeed' = Draw(trialSeed)[7]
  /\ cars' = [frontSpeed |-> params'.frontSpeed, frontPos |-> params'.distance,
              egoSpeed   |-> params'.egoSpeed,   egoPos   |-> 0]
  /\ step' = 0
  /\ minTtc' = LargeTtc
  /\ collided' = FALSE
  /\ Frame

\* One turn of the loop of run_trial; a collision ends it.
Drive ==
  /\ pc = "step"
  /\ step < TimeSteps
  /\ ~collided
  /\ cars' = Advance(params, cars, step)
  /\ minTtc' = IF Less(Ttc(cars'), minTtc) THEN Ttc(cars') ELSE minTtc
  /\ collided' = (Gap(cars') <= 0)
  /\ step' = step + 1
  /\ UNCHANGED <<pc, params, trialSeed>>
  /\ Frame

\* result_add_trial
Record ==
  /\ pc = "step"
  /\ step = TimeSteps \/ collided
  /\ out' = [total      |-> out.total + 1,
             collisions |-> out.collisions + (IF collided THEN 1 ELSE 0),
             histogram  |-> [out.histogram EXCEPT
                               ![Classify(collided, minTtc)] = @ + 1]]
  /\ i' = i + 1
  /\ pc' = "next"
  /\ UNCHANGED <<config, Locals, trialSeed>>

Done == pc = "next" /\ i = End

Next == Begin \/ Burn \/ BurnInner \/ Generate \/ Drive \/ Record \/ (Done /\ UNCHANGED vars)

Spec == Init /\ [][Next]_vars

-----------------------------------------------------------------------------
(* What a trial should say, from the physics and without the loop.         *)

\* Speed after braking n times, and the way made in k steps in which the
\* first `free' steps are at full speed.
SpeedAfter(v, brake, n) == Nonnegative(v - brake * n)

Sooner(a, b) == IF a < b THEN a ELSE b

Way(v, brake, free) ==
  LET w[k \in 0 .. TimeSteps] ==
        IF k = 0 THEN 0
        ELSE w[k - 1] + SpeedAfter(v, brake, k - Sooner(k, free))
  IN  w

\* The risk of the trial with a seed: the gap closes at some step, or else
\* the smallest time to collision of all steps.
RiskOf(s) ==
  LET p     == ParamsFrom(s)
      front == Way(p.frontSpeed, p.frontBrake, 0)
      ego   == Way(p.egoSpeed, p.egoBrake, p.reaction)
      gap   == [k \in 1 .. TimeSteps |-> p.distance + front[k] - ego[k]]
      rel   == [k \in 1 .. TimeSteps |-> (ego[k] - ego[k - 1])
                                           - (front[k] - front[k - 1])]
      Below(limit) == \E k \in 1 .. TimeSteps : gap[k] < limit * rel[k]
  IN  IF \E k \in 1 .. TimeSteps : gap[k] <= 0 THEN Collision ELSE
      IF Below(15) THEN High   ELSE
      IF Below(30) THEN Medium ELSE
      IF Below(50) THEN Low    ELSE Safe

-----------------------------------------------------------------------------
(* Properties. *)

\* The Result of a batch depends on the base seed, the indices of the trials
\* and the number of steps alone: it counts each trial once, at the risk the
\* physics gives for its seed, whatever the workload and the extra CPU work.
\* This is what makes the checksums of all modes comparable.
BatchResult ==
  Done =>
    /\ out.total = BatchSize
    /\ out.collisions = out.histogram[Collision]
    /\ \A r \in Risks :
         out.histogram[r] =
           Cardinality({k \in first .. End - 1 : RiskOf(SeedFor(k)) = r})

\* No two trials whose indices differ in the bits of an unsigned draw from
\* the same seed, whatever the base seed; trials Modulus apart do.
SeedsDistinct ==
  pc \in {"burn", "inner", "ready"} =>
    \A k \in 0 .. 2 * Modulus - 1 :
      SeedFor(k) = trialSeed <=> k % Modulus = i % Modulus

\* Braking never makes a car roll backwards, in any step of any trial, so a
\* gap that has closed was not opened again by the loop.
NoReverse ==
  [][pc = "step" /\ pc' = "step" =>
       cars'.egoPos >= cars.egoPos /\ cars'.frontPos >= cars.frontPos]_vars

=============================================================================
