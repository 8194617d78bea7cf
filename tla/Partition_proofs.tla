-------------------------- MODULE Partition_proofs --------------------------
(***************************************************************************)
(* The parts of Partition tile the trials, for any number of trials and    *)
(* any number of parts: every trial is in exactly one part.  The products  *)
(* are beyond the solver, so three lemmas state what is needed of them.    *)
(* With them, what the modes that add the parts up again need of sums.     *)
(***************************************************************************)
EXTENDS Partition, FiniteSets, Functions, FiniteSetTheorems, TLAPS

\* Trial t is given to part i.
InPart(t, trials, parts, i) ==
  PartStart(trials, parts, i) <= t /\ t < PartEnd(trials, parts, i)

-----------------------------------------------------------------------------
(* Arithmetic. *)

\* Division with remainder.
LEMMA DivMod ==
  ASSUME NEW n \in Nat, NEW d \in Nat \ {0}
  PROVE  /\ n \div d \in Nat
         /\ n % d \in 0 .. d - 1
         /\ n = (n \div d) * d + (n % d)
OBVIOUS

\* A product of natural numbers, and of a sum.
LEMMA TimesPlus ==
  ASSUME NEW a \in Nat, NEW b \in Nat, NEW q \in Nat
  PROVE  a * q \in Nat /\ (a + b) * q = a * q + b * q
OBVIOUS

\* A product with a successor, on either side.
LEMMA TimesSucc ==
  ASSUME NEW a \in Nat, NEW q \in Nat
  PROVE  (a + 1) * q = a * q + q /\ a * q \in Nat
OBVIOUS

LEMMA TimesSuccRight ==
  ASSUME NEW a \in Nat, NEW q \in Nat
  PROVE  /\ a * (q + 1) = a * q + a
         /\ a * q \in Nat /\ a * (q + 1) \in Nat
OBVIOUS

\* A common factor of an inequality.
LEMMA LessByProduct ==
  ASSUME NEW a \in Nat, NEW b \in Nat, NEW q \in Nat, a * q < b * q
  PROVE  a < b
<1> SUFFICES ASSUME b <= a PROVE FALSE
  OBVIOUS
<1> DEFINE k == a - b
<1>1. k \in Nat /\ a = b + k
  OBVIOUS
<1> HIDE DEF k
<1>2. (b + k) * q = b * q + k * q /\ k * q \in Nat /\ b * q \in Nat
  BY <1>1, TimesPlus
<1>3. a * q = b * q + k * q
  BY <1>1, <1>2
<1> DEFINE aq == a * q
           bq == b * q
           kq == k * q
<1>4. aq < bq /\ aq = bq + kq /\ kq \in Nat /\ bq \in Nat
  BY <1>2, <1>3
<1> HIDE DEF aq, bq, kq
<1> QED
  BY <1>4

-----------------------------------------------------------------------------
(* Sums over finite sets.  A sum of natural numbers is the size of a set:  *)
(* what is known of cardinalities then holds of sums.                      *)

\* r[b] elements for each b of B.
Pile(r, B) == UNION {{b} \X (1 .. r[b]) : b \in B}

\* A set of subsets of a finite set has one that no other is contained in:
\* induction over finite sets.
LEMMA SmallestSet ==
  ASSUME NEW S, IsFiniteSet(S), NEW T \in SUBSET (SUBSET S), T # {}
  PROVE  \E B \in T : \A C \in T : C \subseteq B => C = B
<1>1. IsWellFoundedOn(StrictSubsetOrdering(S), SUBSET S)
  BY FS_StrictSubsetOrderingWellFounded, FS_FiniteSubsetsOfFinite
<1>2. \E B \in T : \A C \in T : ~(<<C, B>> \in StrictSubsetOrdering(S))
  BY <1>1, WFMin
<1> QED
  BY <1>2 DEF StrictSubsetOrdering

\* What one element of B adds to the pile.
LEMMA PileAdd ==
  ASSUME NEW B, NEW b \in B, NEW r, r[b] \in Nat, IsFiniteSet(Pile(r, B \ {b}))
  PROVE  /\ IsFiniteSet(Pile(r, B))
         /\ Cardinality(Pile(r, B)) = r[b] + Cardinality(Pile(r, B \ {b}))
<1> DEFINE N == {b} \X (1 .. r[b])
           O == Pile(r, B \ {b})
<1>1. Pile(r, B) = N \cup O /\ N \cap O = {}
  BY DEF Pile
<1>2. IsFiniteSet(N) /\ Cardinality(N) = r[b]
  <2>1. IsFiniteSet(1 .. r[b]) /\ Cardinality(1 .. r[b]) = r[b]
    BY SMTT(30), FS_Interval
  <2>2. IsFiniteSet({b}) /\ Cardinality({b}) = 1
    BY FS_Singleton
  <2>3. IsFiniteSet(N) /\ Cardinality(N) = 1 * r[b]
    <3> DEFINE T == 1 .. r[b]
    <3> HIDE DEF T
    <3>1. /\ IsFiniteSet({b} \X T)
          /\ Cardinality({b} \X T) = Cardinality({b}) * Cardinality(T)
      BY <2>1, <2>2, FS_Product DEF T
    <3> QED
      BY <2>1, <2>2, <3>1 DEF T
  <2> QED
    BY <2>3
<1> HIDE DEF N, O
<1>3. IsFiniteSet(O) /\ Cardinality(O) \in Nat /\ Cardinality(N \cap O) = 0
  BY <1>1, FS_CardinalityType, FS_EmptySet DEF O
<1>4. /\ IsFiniteSet(N \cup O)
      /\ Cardinality(N \cup O) = Cardinality(N) + Cardinality(O) - Cardinality(N \cap O)
  BY <1>2, <1>3, FS_Union
<1>5. Cardinality(N \cup O) = r[b] + Cardinality(O)
  BY <1>2, <1>3, <1>4
<1> QED
  BY <1>1, <1>4, <1>5 DEF O

\* The pile over a finite set is finite.
LEMMA PileFinite ==
  ASSUME NEW S, IsFiniteSet(S), NEW r, \A b \in S : r[b] \in Nat
  PROVE  \A B \in SUBSET S : IsFiniteSet(Pile(r, B))
<1> DEFINE Bad == {B \in SUBSET S : ~IsFiniteSet(Pile(r, B))}
<1> SUFFICES ASSUME Bad # {} PROVE FALSE
  OBVIOUS
<1>0. Bad \in SUBSET (SUBSET S)
  OBVIOUS
<1>1. PICK B \in Bad : \A C \in Bad : C \subseteq B => C = B
  <2> HIDE DEF Bad
  <2> QED
    BY <1>0, SmallestSet
<1>2. B # {}
  <2>1. Pile(r, {}) = {}
    BY DEF Pile
  <2> QED
    BY <1>1, <2>1, FS_EmptySet
<1>3. PICK b \in B : TRUE
  BY <1>2
<1>4. IsFiniteSet(Pile(r, B \ {b}))
  BY <1>1, <1>3
<1> QED
  BY <1>1, <1>3, <1>4, PileAdd

\* The recursive function that adds up r over the subsets of S.
Recursion(f, r, S) ==
  f = [B \in SUBSET S |->
         IF B = {} THEN 0
         ELSE LET x == CHOOSE x \in B : TRUE IN r[x] + f[B \ {x}]]

\* There is such a function, and what it computes is the size of the pile.
LEMMA SumIs ==
  ASSUME NEW S, IsFiniteSet(S), NEW r, \A b \in S : r[b] \in Nat
  PROVE  /\ \E f : Recursion(f, r, S)
         /\ \A f : Recursion(f, r, S) => f[S] = Cardinality(Pile(r, S))
<1>1. \A B \in SUBSET S : IsFiniteSet(Pile(r, B))
  BY PileFinite
<1>2. Cardinality(Pile(r, {})) = 0
  <2>1. Pile(r, {}) = {}
    BY DEF Pile
  <2> QED
    BY <2>1, FS_EmptySet
<1>3. ASSUME NEW B \in SUBSET S, NEW x \in B
      PROVE  Cardinality(Pile(r, B)) = r[x] + Cardinality(Pile(r, B \ {x}))
  BY <1>1, PileAdd
<1>4. \E f : Recursion(f, r, S)
  <2> DEFINE g == [B \in SUBSET S |-> Cardinality(Pile(r, B))]
  <2>1. ASSUME NEW B \in SUBSET S
        PROVE  g[B] = IF B = {} THEN 0
                      ELSE LET x == CHOOSE x \in B : TRUE IN r[x] + g[B \ {x}]
    BY <1>2, <1>3
  <2>2. Recursion(g, r, S)
    BY <2>1 DEF Recursion
  <2> QED
    BY <2>2
<1>5. ASSUME NEW f, Recursion(f, r, S) PROVE f[S] = Cardinality(Pile(r, S))
  <2> DEFINE Bad == {B \in SUBSET S : f[B] # Cardinality(Pile(r, B))}
  <2> SUFFICES ASSUME Bad # {} PROVE FALSE
    OBVIOUS
  <2>0. Bad \in SUBSET (SUBSET S)
    OBVIOUS
  <2>1. PICK B \in Bad : \A C \in Bad : C \subseteq B => C = B
    <3> HIDE DEF Bad
    <3> QED
      BY <2>0, SmallestSet
  <2>2. f[B] = IF B = {} THEN 0
               ELSE LET x == CHOOSE x \in B : TRUE IN r[x] + f[B \ {x}]
    BY <1>5, <2>1 DEF Recursion
  <2>3. B # {}
    BY <1>2, <2>1, <2>2
  <2>4. PICK x \in B : x = CHOOSE y \in B : TRUE
    BY <2>3
  <2>5. f[B \ {x}] = Cardinality(Pile(r, B \ {x}))
    BY <2>1, <2>4
  <2>6. f[B] = r[x] + f[B \ {x}]
    BY <2>2, <2>3, <2>4
  <2> QED
    BY <1>3, <2>1, <2>4, <2>5, <2>6
<1> QED
  BY <1>4, <1>5

\* So is a sum written with the folds of the community modules.
LEMMA FoldIs ==
  ASSUME NEW S, IsFiniteSet(S), NEW r, \A b \in S : r[b] \in Nat
  PROVE  FoldFunctionOnSet(+, 0, r, S) = Cardinality(Pile(r, S))
<1> DEFINE iter == CHOOSE f : Recursion(f, r, S)
<1>1. FoldFunctionOnSet(+, 0, r, S) = iter[S]
  BY DEF FoldFunctionOnSet, MapThenFoldSet, Recursion
<1>2. Recursion(iter, r, S)
  BY SumIs
<1> QED
  BY <1>1, <1>2, SumIs

LEMMA FoldAllIs ==
  ASSUME NEW S, IsFiniteSet(S), NEW r \in [S -> Nat]
  PROVE  FoldFunction(+, 0, r) = Cardinality(Pile(r, S))
<1>1. FoldFunction(+, 0, r) = FoldFunctionOnSet(+, 0, r, S)
  BY DEF FoldFunction
<1> QED
  BY <1>1, FoldIs

\* A sum depends on what is added up only, and grows with it.
LEMMA SumMonotone ==
  ASSUME NEW S, IsFiniteSet(S), NEW r, NEW s,
         \A b \in S : r[b] \in Nat /\ s[b] \in Nat /\ r[b] <= s[b]
  PROVE  /\ Cardinality(Pile(r, S)) \in Nat
         /\ Cardinality(Pile(r, S)) <= Cardinality(Pile(s, S))
<1>1. IsFiniteSet(Pile(s, S))
  BY PileFinite
<1>2. Pile(r, S) \subseteq Pile(s, S)
  BY DEF Pile
<1> QED
  BY <1>1, <1>2, FS_Subset, FS_CardinalityType

LEMMA SumSame ==
  ASSUME NEW S, NEW r, NEW s, \A b \in S : r[b] = s[b]
  PROVE  Pile(r, S) = Pile(s, S)
BY DEF Pile

LEMMA SumZero ==
  ASSUME NEW S, NEW r, \A b \in S : r[b] = 0
  PROVE  Cardinality(Pile(r, S)) = 0
<1>1. Pile(r, S) = {}
  BY DEF Pile
<1> QED
  BY <1>1, FS_EmptySet

\* One more in one place is one more in all.
LEMMA SumNext ==
  ASSUME NEW S, IsFiniteSet(S), NEW r, NEW s, NEW a \in S,
         \A b \in S : r[b] \in Nat,
         s[a] = r[a] + 1, \A b \in S \ {a} : s[b] = r[b]
  PROVE  Cardinality(Pile(s, S)) = Cardinality(Pile(r, S)) + 1
<1>1. Pile(s, S \ {a}) = Pile(r, S \ {a})
  BY SumSame
<1>2. /\ IsFiniteSet(Pile(r, S \ {a}))
      /\ Cardinality(Pile(r, S \ {a})) \in Nat
  BY PileFinite, FS_CardinalityType
<1>3. Cardinality(Pile(r, S)) = r[a] + Cardinality(Pile(r, S \ {a}))
  BY <1>2, PileAdd
<1>4. s[a] \in Nat
  OBVIOUS
<1>5. Cardinality(Pile(s, S)) = s[a] + Cardinality(Pile(s, S \ {a}))
  BY <1>1, <1>2, <1>4, PileAdd
<1> DEFINE rest == Cardinality(Pile(r, S \ {a}))
<1>6. /\ rest \in Nat /\ Cardinality(Pile(r, S)) = r[a] + rest
      /\ Cardinality(Pile(s, S)) = r[a] + 1 + rest
  BY <1>1, <1>2, <1>3, <1>5
<1> HIDE DEF rest
<1> QED
  BY <1>6

\* The sum of a function's values, and its type.
SumOf(r) == FoldFunction(+, 0, r)

LEMMA SumType ==
  ASSUME NEW S, IsFiniteSet(S), NEW r \in [S -> Nat]
  PROVE  SumOf(r) \in Nat
<1>1. SumOf(r) = Cardinality(Pile(r, S))
  BY FoldAllIs DEF SumOf
<1>2. IsFiniteSet(Pile(r, S))
  BY PileFinite
<1> QED
  BY <1>1, <1>2, FS_CardinalityType

\* A change in one place changes the sum as much.
LEMMA SumChange ==
  ASSUME NEW S, IsFiniteSet(S), NEW r \in [S -> Nat], NEW s \in [S -> Nat],
         NEW a \in S, \A b \in S \ {a} : s[b] = r[b]
  PROVE  /\ SumOf(r) \in Nat /\ SumOf(s) \in Nat
         /\ SumOf(s) + r[a] = SumOf(r) + s[a]
<1> DEFINE rest == Cardinality(Pile(r, S \ {a}))
           x == SumOf(r)
           y == SumOf(s)
<1>1. Pile(s, S \ {a}) = Pile(r, S \ {a})
  BY SumSame
<1>2. IsFiniteSet(Pile(r, S \ {a})) /\ rest \in Nat
  BY PileFinite, FS_CardinalityType
<1>3. /\ Cardinality(Pile(r, S)) = r[a] + rest
      /\ Cardinality(Pile(s, S)) = s[a] + rest
  BY <1>1, <1>2, PileAdd
<1>4. /\ SumOf(r) = Cardinality(Pile(r, S))
      /\ SumOf(s) = Cardinality(Pile(s, S))
  BY FoldAllIs DEF SumOf
<1>5. x = r[a] + rest /\ y = s[a] + rest
  BY <1>3, <1>4
<1>6. r[a] \in Nat /\ s[a] \in Nat
  OBVIOUS
<1>7. x \in Nat /\ y \in Nat /\ y + r[a] = x + s[a]
  <2> HIDE DEF rest, x, y
  <2> QED
    BY <1>2, <1>5, <1>6
<1> QED
  BY <1>7

\* A total of x and a sum of which nothing grows and something shrinks.
LEMMA SumShrinks ==
  ASSUME NEW S, IsFiniteSet(S), NEW r \in [S -> Nat], NEW s \in [S -> Nat],
         NEW a \in S, \A b \in S \ {a} : s[b] = r[b],
         NEW x \in Nat, NEW y \in Nat,
         s[a] <= r[a], y <= x, s[a] < r[a] \/ y < x
  PROVE  y + SumOf(s) < x + SumOf(r)
<1>1. /\ SumOf(r) \in Nat /\ SumOf(s) \in Nat
      /\ SumOf(s) + r[a] = SumOf(r) + s[a]
  BY SumChange
<1>2. r[a] \in Nat /\ s[a] \in Nat
  OBVIOUS
<1> QED
  BY <1>1, <1>2

-----------------------------------------------------------------------------
(* The parts, when each has q trials and r of them have one more. *)

Start(i, q, r) == i * q + Lesser(i, r)
Size(i, q, r)  == q + (IF i < r THEN 1 ELSE 0)

\* A part ends before any later part starts.
LEMMA PartsOrdered ==
  ASSUME NEW q \in Nat, NEW r \in Nat, NEW i \in Nat, NEW j \in Nat, i < j
  PROVE  /\ Start(i, q, r) \in Nat /\ Start(j, q, r) \in Nat
         /\ Start(i, q, r) + Size(i, q, r) <= Start(j, q, r)
<1> DEFINE k == j - i - 1
<1>1. k \in Nat /\ j = (i + 1) + k /\ i + 1 \in Nat
  OBVIOUS
<1> HIDE DEF k
<1>2. ((i + 1) + k) * q = (i + 1) * q + k * q /\ k * q \in Nat
  BY <1>1, TimesPlus
<1>3. (i + 1) * q = i * q + q /\ i * q \in Nat
  BY TimesSucc
<1>4. j * q = ((i + 1) + k) * q
  BY <1>1
<1> DEFINE iq == i * q
           jq == j * q
           kq == k * q
<1>5. jq = iq + q + kq /\ iq \in Nat /\ kq \in Nat
  BY <1>2, <1>3, <1>4
<1>6. Start(i, q, r) = iq + Lesser(i, r) /\ Start(j, q, r) = jq + Lesser(j, r)
  BY DEF Start
<1> HIDE DEF iq, jq, kq
<1> QED
  BY <1>5, <1>6 DEF Size, Lesser

\* No trial is left out.
LEMMA SomePart ==
  ASSUME NEW parts \in Nat \ {0}, NEW q \in Nat, NEW r \in 0 .. parts - 1,
         NEW t \in Nat, t < parts * q + r
  PROVE  \E i \in 0 .. parts - 1 :
           Start(i, q, r) <= t /\ t < Start(i, q, r) + Size(i, q, r)
<1>0. r \in Nat /\ q + 1 \in Nat \ {0}
  OBVIOUS
<1>1. r * (q + 1) = r * q + r /\ r * q \in Nat /\ r * (q + 1) \in Nat
  BY <1>0, TimesSuccRight
\* The longer parts come first.
<1>2. CASE t < r * (q + 1)
  <2> DEFINE i == t \div (q + 1)
             rest == t % (q + 1)
  <2>1. i \in Nat /\ rest \in 0 .. q /\ t = i * (q + 1) + rest
    <3>1. /\ i \in Nat
          /\ rest \in 0 .. (q + 1) - 1
          /\ t = i * (q + 1) + rest
      BY <1>0, DivMod
    <3>2. (q + 1) - 1 = q
      OBVIOUS
    <3> QED
      BY <3>1, <3>2
  <2> HIDE DEF i, rest
  <2>2. i * (q + 1) = i * q + i /\ i * q \in Nat /\ i * (q + 1) \in Nat
    BY <2>1, TimesSuccRight
  <2>3. i < r
    <3>1. i * (q + 1) < r * (q + 1)
      <4> DEFINE im == i * (q + 1)
                 rm == r * (q + 1)
      <4>1. t < rm /\ rm \in Nat /\ im \in Nat /\ t = im + rest
        BY <1>1, <1>2, <2>1, <2>2
      <4> HIDE DEF im, rm
      <4>2. im < rm
        BY <2>1, <4>1
      <4> QED
        BY <4>2 DEF im, rm
    <3> QED
      BY <1>0, <2>1, <3>1, LessByProduct
  <2> DEFINE iq == i * q
  <2>4. iq \in Nat /\ t = iq + i + rest
    BY <2>1, <2>2
  <2>5. Start(i, q, r) = iq + i /\ Size(i, q, r) = q + 1
    BY <2>3 DEF Start, Size, Lesser
  <2> HIDE DEF iq
  <2>6. i \in 0 .. parts - 1
    BY <2>1, <2>3
  <2>7. Start(i, q, r) <= t /\ t < Start(i, q, r) + Size(i, q, r)
    BY <2>1, <2>4, <2>5
  <2> QED
    BY <2>6, <2>7
\* Then come those of q trials each.
<1>3. CASE r * (q + 1) <= t
  <2> DEFINE d == t - r * (q + 1)
             s == parts - r
             rq == r * q
             sq == s * q
  <2>1. s \in Nat /\ r + s = parts
    OBVIOUS
  <2> HIDE DEF s
  <2>2. (r + s) * q = r * q + s * q /\ s * q \in Nat
    BY <1>0, <2>1, TimesPlus
  <2>3. parts * q = rq + sq
    BY <2>1, <2>2
  <2>4. d \in Nat /\ t = rq + r + d /\ d < sq /\ rq \in Nat /\ sq \in Nat
    <3>1. t < rq + sq + r
      BY <2>3
    <3>2. rq \in Nat /\ sq \in Nat /\ rq + r <= t /\ d = t - (rq + r)
      BY <1>1, <1>3, <2>2
    <3> HIDE DEF rq, sq, d
    <3> QED
      BY <1>0, <3>1, <3>2
  <2>5. q \in Nat \ {0}
    <3> SUFFICES ASSUME q = 0 PROVE FALSE
      OBVIOUS
    <3>1. sq = 0
      BY <2>1
    <3> QED
      BY <2>4, <3>1
  <2> DEFINE e == d \div q
             rest == d % q
             eq == e * q
             i == r + e
  <2> HIDE DEF d
  <2>6. e \in Nat /\ rest \in 0 .. q - 1 /\ d = eq + rest
    BY <2>4, <2>5, DivMod
  <2> HIDE DEF e, rest
  <2>7. (r + e) * q = r * q + e * q /\ e * q \in Nat
    BY <1>0, <2>6, TimesPlus
  <2>8. e < s
    <3>1. e * q < s * q
      <4>1. eq \in Nat
        BY <2>7
      <4> HIDE DEF eq, sq
      <4>2. eq < sq
        BY <2>4, <2>6, <4>1
      <4> QED
        BY <4>2 DEF eq, sq
    <3> QED
      BY <2>1, <2>6, <3>1, LessByProduct
  <2>9. i \in 0 .. parts - 1 /\ ~(i < r)
    BY <1>0, <2>1, <2>6, <2>8
  <2>10. Start(i, q, r) = rq + eq + r /\ Size(i, q, r) = q /\ eq \in Nat
    <3>1. Lesser(i, r) = r
      BY <2>9 DEF Lesser
    <3>2. Start(i, q, r) = (r + e) * q + r
      BY <3>1 DEF Start
    <3> QED
      BY <2>7, <2>9, <3>2 DEF Size
  <2> HIDE DEF i, eq, rq, sq
  <2>11. Start(i, q, r) <= t /\ t < Start(i, q, r) + Size(i, q, r)
    BY <1>0, <2>4, <2>6, <2>10
  <2> QED
    BY <2>9, <2>11
<1> QED
  BY <1>1, <1>2, <1>3

\* Where the parts start and end, in terms of their size q and remainder r.
LEMMA PartIs ==
  ASSUME NEW trials \in Nat, NEW parts \in Nat \ {0}, NEW i \in 0 .. parts - 1
  PROVE  LET q == trials \div parts
             r == trials % parts
         IN  /\ PartStart(trials, parts, i) = Start(i, q, r)
             /\ PartEnd(trials, parts, i) = Start(i, q, r) + Size(i, q, r)
             /\ Start(i, q, r) \in Nat
<1> DEFINE q == trials \div parts
           r == trials % parts
<1>1. q \in Nat /\ r \in 0 .. parts - 1
  BY DivMod
<1>2. PartStart(trials, parts, i) = Start(i, q, r)
  BY DEF PartStart, Start
<1>3. Start(i, q, r) \in Nat
  <2>1. i \in Nat /\ i + 1 \in Nat /\ i < i + 1 /\ r \in Nat /\ q \in Nat
    BY <1>1
  <2> HIDE DEF q, r
  <2> QED
    BY <2>1, PartsOrdered
<1> DEFINE start == Start(i, q, r)
<1>4. PartEnd(trials, parts, i) = start + q + (IF i < r THEN 1 ELSE 0)
  BY <1>2 DEF PartEnd
<1> HIDE DEF start, q, r
<1>5. start \in Nat
  BY <1>3 DEF start
<1>6. PartEnd(trials, parts, i) = start + Size(i, q, r)
  BY <1>1, <1>4, <1>5 DEF Size
<1> QED
  BY <1>2, <1>3, <1>6 DEF start, q, r

\* A part is a range of the trials there are.
LEMMA PartBounds ==
  ASSUME NEW trials \in Nat, NEW parts \in Nat \ {0}, NEW i \in 0 .. parts - 1
  PROVE  /\ PartStart(trials, parts, i) \in Nat
         /\ PartEnd(trials, parts, i) \in Nat
         /\ PartStart(trials, parts, i) <= PartEnd(trials, parts, i)
         /\ PartEnd(trials, parts, i) <= trials
<1> DEFINE q == trials \div parts
           r == trials % parts
<1>1. q \in Nat /\ r \in 0 .. parts - 1 /\ trials = q * parts + r
  BY DivMod
<1>2. /\ PartStart(trials, parts, i) = Start(i, q, r)
      /\ PartEnd(trials, parts, i) = Start(i, q, r) + Size(i, q, r)
  BY PartIs
<1>3. parts * q = q * parts
  BY <1>1
<1> HIDE DEF q, r
<1>4. Start(parts, q, r) = trials
  <2>1. Lesser(parts, r) = r
    BY <1>1 DEF Lesser
  <2> QED
    BY <1>1, <1>3, <2>1 DEF Start
<1>5. i \in Nat /\ i < parts /\ r \in Nat /\ parts \in Nat
  BY <1>1
<1>6. /\ Start(i, q, r) \in Nat
      /\ Start(i, q, r) + Size(i, q, r) <= Start(parts, q, r)
  BY <1>1, <1>5, PartsOrdered
<1>7. Size(i, q, r) \in Nat
  BY <1>1 DEF Size
<1> QED
  BY <1>2, <1>4, <1>6, <1>7

-----------------------------------------------------------------------------
\* partition_work, process_partition and hybrid_partition give every trial to
\* exactly one thread or process, whatever the remainder of the division and
\* also when there are fewer trials than threads.
THEOREM PartsTile ==
  ASSUME NEW trials \in Nat, NEW parts \in Nat \ {0}, NEW t \in 0 .. trials - 1
  PROVE  \E i \in 0 .. parts - 1 :
           /\ InPart(t, trials, parts, i)
           /\ \A j \in 0 .. parts - 1 : InPart(t, trials, parts, j) => j = i
<1> DEFINE q == trials \div parts
           r == trials % parts
<1>1. q \in Nat /\ r \in 0 .. parts - 1 /\ trials = q * parts + r
  BY DivMod
<1>2. \A i \in 0 .. parts - 1 :
        InPart(t, trials, parts, i) <=>
          Start(i, q, r) <= t /\ t < Start(i, q, r) + Size(i, q, r)
  BY PartIs DEF InPart
<1> HIDE DEF q, r
<1>3. t \in Nat /\ r \in Nat /\ t < parts * q + r
  <2>1. parts * q = q * parts
    BY <1>1
  <2>2. t \in Nat /\ r \in Nat /\ t < trials
    BY <1>1
  <2> QED
    BY <1>1, <2>1, <2>2
<1>4. PICK i \in 0 .. parts - 1 :
        Start(i, q, r) <= t /\ t < Start(i, q, r) + Size(i, q, r)
  BY <1>1, <1>3, SomePart
<1>5. ASSUME NEW j \in 0 .. parts - 1, InPart(t, trials, parts, j), j # i
      PROVE  FALSE
  <2>1. Start(j, q, r) <= t /\ t < Start(j, q, r) + Size(j, q, r)
    BY <1>2, <1>5
  <2>2. Size(i, q, r) \in Nat /\ Size(j, q, r) \in Nat
    BY <1>1 DEF Size
  <2>3. CASE i < j
    <3>1. /\ Start(i, q, r) \in Nat /\ Start(j, q, r) \in Nat
          /\ Start(i, q, r) + Size(i, q, r) <= Start(j, q, r)
      BY <1>1, <1>3, <2>3, PartsOrdered
    <3> QED
      BY <1>3, <1>4, <2>1, <2>2, <3>1
  <2>4. CASE j < i
    <3>1. /\ Start(i, q, r) \in Nat /\ Start(j, q, r) \in Nat
          /\ Start(j, q, r) + Size(j, q, r) <= Start(i, q, r)
      BY <1>1, <1>3, <2>4, PartsOrdered
    <3> QED
      BY <1>3, <1>4, <2>1, <2>2, <3>1
  <2> QED
    BY <1>5, <2>3, <2>4
<1> QED
  BY <1>2, <1>4, <1>5

\* The same as a partition of a set: the parts are disjoint, and their union
\* is the trials.
THEOREM PartsPartition ==
  ASSUME NEW trials \in Nat, NEW parts \in Nat \ {0}
  PROVE  LET Part(i) ==
               PartStart(trials, parts, i) .. PartEnd(trials, parts, i) - 1
         IN  /\ UNION {Part(i) : i \in 0 .. parts - 1} = 0 .. trials - 1
             /\ \A i, j \in 0 .. parts - 1 : i # j => Part(i) \cap Part(j) = {}
<1> DEFINE Part(i) == PartStart(trials, parts, i) .. PartEnd(trials, parts, i) - 1
<1>1. \A i \in 0 .. parts - 1 :
        /\ PartStart(trials, parts, i) \in Nat
        /\ PartEnd(trials, parts, i) \in Nat
        /\ PartEnd(trials, parts, i) <= trials
  BY PartBounds
<1>2. \A i \in 0 .. parts - 1, t \in Int : t \in Part(i) <=> InPart(t, trials, parts, i)
  BY <1>1 DEF InPart
<1>3. \A i \in 0 .. parts - 1 : Part(i) \subseteq 0 .. trials - 1
  BY <1>1
<1>4. \A t \in 0 .. trials - 1 :
        \E i \in 0 .. parts - 1 :
          /\ InPart(t, trials, parts, i)
          /\ \A j \in 0 .. parts - 1 : InPart(t, trials, parts, j) => j = i
  BY PartsTile
<1> HIDE DEF Part
<1>5. UNION {Part(i) : i \in 0 .. parts - 1} = 0 .. trials - 1
  <2>1. \A t \in 0 .. trials - 1 : \E i \in 0 .. parts - 1 : t \in Part(i)
    BY <1>2, <1>4
  <2> QED
    BY <1>3, <2>1
<1>6. \A i, j \in 0 .. parts - 1 : i # j => Part(i) \cap Part(j) = {}
  <2> SUFFICES ASSUME NEW i \in 0 .. parts - 1, NEW j \in 0 .. parts - 1, i # j,
                      NEW t \in Part(i) \cap Part(j)
               PROVE  FALSE
    OBVIOUS
  <2>1. t \in 0 .. trials - 1 /\ t \in Int
    BY <1>3
  <2>2. InPart(t, trials, parts, i) /\ InPart(t, trials, parts, j)
    BY <1>2, <2>1
  <2> QED
    BY <1>4, <2>1, <2>2
<1> QED
  BY <1>5, <1>6 DEF Part

\* The sizes of the parts add up to the number of trials.
LEMMA PartsSum ==
  ASSUME NEW trials \in Nat, NEW parts \in Nat \ {0}, NEW r,
         \A i \in 0 .. parts - 1 :
           r[i] = PartEnd(trials, parts, i) - PartStart(trials, parts, i)
  PROVE  Cardinality(Pile(r, 0 .. parts - 1)) = trials
<1> DEFINE P == 0 .. parts - 1
           start(i) == PartStart(trials, parts, i)
           end(i) == PartEnd(trials, parts, i)
           pile == Pile(r, P)
           trial == [p \in pile |-> start(p[1]) + p[2] - 1]
<1>1. \A i \in P : /\ start(i) \in Nat /\ end(i) \in Nat
                  /\ start(i) <= end(i) /\ end(i) <= trials
                  /\ r[i] = end(i) - start(i) /\ r[i] \in Nat
  BY PartBounds
<1>2. \A t \in 0 .. trials - 1 :
        \E i \in P : /\ start(i) <= t /\ t < end(i)
                    /\ \A j \in P : start(j) <= t /\ t < end(j) => j = i
  BY PartsTile DEF InPart
<1>3. \A p \in pile : /\ p[1] \in P /\ p[2] \in 1 .. r[p[1]]
                     /\ p = <<p[1], p[2]>>
  BY DEF Pile
<1>4. \A i \in P : \A k \in 1 .. r[i] : <<i, k>> \in pile
  BY DEF Pile
<1> HIDE DEF start, end, P, pile
<1>5. \A p \in pile :
        /\ trial[p] \in 0 .. trials - 1 /\ trial[p] = start(p[1]) + p[2] - 1
        /\ start(p[1]) <= trial[p] /\ trial[p] < end(p[1])
  BY <1>1, <1>3
<1>6. trial \in Injection(pile, 0 .. trials - 1)
  <2>1. trial \in [pile -> 0 .. trials - 1]
    BY <1>5
  <2>2. ASSUME NEW p \in pile, NEW q \in pile, trial[p] = trial[q] PROVE p = q
    <3>1. p[1] = q[1]
      BY <1>2, <1>3, <1>5, <2>2
    <3>2. p[2] = q[2]
      <4>1. /\ start(p[1]) + p[2] - 1 = start(p[1]) + q[2] - 1
            /\ start(p[1]) \in Nat /\ p[2] \in Nat /\ q[2] \in Nat
        BY <1>1, <1>3, <1>5, <2>2, <3>1
      <4> QED
        BY <4>1
    <3> QED
      BY <1>3, <3>1, <3>2
  <2> QED
    BY <2>1, <2>2 DEF Injection, IsInjective
<1>7. trial \in Surjection(pile, 0 .. trials - 1)
  <2>1. trial \in [pile -> 0 .. trials - 1]
    BY <1>5
  <2>2. ASSUME NEW t \in 0 .. trials - 1 PROVE \E p \in pile : trial[p] = t
    <3>1. PICK i \in P : start(i) <= t /\ t < end(i)
      BY <1>2
    <3> DEFINE k == t - start(i) + 1
    <3>2. k \in 1 .. r[i] /\ t = start(i) + k - 1
      BY <1>1, <3>1
    <3> HIDE DEF k
    <3>3. <<i, k>> \in pile /\ trial[<<i, k>>] = t
      BY <1>4, <3>2
    <3> QED
      BY <3>3
  <2> QED
    BY <2>1, <2>2 DEF Surjection
<1>8. ExistsBijection(pile, 0 .. trials - 1)
  BY <1>6, <1>7 DEF ExistsBijection, Bijection
<1>9. IsFiniteSet(0 .. trials - 1) /\ Cardinality(0 .. trials - 1) = trials
  BY FS_Interval
<1>10. IsFiniteSet(P)
  BY FS_Interval DEF P
<1>11. IsFiniteSet(pile)
  BY <1>1, <1>10, PileFinite DEF pile
<1>12. Cardinality(pile) = trials
  BY <1>8, <1>9, <1>11, FS_Bijection
<1> QED
  BY <1>12 DEF pile, P

=============================================================================
