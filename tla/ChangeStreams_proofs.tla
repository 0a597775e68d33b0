------------------------ MODULE ChangeStreams_proofs ------------------------
(***************************************************************************)
(* Facts about the change streams for every run configuration and every    *)
(* draw: what a filter keeps, where the walk of the follow-on events goes, *)
(* the order of a life's changes, and the gaps facts are put into.         *)
(***************************************************************************)
EXTENDS ChangeStreams, TLAPS, FiniteSetTheorems, SequenceTheorems, WellFoundedInduction

(***************************************************************************)
(* Least numbers.                                                          *)
(***************************************************************************)
LEMMA LeastOf ==
    ASSUME NEW S \in SUBSET Nat, S # {}
    PROVE  \E m \in S : \A x \in S : m <= x
<1>1. PICK m \in S : \A y \in S : ~ (<< y, m >> \in OpToRel(<, Nat))
  BY NatLessThanWellFounded, WFMin
<1>2. \A y \in S : ~ (y < m)
  BY <1>1 DEF OpToRel
<1> QED  BY <1>2

LEMMA MinOfTwo ==
    ASSUME NEW a \in Int, NEW b \in Int
    PROVE  Min({a, b}) = IF a <= b THEN a ELSE b
BY DEF Min

LEMMA MaxOfTwo ==
    ASSUME NEW a \in Int, NEW b \in Int
    PROVE  Max({a, b}) = IF a >= b THEN a ELSE b
BY DEF Max

(***************************************************************************)
(* Whole seconds and percentages.                                          *)
(***************************************************************************)
LEMMA PerSecondPositive == PerSecond \in Nat /\ PerSecond >= 1
BY PerSecondAssumption

LEMMA TicksInt ==
    ASSUME NEW a \in Int
    PROVE  Ticks(a) \in Int /\ (a \in Nat => Ticks(a) \in Nat)
BY PerSecondPositive DEF Ticks

LEMMA ProductOrder ==
    ASSUME NEW a \in Int, NEW b \in Int, NEW n \in Nat
    PROVE  /\ a <= b => a * n <= b * n
           /\ n >= 1 /\ a < b => a * n + n <= b * n
OBVIOUS

LEMMA TicksOrder ==
    ASSUME NEW a \in Int, NEW b \in Int
    PROVE  /\ a <= b <=> Ticks(a) <= Ticks(b)
           /\ a < b <=> Ticks(a) + PerSecond <= Ticks(b)
           /\ a < b <=> Ticks(a) < Ticks(b)
BY PerSecondPositive, ProductOrder DEF Ticks

LEMMA TicksSum ==
    ASSUME NEW a \in Int, NEW b \in Int
    PROVE  Ticks(a + b) = Ticks(a) + Ticks(b) /\ Ticks(a - b) = Ticks(a) - Ticks(b)
BY PerSecondPositive DEF Ticks

(* A time lies in the second it is cut down to.                            *)
LEMMA SecondOf ==
    ASSUME NEW t \in Int
    PROVE  /\ EpochSecond(t) \in Int
           /\ Ticks(EpochSecond(t)) <= t /\ t < Ticks(EpochSecond(t)) + PerSecond
BY PerSecondPositive DEF EpochSecond, Ticks

LEMMA SecondOrder ==
    ASSUME NEW t \in Int, NEW s \in Int
    PROVE  s <= EpochSecond(t) <=> Ticks(s) <= t
<1>1. /\ EpochSecond(t) \in Int /\ Ticks(s) \in Int /\ Ticks(EpochSecond(t)) \in Int
      /\ Ticks(EpochSecond(t)) <= t /\ t < Ticks(EpochSecond(t)) + PerSecond
  BY SecondOf, TicksInt
<1>2. s <= EpochSecond(t) <=> Ticks(s) <= Ticks(EpochSecond(t))
  BY <1>1, TicksOrder
<1>3. EpochSecond(t) < s <=> Ticks(EpochSecond(t)) + PerSecond <= Ticks(s)
  BY <1>1, TicksOrder
<1> QED  BY <1>1, <1>2, <1>3, PerSecondPositive

LEMMA SecondMonotone ==
    ASSUME NEW t \in Int, NEW u \in Int, t <= u
    PROVE  EpochSecond(t) <= EpochSecond(u)
<1>1. /\ EpochSecond(t) \in Int /\ EpochSecond(u) \in Int
      /\ Ticks(EpochSecond(t)) <= t /\ Ticks(EpochSecond(t)) \in Int
  BY SecondOf, TicksInt
<1> QED  BY <1>1, SecondOrder

LEMMA SecondOfTicks ==
    ASSUME NEW s \in Int
    PROVE  EpochSecond(Ticks(s)) = s
<1>1. Ticks(s) \in Int /\ EpochSecond(Ticks(s)) \in Int
  BY TicksInt, SecondOf
<1>2. s <= EpochSecond(Ticks(s))
  BY <1>1, SecondOrder
<1>3. ~ (s + 1 <= EpochSecond(Ticks(s)))
  <2>1. Ticks(s) < Ticks(s + 1)
    BY TicksOrder
  <2>2. Ticks(s + 1) \in Int /\ s + 1 \in Int
    BY TicksInt
  <2> QED  BY <1>1, <2>1, <2>2, SecondOrder
<1> QED  BY <1>1, <1>2, <1>3

Part(span, percent) == (span * percent) \div 100

(* A share of a span stays inside of it.                                   *)
LEMMA Share ==
    ASSUME NEW d \in Nat, NEW u \in 0..100
    PROVE  /\ Part(d, u) \in Nat /\ Part(d, u) <= d
           /\ u < 100 /\ d > 0 => Part(d, u) < d
<1>1. d * u \in Nat /\ d * u <= d * 100
  <2>1. d * u \in Nat
    OBVIOUS
  <2>2. u * d <= 100 * d
    BY ProductOrder
  <2> QED  BY <2>1, <2>2
<1>2. u < 100 /\ d > 0 => d * u < d * 100
  <2>1. u < 100 /\ d > 0 => u * d + d <= 100 * d
    BY ProductOrder
  <2>2. u * d = d * u
    OBVIOUS
  <2> QED  BY <2>1, <2>2
<1> DEFINE x == d * u
<1>3. x \in Nat /\ x <= d * 100 /\ (u < 100 /\ d > 0 => x < d * 100)
  BY <1>1, <1>2
<1> HIDE DEF x
<1>4. x \div 100 \in Nat /\ x \div 100 <= d /\ (u < 100 /\ d > 0 => x \div 100 < d)
  BY <1>3
<1> QED  BY <1>4 DEF x, Part

LEMMA ShareAtLeast ==
    ASSUME NEW d \in Nat, NEW u \in 0..100, NEW low \in Nat, NEW e \in Nat,
           e <= d, low <= u
    PROVE  Part(e, low) <= Part(d, u)
<1>1. e * low <= d * low
  BY ProductOrder
<1>2. low * d <= u * d
  BY ProductOrder
<1>3. d * low = low * d /\ d * u = u * d
  OBVIOUS
<1> DEFINE x == e * low
           y == d * u
<1>4. x \in Nat /\ y \in Nat /\ x <= y
  <2>1. x \in Nat /\ y \in Nat /\ d * low \in Nat
    OBVIOUS
  <2> QED  BY <1>1, <1>2, <1>3, <2>1
<1> HIDE DEF x, y
<1>5. x \div 100 <= y \div 100
  BY <1>4
<1> QED  BY <1>5 DEF x, y, Part
(***************************************************************************)
(* What a filter keeps.                                                    *)
(***************************************************************************)
(* Each number of a finite set has a rank in it, and each rank a number.   *)
LEMMA RankOnto ==
    ASSUME NEW n \in Nat, NEW S \in SUBSET (1..n)
    PROVE  /\ IsFiniteSet(S) /\ Cardinality(S) \in 0..n
           /\ \A k \in 1..Cardinality(S) :
                \E i \in S : Cardinality({j \in S : j <= i}) = k
<1> DEFINE Onto(R) == \A k \in 1..Cardinality(R) :
                          \E i \in R : Cardinality({j \in R : j <= i}) = k
           Wrong == {m \in Nat : \E R \in SUBSET (1..m) : ~ Onto(R)}
<1>1. ASSUME NEW m \in Nat, NEW R \in SUBSET (1..m)
      PROVE  IsFiniteSet(R) /\ Cardinality(R) \in 0..m
  <2>1. IsFiniteSet(1..m) /\ Cardinality(1..m) = m
    BY FS_Interval
  <2>2. IsFiniteSet(R) /\ Cardinality(R) <= Cardinality(1..m)
    BY <2>1, FS_Subset
  <2>3. Cardinality(R) \in Nat
    BY <2>2, FS_CardinalityType
  <2> QED  BY <2>1, <2>2, <2>3
<1>2. Wrong = {}
  <2> SUFFICES ASSUME Wrong # {} PROVE FALSE
    OBVIOUS
  <2>1. PICK m \in Wrong : \A x \in Wrong : m <= x
    BY LeastOf
  <2>2. PICK R \in SUBSET (1..m) : ~ Onto(R)
    BY <2>1
  <2>3. m \in Nat /\ IsFiniteSet(R)
    BY <1>1, <2>1
  <2>4. m # 0
    <3> SUFFICES ASSUME m = 0 PROVE FALSE
      OBVIOUS
    <3>1. R = {}
      BY <2>2
    <3> QED  BY <2>2, <3>1, FS_EmptySet
  <2>5. m - 1 \in Nat /\ m - 1 \notin Wrong
    <3>1. m - 1 \in Nat /\ ~ (m <= m - 1)
      BY <2>3, <2>4
    <3> HIDE DEF Wrong
    <3> QED  BY <2>1, <3>1
  <2> DEFINE Q == R \ {m}
  <2>6. Q \in SUBSET (1..m - 1)
    BY <2>2, <2>3
  <2>7. Onto(Q)
    BY <2>5, <2>6
  <2>8. m \in R
    <3> SUFFICES ASSUME m \notin R PROVE FALSE
      OBVIOUS
    <3>1. Q = R
      BY <3>1
    <3> QED  BY <2>2, <2>7, <3>1
  <2>9. Cardinality(R) = Cardinality(Q) + 1 /\ Cardinality(Q) \in Nat
    BY <1>1, <2>3, <2>5, <2>6, <2>8, FS_RemoveElement
  <2>10. ASSUME NEW k \in 1..Cardinality(R)
         PROVE  \E i \in R : Cardinality({j \in R : j <= i}) = k
    <3>1. CASE k = Cardinality(R)
      <4>1. {j \in R : j <= m} = R
        <5>1. \A j \in R : j <= m
          BY <2>2, <2>3
        <5> QED  BY <5>1
      <4> QED  BY <2>8, <3>1, <4>1
    <3>2. CASE k # Cardinality(R)
      <4>1. k \in 1..Cardinality(Q)
        BY <2>9, <3>2
      <4>2. PICK i \in Q : Cardinality({j \in Q : j <= i}) = k
        BY <2>7, <4>1
      <4>3. {j \in Q : j <= i} = {j \in R : j <= i}
        BY <2>2, <2>3, <2>6, <4>2
      <4> QED  BY <4>2, <4>3
    <3> QED  BY <3>1, <3>2
  <2> QED  BY <2>2, <2>10
<1>3. Onto(S)
  <2> HIDE DEF Onto
  <2> QED  BY <1>2
<1> QED  BY <1>1, <1>3

LEMMA RankOrder ==
    ASSUME NEW n \in Nat, NEW S \in SUBSET (1..n), NEW i \in S, NEW j \in S, i < j
    PROVE  Cardinality({x \in S : x <= i}) < Cardinality({x \in S : x <= j})
<1> DEFINE A == {x \in S : x <= i}
           B == {x \in S : x <= j}
<1>1. IsFiniteSet(S) /\ A \in SUBSET B /\ B \in SUBSET S /\ j \in B /\ j \notin A
  <2>1. IsFiniteSet(S)
    BY RankOnto
  <2>2. S \subseteq Nat /\ i \in Nat /\ j \in Nat
    OBVIOUS
  <2>3. \A x \in S : x <= i => x <= j
    BY <2>2
  <2>4. A \in SUBSET B
    BY <2>3
  <2>5. B \in SUBSET S
    OBVIOUS
  <2>6. j \in B /\ j \notin A
    BY <2>2
  <2> QED  BY <2>1, <2>4, <2>5, <2>6
<1>2. IsFiniteSet(B) /\ IsFiniteSet(A)
  BY <1>1, FS_Subset
<1>3. Cardinality(A) <= Cardinality(B) /\ Cardinality(A) # Cardinality(B)
  BY <1>1, <1>2, FS_Subset
<1> QED  BY <1>2, <1>3, FS_CardinalityType

(* The places of a set from the smallest on: every one, once, in order.    *)
LEMMA InOrderIs ==
    ASSUME NEW n \in Nat, NEW S \in SUBSET (1..n)
    PROVE  /\ DOMAIN InOrder(S) = 1..Cardinality(S) /\ Cardinality(S) \in 0..n
           /\ \A k \in 1..Cardinality(S) : InOrder(S)[k] \in S
           /\ \A k, l \in 1..Cardinality(S) : k < l => InOrder(S)[k] < InOrder(S)[l]
           /\ \A i \in S : \E k \in 1..Cardinality(S) : InOrder(S)[k] = i
<1> DEFINE Rank(i) == Cardinality({j \in S : j <= i})
           o == InOrder(S)
<1>1. /\ IsFiniteSet(S) /\ Cardinality(S) \in 0..n
      /\ \A k \in 1..Cardinality(S) : \E i \in S : Rank(i) = k
  BY RankOnto
<1>0. S \subseteq Nat
  OBVIOUS
<1>2. \A i, j \in S : i < j => Rank(i) < Rank(j)
  BY RankOrder
<1>3. ASSUME NEW i \in S PROVE Rank(i) \in 1..Cardinality(S)
  <2>1. {j \in S : j <= i} \in SUBSET S /\ {j \in S : j <= i} # {}
    OBVIOUS
  <2>2. Rank(i) \in Nat /\ Rank(i) <= Cardinality(S) /\ Rank(i) # 0
    BY <1>1, <2>1, FS_Subset, FS_CardinalityType, FS_EmptySet
  <2> QED  BY <1>1, <2>2
<1>4. o = [k \in 1..Cardinality(S) |-> CHOOSE i \in S : Rank(i) = k]
  BY DEF InOrder
<1> HIDE DEF Rank, o
<1>5. ASSUME NEW k \in 1..Cardinality(S)
      PROVE  o[k] \in S /\ Rank(o[k]) = k
  <2>1. o[k] = CHOOSE i \in S : Rank(i) = k
    BY <1>4
  <2> QED  BY <1>1, <2>1
<1>6. ASSUME NEW k \in 1..Cardinality(S), NEW l \in 1..Cardinality(S), k < l
      PROVE  o[k] < o[l]
  <2>1. o[k] \in S /\ o[l] \in S /\ Rank(o[k]) = k /\ Rank(o[l]) = l
    BY <1>5
  <2>2. o[k] \in Nat /\ o[l] \in Nat /\ k \in Nat /\ l \in Nat
    <3>1. k \in Nat /\ l \in Nat
      OBVIOUS
    <3> QED  BY <1>0, <2>1, <3>1, Zenon
  <2>3. ~ (o[l] < o[k]) /\ o[k] # o[l]
    BY <1>2, <1>6, <2>1, <2>2
  <2> QED  BY <2>2, <2>3
<1>7. ASSUME NEW i \in S PROVE \E k \in 1..Cardinality(S) : o[k] = i
  <2>1. Rank(i) \in 1..Cardinality(S)
    BY <1>3
  <2>2. o[Rank(i)] \in S /\ Rank(o[Rank(i)]) = Rank(i)
    BY <1>5, <2>1
  <2>4. o[Rank(i)] \in Nat /\ i \in Nat /\ Rank(i) \in Nat
    <3>1. Rank(i) \in Nat
      BY <1>1, <2>1
    <3> QED  BY <1>0, <2>2, <3>1, Zenon
  <2>3. ~ (o[Rank(i)] < i) /\ ~ (i < o[Rank(i)])
    BY <1>2, <2>2, <2>4
  <2> QED  BY <2>1, <2>3, <2>4
<1>8. DOMAIN o = 1..Cardinality(S)
  BY <1>4
<1> QED  BY <1>1, <1>5, <1>6, <1>7, <1>8 DEF o

(* A filter keeps the items at the places of the set, each once, in their  *)
(* order: the places they come from.                                       *)
LEMMA PickedIs ==
    ASSUME NEW T, NEW s \in Seq(T), NEW S \in SUBSET DOMAIN s
    PROVE  /\ Cardinality(S) \in Nat
           /\ \E from \in [1..Cardinality(S) -> S] :
                /\ Picked(s, S) = [k \in 1..Cardinality(S) |-> s[from[k]]]
                /\ \A k, l \in 1..Cardinality(S) : k < l => from[k] < from[l]
                /\ \A k, l \in 1..Cardinality(S) : k # l => from[k] # from[l]
                /\ \A i \in S : \E k \in 1..Cardinality(S) : from[k] = i
<1> DEFINE n == Len(s)
           from == InOrder(S)
<1>0. n \in Nat /\ S \in SUBSET (1..n) /\ S \subseteq Nat
  OBVIOUS
<1>1. /\ DOMAIN from = 1..Cardinality(S) /\ Cardinality(S) \in 0..n
      /\ \A k \in 1..Cardinality(S) : from[k] \in S
      /\ \A k, l \in 1..Cardinality(S) : k < l => from[k] < from[l]
      /\ \A i \in S : \E k \in 1..Cardinality(S) : from[k] = i
  <2> HIDE DEF from, n
  <2> QED  BY <1>0, InOrderIs DEF from
<1>2. from = [k \in 1..Cardinality(S) |-> from[k]]
  <2> DEFINE pick(k) == CHOOSE i \in S : Cardinality({j \in S : j <= i}) = k
  <2>1. from = [k \in 1..Cardinality(S) |-> pick(k)]
    BY DEF InOrder
  <2> HIDE DEF from, pick
  <2> QED  BY <2>1
<1>3. Picked(s, S) = [k \in 1..Cardinality(S) |-> s[from[k]]]
  BY <1>1 DEF Picked
<1> HIDE DEF from, n
<1>4. from \in [1..Cardinality(S) -> S]
  BY <1>1, <1>2
<1>5. ASSUME NEW k \in 1..Cardinality(S), NEW l \in 1..Cardinality(S), k # l
      PROVE  from[k] # from[l]
  <2>1. k \in Nat /\ l \in Nat
    OBVIOUS
  <2>2. from[k] \in Nat /\ from[l] \in Nat
    BY <1>0, <1>1, Zenon
  <2> QED  BY <1>1, <1>5, <2>1, <2>2
<1>6. Cardinality(S) \in Nat
  BY <1>0, <1>1
<1> QED  BY <1>1, <1>3, <1>4, <1>5, <1>6, Zenon

LEMMA PickedSeq ==
    ASSUME NEW T, NEW s \in Seq(T), NEW S \in SUBSET DOMAIN s
    PROVE  /\ Picked(s, S) \in Seq(T) /\ Len(Picked(s, S)) = Cardinality(S)
           /\ DOMAIN Picked(s, S) = 1..Cardinality(S) /\ Cardinality(S) \in Nat
<1>0. Cardinality(S) \in Nat
  BY PickedIs
<1>1. PICK from \in [1..Cardinality(S) -> S] :
                /\ Picked(s, S) = [k \in 1..Cardinality(S) |-> s[from[k]]]
                /\ \A k, l \in 1..Cardinality(S) : k < l => from[k] < from[l]
                /\ \A k, l \in 1..Cardinality(S) : k # l => from[k] # from[l]
                /\ \A i \in S : \E k \in 1..Cardinality(S) : from[k] = i
  BY PickedIs
<1>2. \A k \in 1..Cardinality(S) : from[k] \in S /\ s[from[k]] \in T
  OBVIOUS
<1> DEFINE p == [k \in 1..Cardinality(S) |-> s[from[k]]]
<1>3. p \in Seq(T) /\ DOMAIN p = 1..Cardinality(S) /\ Len(p) = Cardinality(S)
  BY <1>0, <1>2
<1> HIDE DEF p
<1>4. Picked(s, S) = p
  BY <1>1 DEF p
<1> QED  BY <1>0, <1>3, <1>4

LEMMA PickedHas ==
    ASSUME NEW T, NEW s \in Seq(T), NEW S \in SUBSET DOMAIN s
    PROVE  /\ \A k \in DOMAIN Picked(s, S) : \E i \in S : Picked(s, S)[k] = s[i]
           /\ \A i \in S : \E k \in DOMAIN Picked(s, S) : Picked(s, S)[k] = s[i]
<1>1. PICK from \in [1..Cardinality(S) -> S] :
                /\ Picked(s, S) = [k \in 1..Cardinality(S) |-> s[from[k]]]
                /\ \A k, l \in 1..Cardinality(S) : k < l => from[k] < from[l]
                /\ \A k, l \in 1..Cardinality(S) : k # l => from[k] # from[l]
                /\ \A i \in S : \E k \in 1..Cardinality(S) : from[k] = i
  BY PickedIs
<1>2. DOMAIN Picked(s, S) = 1..Cardinality(S)
  BY <1>1
<1>3. \A k \in 1..Cardinality(S) : from[k] \in S /\ Picked(s, S)[k] = s[from[k]]
  BY <1>1
<1>4. \A k \in DOMAIN Picked(s, S) : \E i \in S : Picked(s, S)[k] = s[i]
  BY <1>2, <1>3, Zenon
<1>5. ASSUME NEW i \in S
      PROVE  \E k \in DOMAIN Picked(s, S) : Picked(s, S)[k] = s[i]
  <2>1. PICK k \in 1..Cardinality(S) : from[k] = i
    BY <1>1
  <2>2. Picked(s, S)[k] = s[i]
    BY <1>3, <2>1, Zenon
  <2> QED  BY <1>2, <2>1, <2>2, Zenon
<1> QED  BY <1>4, <1>5

(***************************************************************************)
(* The walk of the follow-on events.                                       *)
(***************************************************************************)
(* One event more, unless no more than a minute remains.                   *)
OneMore(s, upper, percent) ==
    LET remaining == upper - Last(s)
    IN  IF remaining <= Ticks(60) THEN s
        ELSE Append(s, Last(s) + Part(remaining, percent))

Walked(to, n, first, upper, percents) ==
    to = [k \in 0..n |-> IF k = 0 THEN << first >> ELSE OneMore(to[k - 1], upper, percents[k])]

LEMMA WalkedExists ==
    ASSUME NEW first, NEW upper, NEW percents, NEW n \in Nat
    PROVE  \E to : Walked(to, n, first, upper, percents)
<1> DEFINE Wrong == {m \in Nat : ~ \E to : Walked(to, m, first, upper, percents)}
<1>1. Wrong = {}
  <2> SUFFICES ASSUME Wrong # {} PROVE FALSE
    OBVIOUS
  <2>1. PICK m \in Wrong : \A x \in Wrong : m <= x
    <3>1. Wrong \in SUBSET Nat
      OBVIOUS
    <3> HIDE DEF Wrong
    <3> QED  BY <3>1, LeastOf
  <2>2. m \in Nat /\ ~ \E to : Walked(to, m, first, upper, percents)
    OBVIOUS
  <2>3. m # 0
    <3> SUFFICES ASSUME m = 0 PROVE FALSE
      OBVIOUS
    <3> DEFINE to == [k \in 0..m |-> << first >>]
    <3>1. Walked(to, m, first, upper, percents)
      BY DEF Walked
    <3> QED  BY <2>2, <3>1
  <2>4. m - 1 \in Nat /\ m - 1 \notin Wrong
    <3>1. m - 1 \in Nat /\ ~ (m <= m - 1)
      BY <2>2, <2>3
    <3> HIDE DEF Wrong
    <3> QED  BY <2>1, <3>1
  <2>5. PICK to : Walked(to, m - 1, first, upper, percents)
    BY <2>4
  <2> DEFINE more == [k \in 0..m |-> IF k = m THEN OneMore(to[m - 1], upper, percents[m]) ELSE to[k]]
  <2>6. \A k \in 0..m : k # m => k \in 0..m - 1
    BY <2>2
  <2>7. \A k \in 0..m - 1 : to[k] = IF k = 0 THEN << first >>
                                   ELSE OneMore(to[k - 1], upper, percents[k])
    BY <2>5 DEF Walked
  <2>8. ASSUME NEW k \in 0..m
        PROVE  more[k] = IF k = 0 THEN << first >> ELSE OneMore(more[k - 1], upper, percents[k])
    <3>1. CASE k = m
      <4>1. m - 1 \in 0..m /\ m - 1 # m /\ k # 0
        BY <2>2, <2>3, <3>1
      <4>2. more[m - 1] = to[m - 1]
        BY <4>1
      <4> QED  BY <3>1, <4>1, <4>2
    <3>2. CASE k # m
      <4>1. k \in 0..m - 1 /\ more[k] = to[k]
        BY <2>6, <3>2
      <4>2. k # 0 => k - 1 \in 0..m /\ k - 1 # m
        BY <2>2
      <4>3. k # 0 => more[k - 1] = to[k - 1]
        BY <4>2
      <4> QED  BY <2>7, <4>1, <4>3
    <3> QED  BY <3>1, <3>2
  <2>9. Walked(more, m, first, upper, percents)
    <3>1. more = [k \in 0..m |-> more[k]]
      OBVIOUS
    <3> HIDE DEF more
    <3> QED  BY <2>8, <3>1 DEF Walked
  <2> QED  BY <2>2, <2>9
<1> QED  BY <1>1

LEMMA WalkIs ==
    ASSUME NEW first, NEW upper, NEW T, NEW percents \in Seq(T)
    PROVE  \E to : /\ Walked(to, Len(percents), first, upper, percents)
                   /\ Walk(first, upper, percents) = Tail(to[Len(percents)])
<1> DEFINE n == Len(percents)
           chosen == CHOOSE to : Walked(to, n, first, upper, percents)
<1>1. n \in Nat
  OBVIOUS
<1>2. Walked(chosen, n, first, upper, percents)
  <2>1. \E to : Walked(to, n, first, upper, percents)
    BY <1>1, WalkedExists
  <2> QED  BY <2>1
<1>3. Walk(first, upper, percents) = Tail(chosen[n])
  BY DEF Walk, Walked, OneMore, Part
<1> QED  BY <1>2, <1>3

(* Times that rise from first and do not pass upper.                       *)
Rising(s) == \A i, j \in 1..Len(s) : i < j => s[i] < s[j]
Path(s, first, upper) ==
    /\ s \in Seq(Int) /\ Len(s) >= 1 /\ s[1] = first
    /\ Rising(s)
    /\ \A i \in 1..Len(s) : s[i] <= upper

Extends(s, t) == Len(t) <= Len(s) /\ \A i \in 1..Len(t) : s[i] = t[i]

LEMMA OneMorePath ==
    ASSUME NEW first \in Int, NEW upper \in Int, NEW s, Path(s, first, upper),
           NEW percent \in 5..70
    PROVE  LET t == OneMore(s, upper, percent)
               remaining == upper - s[Len(s)]
           IN  /\ Path(t, first, upper) /\ Extends(t, s) /\ Len(t) <= Len(s) + 1
               /\ remaining > Ticks(60) =>
                    /\ Len(t) = Len(s) + 1
                    /\ t[Len(t)] = s[Len(s)] + Part(remaining, percent)
                    /\ Part(remaining, percent) \in 1..remaining
<1> DEFINE t == OneMore(s, upper, percent)
           last == s[Len(s)]
           remaining == upper - last
           next == last + Part(remaining, percent)
<1>1. /\ s \in Seq(Int) /\ Len(s) \in Nat /\ Len(s) >= 1 /\ s[1] = first /\ Rising(s)
      /\ \A i \in 1..Len(s) : s[i] <= upper /\ s[i] \in Int
      /\ DOMAIN s = 1..Len(s)
  BY DEF Path
<1>2. last \in Int /\ last <= upper /\ remaining \in Nat
  BY <1>1
<1>3. Ticks(60) \in Nat /\ Ticks(60) >= 60
  BY PerSecondPositive DEF Ticks
<1>4. CASE remaining <= Ticks(60)
  <2>1. t = s
    BY <1>4 DEF OneMore, Last
  <2>2. Extends(t, s) /\ Len(t) <= Len(s) + 1
    BY <1>1, <2>1 DEF Extends
  <2>3. ~ (remaining > Ticks(60))
    BY <1>2, <1>3, <1>4
  <2> QED  BY <2>1, <2>2, <2>3
<1>5. CASE ~ (remaining <= Ticks(60))
  <2>1. Part(remaining, percent) \in 1..remaining
    <3>1. Part(60, 5) <= Part(remaining, percent)
      <4>1. 60 <= remaining /\ 5 \in Nat /\ 60 \in Nat /\ 5 <= percent /\ percent \in 0..100
        BY <1>2, <1>3, <1>5
      <4> HIDE DEF remaining
      <4> QED  BY <1>2, <4>1, ShareAtLeast
    <3>2. Part(remaining, percent) \in Nat /\ Part(remaining, percent) <= remaining
      <4> HIDE DEF remaining
      <4>1. percent \in 0..100
        OBVIOUS
      <4> QED  BY <1>2, <4>1, Share
    <3> DEFINE x == Part(remaining, percent)
    <3>3. Part(60, 5) = 3
      BY DEF Part
    <3>4. x \in Nat /\ x <= remaining /\ 3 <= x
      BY <3>1, <3>2, <3>3
    <3> HIDE DEF x, remaining
    <3>5. x \in 1..remaining
      BY <1>2, <3>4
    <3> QED  BY <3>5 DEF x
  <2>2. next \in Int /\ last < next /\ next <= upper
    <3> DEFINE x == Part(remaining, percent)
    <3>1. x \in 1..remaining
      BY <2>1
    <3>2. next = last + x
      OBVIOUS
    <3> HIDE DEF x, next
    <3> QED  BY <1>2, <3>1, <3>2
  <2>3. t = Append(s, next)
    BY <1>5 DEF OneMore, Last
  <2> HIDE DEF next, last
  <2>4. /\ t \in Seq(Int) /\ Len(t) = Len(s) + 1
        /\ \A i \in 1..Len(s) : t[i] = s[i]
        /\ t[Len(s) + 1] = next
    BY <1>1, <2>2, <2>3
  <2> HIDE DEF t
  <2>5. ASSUME NEW i \in 1..Len(t), NEW j \in 1..Len(t), i < j
        PROVE  t[i] < t[j]
    <3>1. i \in 1..Len(s) /\ t[i] = s[i] /\ s[i] \in Int
      BY <1>1, <2>4, <2>5
    <3>2. CASE j = Len(s) + 1
      <4>1. s[i] <= last
        BY <1>1, <3>1 DEF Rising, last
      <4> QED  BY <1>2, <2>2, <2>4, <3>1, <3>2, <4>1
    <3>3. CASE j # Len(s) + 1
      <4>1. j \in 1..Len(s)
        BY <1>1, <2>4, <3>3
      <4> QED  BY <1>1, <2>4, <2>5, <3>1, <4>1 DEF Rising
    <3> QED  BY <3>2, <3>3
  <2>6. \A i \in 1..Len(t) : t[i] <= upper
    <3> TAKE i \in 1..Len(t)
    <3>1. CASE i = Len(s) + 1
      BY <2>2, <2>4, <3>1
    <3>2. CASE i # Len(s) + 1
      <4>1. i \in 1..Len(s)
        BY <1>1, <2>4, <3>2
      <4> QED  BY <1>1, <2>4, <4>1
    <3> QED  BY <3>1, <3>2
  <2>7. t[1] = first
    BY <1>1, <2>4
  <2>8. Path(t, first, upper)
    BY <1>1, <2>4, <2>5, <2>6, <2>7 DEF Path, Rising
  <2>9. Extends(t, s) /\ Len(t) <= Len(s) + 1
    BY <1>1, <2>4 DEF Extends
  <2>10. t[Len(t)] = last + Part(remaining, percent)
    BY <2>4 DEF next
  <2> QED  BY <2>1, <2>4, <2>8, <2>9, <2>10, Zenon DEF last, t
<1> QED  BY <1>4, <1>5

(* The walk rises from first without passing upper; it takes a first step  *)
(* and a second one while more than a minute remains.                      *)
LEMMA WalkPath ==
    ASSUME NEW first \in Int, NEW upper \in Int, first <= upper, NEW percents \in Seq(5..70)
    PROVE  \E path :
             /\ Path(path, first, upper) /\ Walk(first, upper, percents) = Tail(path)
             /\ Len(path) <= Len(percents) + 1
             /\ Len(percents) >= 1 /\ upper - first > Ticks(60) =>
                  /\ Len(path) >= 2
                  /\ path[2] = first + Part(upper - first, percents[1])
             /\ Len(percents) >= 2 /\ upper - first > Ticks(60) /\ upper - path[2] > Ticks(60) =>
                  Len(path) >= 3
<1> DEFINE n == Len(percents)
<1>1. n \in Nat /\ \A k \in 1..n : percents[k] \in 5..70
  BY LenProperties, ElementOfSeq
<1>2. PICK to : Walked(to, n, first, upper, percents) /\ Walk(first, upper, percents) = Tail(to[n])
  BY WalkIs
<1>3. /\ to[0] = << first >>
      /\ \A k \in 0..n : k # 0 => to[k] = OneMore(to[k - 1], upper, percents[k])
  <2>1. to = [k \in 0..n |-> IF k = 0 THEN << first >> ELSE OneMore(to[k - 1], upper, percents[k])]
    BY <1>2 DEF Walked
  <2>2. 0 \in 0..n
    BY <1>1
  <2> HIDE DEF n
  <2>3. \A k \in 0..n : to[k] = IF k = 0 THEN << first >> ELSE OneMore(to[k - 1], upper, percents[k])
    BY <2>1, Zenon
  <2> QED  BY <2>2, <2>3
<1> DEFINE Ok(k) == /\ Path(to[k], first, upper) /\ Len(to[k]) <= k + 1
                    /\ \A j \in 0..k : Extends(to[k], to[j])
           Wrong == {k \in 0..n : ~ Ok(k)}
<1>4. Ok(0)
  <2>1. to[0] \in Seq(Int) /\ Len(to[0]) = 1 /\ to[0][1] = first
    BY <1>3
  <2> HIDE DEF Ok
  <2>2. Path(to[0], first, upper)
    BY <2>1 DEF Path, Rising
  <2>3. Extends(to[0], to[0])
    BY <2>1 DEF Extends
  <2> QED  BY <2>1, <2>2, <2>3 DEF Ok
<1>5. ASSUME NEW k \in 1..n, Ok(k - 1)
      PROVE  /\ Ok(k)
             /\ upper - to[k - 1][Len(to[k - 1])] > Ticks(60) =>
                  /\ Len(to[k]) = Len(to[k - 1]) + 1
                  /\ to[k][Len(to[k])] = to[k - 1][Len(to[k - 1])]
                       + Part(upper - to[k - 1][Len(to[k - 1])], percents[k])
  <2>1. k \in 0..n /\ k # 0 /\ percents[k] \in 5..70 /\ k - 1 \in 0..n
    BY <1>1
  <2>2. to[k] = OneMore(to[k - 1], upper, percents[k])
    BY <1>3, <2>1
  <2>3. Path(to[k - 1], first, upper)
    BY <1>5
  <2>4. /\ Path(to[k], first, upper) /\ Extends(to[k], to[k - 1])
        /\ Len(to[k]) <= Len(to[k - 1]) + 1
        /\ upper - to[k - 1][Len(to[k - 1])] > Ticks(60) =>
                  /\ Len(to[k]) = Len(to[k - 1]) + 1
                  /\ to[k][Len(to[k])] = to[k - 1][Len(to[k - 1])]
                       + Part(upper - to[k - 1][Len(to[k - 1])], percents[k])
    <3> DEFINE s == to[k - 1]
               p == percents[k]
    <3>1. Path(s, first, upper) /\ p \in 5..70 /\ to[k] = OneMore(s, upper, p)
      BY <2>1, <2>2, <2>3
    <3> HIDE DEF s, p
    <3> DEFINE t == OneMore(s, upper, p)
               remaining == upper - s[Len(s)]
    <3>2. /\ Path(t, first, upper) /\ Extends(t, s) /\ Len(t) <= Len(s) + 1
          /\ remaining > Ticks(60) =>
               /\ Len(t) = Len(s) + 1
               /\ t[Len(t)] = s[Len(s)] + Part(remaining, p)
               /\ Part(remaining, p) \in 1..remaining
      <4>1. first \in Int /\ upper \in Int
        OBVIOUS
      <4> QED  BY <3>1, <4>1, OneMorePath
    <3>3. to[k] = t
      BY <3>1
    <3> HIDE DEF t
    <3> QED  BY <3>2, <3>3 DEF s, p
  <2>5. Len(to[k]) \in Nat /\ Len(to[k - 1]) \in Nat
    BY <2>3, <2>4 DEF Path
  <2>6. Len(to[k]) <= k + 1
    BY <1>5, <2>1, <2>4, <2>5
  <2>7. ASSUME NEW j \in 0..k PROVE Extends(to[k], to[j])
    <3>1. CASE j = k
      BY <2>5, <3>1 DEF Extends
    <3>2. CASE j # k
      <4>1. j \in 0..k - 1
        BY <2>1, <3>2
      <4>2. Extends(to[k - 1], to[j])
        BY <1>5, <4>1
      <4>3. Ok(j) \/ TRUE
        OBVIOUS
      <4>4. Len(to[j]) <= Len(to[k - 1]) /\ \A i \in 1..Len(to[j]) : to[k - 1][i] = to[j][i]
        BY <4>2 DEF Extends
      <4>5. Len(to[k - 1]) <= Len(to[k]) /\ \A i \in 1..Len(to[k - 1]) : to[k][i] = to[k - 1][i]
        BY <2>4 DEF Extends
      <4> QED  BY <2>5, <4>4, <4>5 DEF Extends
    <3> QED  BY <3>1, <3>2
  <2> QED  BY <2>4, <2>6, <2>7
<1>6. Wrong = {}
  <2> SUFFICES ASSUME Wrong # {} PROVE FALSE
    OBVIOUS
  <2>1. PICK k \in Wrong : \A x \in Wrong : k <= x
    <3>1. Wrong \in SUBSET Nat
      BY <1>1
    <3> HIDE DEF Wrong
    <3> QED  BY <3>1, LeastOf
  <2> HIDE DEF Ok
  <2>2. k \in 0..n /\ ~ Ok(k)
    OBVIOUS
  <2>3. k # 0
    BY <1>4, <2>2
  <2>4. k - 1 \in 0..n /\ k \in 1..n /\ ~ (k <= k - 1)
    BY <1>1, <2>2, <2>3
  <2>5. Ok(k - 1)
    BY <2>1, <2>4
  <2> QED  BY <1>5, <2>2, <2>4, <2>5
<1>7. \A k \in 0..n : Ok(k)
  <2> HIDE DEF Ok
  <2> QED  BY <1>6
<1> DEFINE path == to[n]
<1>8. Path(path, first, upper) /\ Len(path) <= n + 1 /\ \A j \in 0..n : Extends(path, to[j])
  BY <1>1, <1>7
<1>9. Len(to[0]) = 1 /\ to[0][1] = first
  BY <1>3
<1>10. ASSUME n >= 1, upper - first > Ticks(60)
       PROVE  /\ Len(to[1]) = 2 /\ to[1][2] = first + Part(upper - first, percents[1])
              /\ Len(path) >= 2 /\ path[2] = to[1][2]
  <2>1. 1 \in 1..n /\ 1 - 1 = 0 /\ 1 \in 0..n
    BY <1>1, <1>10
  <2>2. Len(to[1]) = 2 /\ to[1][2] = first + Part(upper - first, percents[1])
    <3>1. Ok(1 - 1)
      BY <1>4, <2>1
    <3> HIDE DEF Ok
    <3>2. upper - to[1 - 1][Len(to[1 - 1])] > Ticks(60) =>
                  /\ Len(to[1]) = Len(to[1 - 1]) + 1
                  /\ to[1][Len(to[1])] = to[1 - 1][Len(to[1 - 1])]
                       + Part(upper - to[1 - 1][Len(to[1 - 1])], percents[1])
      BY <1>5, <2>1, <3>1
    <3>3. to[1 - 1] = to[0]
      BY <2>1
    <3>4. to[0][Len(to[0])] = first
      BY <1>9
    <3>5. /\ Len(to[1]) = Len(to[0]) + 1
          /\ to[1][Len(to[1])] = first + Part(upper - first, percents[1])
      <4>1. /\ upper - to[0][Len(to[0])] > Ticks(60) =>
                  /\ Len(to[1]) = Len(to[0]) + 1
                  /\ to[1][Len(to[1])] = to[0][Len(to[0])]
                       + Part(upper - to[0][Len(to[0])], percents[1])
        BY <3>2, <3>3, Zenon
      <4> HIDE DEF path
      <4>2. upper - to[0][Len(to[0])] > Ticks(60)
        BY <1>10, <3>4, Zenon
      <4> QED  BY <3>4, <4>1, <4>2, Zenon
    <3>6. Len(to[1]) = 2
      BY <1>9, <3>5
    <3> QED  BY <3>5, <3>6, Zenon
  <2>3. Extends(path, to[1])
    BY <1>8, <2>1
  <2> QED  BY <1>8, <2>2, <2>3 DEF Extends, Path
<1>11. ASSUME n >= 2, upper - first > Ticks(60), upper - path[2] > Ticks(60)
       PROVE  Len(path) >= 3
  <2>1. 2 \in 1..n /\ 2 - 1 = 1 /\ 1 \in 0..n /\ 2 \in 0..n
    BY <1>1, <1>11
  <2>2. Len(to[1]) = 2 /\ path[2] = to[1][2]
    BY <1>1, <1>10, <1>11
  <2>3. Len(to[2]) = 3
    <3>1. Ok(2 - 1)
      BY <1>7, <2>1
    <3> HIDE DEF Ok
    <3>2. upper - to[2 - 1][Len(to[2 - 1])] > Ticks(60) => Len(to[2]) = Len(to[2 - 1]) + 1
      BY <1>5, <2>1, <3>1
    <3>3. to[2 - 1] = to[1]
      BY <2>1
    <3>4. to[1][Len(to[1])] = path[2]
      BY <2>2, Zenon
    <3>5. upper - to[1][Len(to[1])] > Ticks(60) => Len(to[2]) = Len(to[1]) + 1
      BY <3>2, <3>3, Zenon
    <3>6. Len(to[2]) = Len(to[1]) + 1
      BY <1>11, <3>4, <3>5, Zenon
    <3> QED  BY <2>2, <3>6
  <2>4. Extends(path, to[2])
    BY <1>8, <2>1
  <2>5. Len(path) \in Nat
    BY <1>8 DEF Path
  <2> QED  BY <2>3, <2>4, <2>5 DEF Extends
<1> HIDE DEF path
<1>12. Walk(first, upper, percents) = Tail(path)
  BY <1>2 DEF path
<1> QED  BY <1>1, <1>8, <1>10, <1>11, <1>12, Zenon

(***************************************************************************)
(* sorted(): a time placed among times that are in order.                  *)
(***************************************************************************)
Sorted(s) == \A i, j \in 1..Len(s) : i <= j => s[i] <= s[j]

LEMMA SegmentIs ==
    ASSUME NEW n \in Nat, NEW S \in SUBSET (1..n),
           \A i \in S, j \in 1..n : j <= i => j \in S
    PROVE  Cardinality(S) \in 0..n /\ S = 1..Cardinality(S)
<1> DEFINE Out == {i \in Nat : i \notin S /\ i # 0}
<1>1. S \subseteq Nat /\ \A i \in S : 1 <= i /\ i <= n
  OBVIOUS
<1>2. n + 1 \in Out
  BY <1>1
<1>3. PICK m \in Out : \A x \in Out : m <= x
  <2>1. Out \in SUBSET Nat /\ Out # {}
    BY <1>2
  <2> HIDE DEF Out
  <2> QED  BY <2>1, LeastOf
<1>4. m \in Nat /\ m \notin S /\ m # 0 /\ m <= n + 1
  BY <1>2, <1>3
<1>5. ASSUME NEW i \in 1..m - 1 PROVE i \in S
  <2>1. i \in Nat /\ i # 0 /\ ~ (m <= i)
    BY <1>4
  <2>2. i \notin Out
    <3> HIDE DEF Out
    <3> QED  BY <1>3, <2>1
  <2> QED  BY <2>1, <2>2
<1>6. ASSUME NEW i \in S PROVE i \in 1..m - 1
  <2>1. i \in Nat /\ 1 <= i /\ i <= n
    BY <1>1
  <2>2. ~ (m <= i)
    <3> SUFFICES ASSUME m <= i PROVE FALSE
      OBVIOUS
    <3>1. m \in 1..n
      BY <1>4, <2>1
    <3> QED  BY <1>4, <3>1
  <2> QED  BY <1>4, <2>1, <2>2
<1>7. S = 1..m - 1
  BY <1>5, <1>6
<1>8. Cardinality(1..m - 1) = m - 1
  <2>1. m - 1 \in Int /\ 1 \in Int /\ 1 <= m
    BY <1>4
  <2> QED  BY <2>1, FS_Interval
<1> QED  BY <1>4, <1>7, <1>8

LEMMA PlacedIs ==
    ASSUME NEW s \in Seq(Int), Sorted(s), NEW t \in Int
    PROVE  /\ Placed(t, s) \in Seq(Int) /\ Len(Placed(t, s)) = Len(s) + 1
           /\ Sorted(Placed(t, s))
           /\ \E k \in 1..Len(s) + 1 : Placed(t, s)[k] = t
           /\ \A i \in 1..Len(s) : \E k \in 1..Len(s) + 1 : Placed(t, s)[k] = s[i]
           /\ \A k \in 1..Len(s) + 1 :
                Placed(t, s)[k] = t \/ \E i \in 1..Len(s) : Placed(t, s)[k] = s[i]
<1> DEFINE n == Len(s)
           B == {k \in DOMAIN s : s[k] < t}
           r == Cardinality(B)
           p == Placed(t, s)
<1>1. n \in Nat /\ DOMAIN s = 1..n /\ \A i \in 1..n : s[i] \in Int
  OBVIOUS
<1>2. r \in 0..n /\ B = 1..r
  <2>1. B \in SUBSET (1..n)
    BY <1>1
  <2>2. ASSUME NEW i \in B, NEW j \in 1..n, j <= i PROVE j \in B
    <3>1. i \in 1..n /\ s[i] < t /\ s[j] <= s[i] /\ s[i] \in Int /\ s[j] \in Int
      BY <1>1, <2>2 DEF Sorted
    <3> QED  BY <1>1, <3>1
  <2> HIDE DEF B
  <2> QED  BY <1>1, <2>1, <2>2, SegmentIs
<1>3. \A i \in 1..n : i <= r <=> s[i] < t
  <2>1. \A i \in 1..n : i \in B <=> s[i] < t
    BY <1>1
  <2> HIDE DEF B
  <2> QED  BY <1>1, <1>2, <2>1
<1>4. p = SubSeq(s, 1, r) \o << t >> \o SubSeq(s, r + 1, n)
  <2>1. (1 + r) - 1 = r /\ 1 + r = r + 1
    BY <1>1, <1>2
  <2> QED  BY <2>1 DEF Placed, InsertAt
<1> HIDE DEF n, r, B, p
<1>5. /\ SubSeq(s, 1, r) \in Seq(Int) /\ Len(SubSeq(s, 1, r)) = r
      /\ \A k \in 1..r : SubSeq(s, 1, r)[k] = s[k]
  BY <1>1, <1>2 DEF n
<1>6. /\ SubSeq(s, r + 1, n) \in Seq(Int) /\ Len(SubSeq(s, r + 1, n)) = n - r
      /\ \A k \in 1..n - r : SubSeq(s, r + 1, n)[k] = s[r + k]
  <2>1. /\ r + 1 \in Int /\ n \in Int /\ r \in Int
        /\ \A i \in r + 1..n : s[i] \in Int
    BY <1>1, <1>2
  <2> DEFINE m == r + 1
  <2>2. m \in Int
    BY <2>1
  <2> HIDE DEF m
  <2>3. /\ SubSeq(s, m, n) \in Seq(Int)
        /\ Len(SubSeq(s, m, n)) = IF m <= n THEN n - m + 1 ELSE 0
        /\ \A i \in 1..n - m + 1 : SubSeq(s, m, n)[i] = s[m + i - 1]
    BY <2>1, <2>2, SubSeqProperties DEF m
  <2>4. n - m + 1 = n - r /\ (m > n => n - r = 0)
    BY <1>1, <1>2, <2>1 DEF m
  <2>5. \A i \in 1..n - r : m + i - 1 = r + i
    BY <2>1 DEF m
  <2>6. Len(SubSeq(s, m, n)) = n - r
    BY <2>1, <2>2, <2>3, <2>4
  <2>7. \A k \in 1..n - r : SubSeq(s, m, n)[k] = s[r + k]
    <3> TAKE k \in 1..n - r
    <3>1. SubSeq(s, m, n)[k] = s[m + k - 1]
      BY <2>3, <2>4, Zenon
    <3> QED  BY <2>5, <3>1, Zenon
  <2> QED  BY <2>3, <2>6, <2>7 DEF m
<1>7. /\ p \in Seq(Int) /\ Len(p) = n + 1
      /\ \A k \in 1..n + 1 : p[k] = IF k <= r THEN s[k] ELSE IF k = r + 1 THEN t ELSE s[k - 1]
  <2> DEFINE x == SubSeq(s, 1, r)
             y == SubSeq(s, r + 1, n)
  <2>1. /\ x \in Seq(Int) /\ Len(x) = r /\ y \in Seq(Int) /\ Len(y) = n - r
        /\ r \in Int /\ n \in Int
    BY <1>1, <1>2, <1>5, <1>6
  <2>3. \A k \in 1..r : x[k] = s[k]
    BY <1>5
  <2>4. \A k \in 1..n - r : y[k] = s[r + k]
    BY <1>6
  <2>2. p = (x \o << t >>) \o y
    BY <1>4
  <2> HIDE DEF x, y
  <2> DEFINE z == x \o << t >>
  <2>5. /\ z \in Seq(Int) /\ Len(z) = r + 1
        /\ \A k \in 1..r : z[k] = x[k]
        /\ z[r + 1] = t
    BY <1>2, <2>1
  <2>8. p = z \o y
    BY <2>2
  <2> HIDE DEF z
  <2>6. /\ p \in Seq(Int) /\ Len(p) = n + 1
        /\ \A k \in 1..r + 1 : p[k] = z[k]
        /\ \A k \in r + 2..n + 1 : p[k] = y[k - (r + 1)]
    <3>1. /\ p \in Seq(Int) /\ Len(p) = Len(z) + Len(y)
          /\ \A i \in 1..Len(z) + Len(y) :
                p[i] = IF i <= Len(z) THEN z[i] ELSE y[i - Len(z)]
      BY <2>1, <2>5, <2>8, ConcatProperties
    <3>2. Len(z) + Len(y) = n + 1
      BY <1>1, <1>2, <2>1, <2>5
    <3>3. Len(p) = n + 1
      BY <3>1, <3>2, Zenon
    <3>4. ASSUME NEW k \in 1..r + 1 PROVE p[k] = z[k]
      <4>1. k \in 1..Len(z) + Len(y) /\ k <= Len(z)
        BY <1>1, <1>2, <2>1, <2>5
      <4> QED  BY <3>1, <4>1, Zenon
    <3>5. ASSUME NEW k \in r + 2..n + 1 PROVE p[k] = y[k - (r + 1)]
      <4>1. k \in 1..Len(z) + Len(y) /\ ~ (k <= Len(z)) /\ Len(z) = r + 1
        BY <1>1, <1>2, <2>1, <2>5
      <4>2. p[k] = y[k - Len(z)]
        BY <3>1, <4>1, Zenon
      <4> QED  BY <4>1, <4>2, Zenon
    <3> QED  BY <3>1, <3>3, <3>4, <3>5
  <2>7. ASSUME NEW k \in 1..n + 1
        PROVE  p[k] = IF k <= r THEN s[k] ELSE IF k = r + 1 THEN t ELSE s[k - 1]
    <3>1. CASE k <= r
      BY <1>1, <1>2, <2>3, <2>5, <2>6, <3>1
    <3>2. CASE k = r + 1
      BY <1>1, <1>2, <2>5, <2>6, <3>2
    <3>3. CASE k > r + 1
      <4>1. k \in r + 2..n + 1 /\ k - (r + 1) \in 1..n - r /\ r + (k - (r + 1)) = k - 1
        BY <1>1, <1>2, <3>3
      <4> QED  BY <1>1, <1>2, <2>4, <2>6, <3>3, <4>1
    <3> QED  BY <1>1, <1>2, <3>1, <3>2, <3>3
  <2> QED  BY <2>6, <2>7
<1>8. ASSUME NEW i \in 1..n + 1, NEW j \in 1..n + 1, i <= j PROVE p[i] <= p[j]
  <2>1. ASSUME NEW x \in 1..n, NEW y \in 1..n, x <= y
        PROVE  s[x] \in Int /\ s[y] \in Int /\ s[x] <= s[y]
    BY <1>1, <2>1 DEF Sorted, n
  <2>2. CASE j <= r
    BY <1>1, <1>2, <1>7, <1>8, <2>1, <2>2
  <2>3. CASE j = r + 1
    <3>1. CASE i <= r
      <4>1. i \in 1..n /\ s[i] < t /\ p[i] = s[i] /\ p[j] = t
        BY <1>1, <1>2, <1>3, <1>7, <2>3, <3>1
      <4> QED  BY <1>1, <4>1
    <3>2. CASE i = r + 1
      BY <1>7, <2>3, <3>2
    <3> QED  BY <1>2, <1>8, <2>3, <3>1, <3>2
  <2>4. CASE j > r + 1
    <3>1. j - 1 \in 1..n /\ ~ (j - 1 <= r) /\ p[j] = s[j - 1]
      BY <1>1, <1>2, <1>7, <2>4
    <3>2. s[j - 1] \in Int /\ t <= s[j - 1]
      BY <1>1, <1>3, <3>1
    <3>3. CASE i <= r
      BY <1>1, <1>2, <1>7, <1>8, <2>1, <2>4, <3>1, <3>3
    <3>4. CASE i = r + 1
      BY <1>2, <1>7, <3>1, <3>2, <3>4
    <3>5. CASE i > r + 1
      <4>1. i - 1 \in 1..n /\ i - 1 <= j - 1 /\ p[i] = s[i - 1]
        BY <1>1, <1>2, <1>7, <1>8, <2>4, <3>5
      <4> QED  BY <2>1, <3>1, <4>1
    <3> QED  BY <1>2, <3>3, <3>4, <3>5
  <2> QED  BY <1>1, <1>2, <2>2, <2>3, <2>4
<1>9. p[r + 1] = t /\ r + 1 \in 1..n + 1
  BY <1>1, <1>2, <1>7
<1>10. ASSUME NEW i \in 1..n PROVE \E k \in 1..n + 1 : p[k] = s[i]
  <2>1. CASE i <= r
    BY <1>1, <1>2, <1>7, <2>1
  <2>2. CASE i > r
    <3>1. i + 1 \in 1..n + 1 /\ ~ (i + 1 <= r) /\ i + 1 # r + 1 /\ (i + 1) - 1 = i
      BY <1>1, <1>2, <2>2
    <3>2. p[i + 1] = s[(i + 1) - 1]
      BY <1>7, <3>1
    <3> QED  BY <3>1, <3>2
  <2> QED  BY <1>1, <1>2, <2>1, <2>2
<1>11. ASSUME NEW k \in 1..n + 1 PROVE p[k] = t \/ \E i \in 1..n : p[k] = s[i]
  <2>1. CASE k <= r
    BY <1>1, <1>2, <1>7, <2>1
  <2>2. CASE k > r + 1
    <3>1. k - 1 \in 1..n /\ p[k] = s[k - 1]
      BY <1>1, <1>2, <1>7, <2>2
    <3> QED  BY <3>1
  <2> QED  BY <1>1, <1>2, <1>7, <2>1, <2>2
<1>12. Sorted(p)
  BY <1>7, <1>8 DEF Sorted
<1> QED  BY <1>7, <1>9, <1>10, <1>11, <1>12 DEF p, n

(* Two neighbouring values of a sorted sequence of numbers stand next to   *)
(* each other.                                                             *)
LEMMA NextTo ==
    ASSUME NEW s \in Seq(Int), Sorted(s), NEW i \in 1..Len(s), NEW j \in 1..Len(s),
           s[j] = s[i] + 1
    PROVE  \E k \in 1..Len(s) : k > 1 /\ s[k - 1] = s[i] /\ s[k] = s[i] + 1
<1> DEFINE n == Len(s)
           v == s[i]
           At == {k \in 1..n : s[k] = v + 1}
<1>1. n \in Nat /\ \A k \in 1..n : s[k] \in Int
  OBVIOUS
<1>2. PICK k \in At : \A x \in At : k <= x
  <2>1. At \in SUBSET Nat /\ j \in At
    BY <1>1
  <2> HIDE DEF At
  <2> QED  BY <2>1, LeastOf
<1>3. k \in 1..n /\ s[k] = v + 1 /\ v \in Int
  BY <1>1
<1>4. ~ (k <= i)
  <2> SUFFICES ASSUME k <= i PROVE FALSE
    OBVIOUS
  <2>1. s[k] <= s[i]
    BY <1>3 DEF Sorted
  <2> QED  BY <1>3, <2>1
<1>5. k - 1 \in 1..n /\ i <= k - 1 /\ k > 1 /\ k - 1 <= k /\ ~ (k <= k - 1)
  BY <1>1, <1>3, <1>4
<1>6. v <= s[k - 1] /\ s[k - 1] <= v + 1 /\ s[k - 1] \in Int
  <2>1. s[i] <= s[k - 1] /\ s[k - 1] <= s[k]
    BY <1>3, <1>5 DEF Sorted
  <2> QED  BY <1>1, <1>3, <1>5, <2>1
<1>7. s[k - 1] # v + 1
  <2> SUFFICES ASSUME s[k - 1] = v + 1 PROVE FALSE
    OBVIOUS
  <2>1. k - 1 \in At
    BY <1>5
  <2> HIDE DEF At
  <2> QED  BY <1>2, <1>5, <2>1
<1>8. s[k - 1] = v
  <2> HIDE DEF v
  <2> QED  BY <1>3, <1>6, <1>7
<1> QED  BY <1>3, <1>5, <1>8

(* The remainder of a number is the one number below the divisor that      *)
(* leaves a multiple of it.                                                *)
LEMMA RemainderIs ==
    ASSUME NEW d \in Nat, d >= 1, NEW q \in Int, NEW r \in 0..d - 1
    PROVE  (q * d + r) % d = r
<1> DEFINE t == q * d + r
           p == t \div d
           m == t % d
<1>1. t \in Int /\ q * d \in Int
  OBVIOUS
<1>2. p \in Int /\ m \in 0..d - 1 /\ t = d * p + m
  <2> HIDE DEF t
  <2> QED  BY <1>1
<1>3. d * p = p * d /\ p * d \in Int
  <2> HIDE DEF p
  <2> QED  BY <1>2
<1>4. p < q => p * d + d <= q * d
  <2> HIDE DEF p
  <2> QED  BY <1>2, ProductOrder
<1>5. q < p => q * d + d <= p * d
  <2> HIDE DEF p
  <2> QED  BY <1>2, ProductOrder
<1> DEFINE a == p * d
           b == q * d
<1>6. a \in Int /\ b \in Int /\ t = a + m /\ t = b + r
  <2> HIDE DEF p, m
  <2> QED  BY <1>1, <1>2, <1>3
<1>7. (p < q => a + d <= b) /\ (q < p => b + d <= a)
  BY <1>4, <1>5
<1> HIDE DEF a, b, p, m, t
<1>8. ~ (p < q) /\ ~ (q < p)
  BY <1>2, <1>6, <1>7
<1>9. p = q
  BY <1>2, <1>8
<1>10. a = b
  BY <1>9 DEF a, b
<1>11. m = r
  BY <1>2, <1>6, <1>10
<1> QED  BY <1>11 DEF m, t

LEMMA DayPositive == Day \in Nat /\ Day >= 1 /\ Day = DaySeconds * PerSecond
BY PerSecondPositive DEF Day, Ticks, DaySeconds

(* A day holds its times, and a whole number of days ends with a day.      *)
LEMMA DayIs ==
    ASSUME NEW t \in Int
    PROVE  /\ DayStart(t) \in Int /\ DayStart(t) <= t /\ t < DayStart(t) + Day
           /\ \A x \in 0..Day - 1 : DayStart(DayStart(t) + x) = DayStart(t)
           /\ \A q \in Int : t < q * Day => DayStart(t) + Day <= q * Day
<1> DEFINE d == Day
           p == t \div d
           m == t % d
<1>1. d \in Nat /\ d >= 1
  BY DayPositive
<1> HIDE DEF d
<1>2. p \in Int /\ m \in 0..d - 1 /\ t = d * p + m
  BY <1>1
<1>3. d * p = p * d /\ p * d \in Int
  BY <1>1, <1>2
<1>4. DayStart(t) = p * d
  <2>1. DayStart(t) = t - m
    BY DEF DayStart, d
  <2> HIDE DEF p, m
  <2> QED  BY <1>2, <1>3, <2>1
<1> HIDE DEF p, m
<1>5. DayStart(t) \in Int /\ DayStart(t) <= t /\ t < DayStart(t) + d
  BY <1>1, <1>2, <1>3, <1>4
<1>6. ASSUME NEW x \in 0..d - 1 PROVE DayStart(DayStart(t) + x) = DayStart(t)
  <2>1. (p * d + x) % d = x
    BY <1>1, <1>2, RemainderIs
  <2>2. DayStart(p * d + x) = (p * d + x) - x
    BY <2>1 DEF DayStart, d
  <2>3. (p * d + x) - x = p * d
    BY <1>3
  <2> QED  BY <1>4, <2>2, <2>3
<1>7. ASSUME NEW q \in Int, t < q * d PROVE DayStart(t) + d <= q * d
  <2>1. q * d \in Int
    BY <1>1
  <2>2. p < q => p * d + d <= q * d
    BY <1>1, <1>2, ProductOrder
  <2>3. q <= p => q * d <= p * d
    BY <1>1, <1>2, ProductOrder
  <2> DEFINE a == p * d
             b == q * d
  <2>4. a \in Int /\ b \in Int /\ t < b /\ a <= t /\ (p < q => a + d <= b) /\ (q <= p => b <= a)
    BY <1>2, <1>3, <1>4, <1>5, <1>7, <2>1, <2>2, <2>3
  <2>5. a + d <= b
    <3> HIDE DEF a, b
    <3> QED  BY <1>1, <1>2, <2>4
  <2> QED  BY <1>4, <2>5
<1> QED  BY <1>5, <1>6, <1>7 DEF d

(* Two times of one day, or the second one the first instant of the next,  *)
(* right after a time of the day.                                          *)
OneDay(s) ==
    \E j, k \in 1..Len(s) :
        /\ j # k
        /\ \/ DayStart(s[j]) = DayStart(s[k])
           \/ k = j + 1 /\ s[k] = DayStart(s[j]) + Day

LEMMA SameDayIs ==
    ASSUME NEW drawn \in Seq(Int), Len(drawn) >= 2, Rising(drawn),
           NEW q \in Int, \A i \in 1..Len(drawn) : drawn[i] <= q * Day,
           NEW x \in 0..Day - 1, NEW y \in 0..Day - 1
    PROVE  /\ SameDay(drawn, {x, y}) \in Seq(Int)
           /\ Len(SameDay(drawn, {x, y})) = Len(drawn)
           /\ \A k \in 1..Len(drawn) : SameDay(drawn, {x, y})[k] <= q * Day
           /\ SameDay(drawn, {x, y})[1] < SameDay(drawn, {x, y})[Len(drawn)]
           /\ OneDay(SameDay(drawn, {x, y}))
<1> DEFINE n == Len(drawn)
           upper == q * Day
           day == DayStart(drawn[1])
           lo == Min({x, y})
           hi == Max({x, y})
           a == day + lo
           b == IF a = day + hi THEN day + hi + 1 ELSE day + hi
           rest == SubSeq(drawn, 3, n)
           s == Placed(b, rest)
           p == Placed(a, s)
<1>1. /\ n \in Nat /\ n >= 2 /\ upper \in Int
      /\ \A i \in 1..n : drawn[i] \in Int /\ drawn[i] <= upper
      /\ \A i, j \in 1..n : i < j => drawn[i] < drawn[j]
  BY DayPositive DEF Rising
<1>2. SameDay(drawn, {x, y}) = p
  BY DEF SameDay
<1>3. /\ lo \in 0..Day - 1 /\ hi \in 0..Day - 1 /\ lo <= hi
  <2>1. x \in Int /\ y \in Int
    BY DayPositive
  <2>2. lo = (IF x <= y THEN x ELSE y) /\ hi = (IF x >= y THEN x ELSE y)
    BY <2>1, MinOfTwo, MaxOfTwo
  <2> QED  BY <2>1, <2>2, DayPositive
<1>4. /\ day \in Int /\ \A z \in 0..Day - 1 : DayStart(day + z) = day
      /\ day + Day <= upper
  <2>1. drawn[1] \in Int
    BY <1>1
  <2>2. drawn[1] < drawn[2] /\ drawn[2] <= upper /\ drawn[2] \in Int
    BY <1>1
  <2>3. drawn[1] < upper
    BY <1>1, <2>1, <2>2
  <2> QED  BY <2>1, <2>3, DayIs
<1> HIDE DEF n, upper, day, lo, hi
<1>5. /\ a \in Int /\ b \in Int /\ a < b /\ a <= upper /\ b <= upper
      /\ DayStart(a) = day
      /\ DayStart(b) = day \/ (b = a + 1 /\ b = day + Day)
  <2>1. a = day + lo /\ DayStart(a) = day
    BY <1>3, <1>4
  <2>2. (a # day + hi /\ b = day + hi) \/ (a = day + hi /\ b = day + hi + 1)
    OBVIOUS
  <2> HIDE DEF a, b
  <2> DEFINE d == Day
  <2>3. d \in Nat /\ d >= 1 /\ lo \in 0..d - 1 /\ hi \in 0..d - 1 /\ day + d <= upper
    BY <1>3, <1>4, DayPositive
  <2>4. \A z \in 0..d - 1 : DayStart(day + z) = day
    BY <1>4
  <2> HIDE DEF d
  <2>5. a \in Int /\ b \in Int /\ a < b /\ a <= upper /\ b <= upper
    BY <1>1, <1>3, <1>4, <2>1, <2>2, <2>3
  <2>6. CASE b = day + hi
    BY <2>1, <2>3, <2>4, <2>5, <2>6 DEF d
  <2>7. CASE b = day + hi + 1 /\ a = day + hi /\ hi + 1 \in 0..d - 1
    <3>1. b = day + (hi + 1)
      BY <1>4, <2>3, <2>7
    <3>2. DayStart(b) = day
      BY <2>4, <2>7, <3>1
    <3> QED  BY <2>1, <2>5, <3>2
  <2>8. CASE b = day + hi + 1 /\ a = day + hi /\ hi + 1 \notin 0..d - 1
    <3>1. b = day + d /\ b = a + 1
      BY <1>4, <2>3, <2>8
    <3> QED  BY <2>1, <2>5, <3>1 DEF d
  <2> QED  BY <2>2, <2>6, <2>7, <2>8
<1> HIDE DEF a, b
<1>7. /\ rest \in Seq(Int) /\ Len(rest) = n - 2 /\ Sorted(rest)
      /\ \A i \in 1..Len(rest) : rest[i] <= upper
  <2>1. 3 \in Int /\ n \in Int /\ \A i \in 3..n : drawn[i] \in Int
    BY <1>1
  <2>2. /\ rest \in Seq(Int) /\ Len(rest) = (IF 3 <= n THEN n - 3 + 1 ELSE 0)
        /\ \A i \in 1..n - 3 + 1 : rest[i] = drawn[3 + i - 1]
    BY <2>1, SubSeqProperties
  <2> HIDE DEF rest
  <2>3. Len(rest) = n - 2
    BY <1>1, <2>2
  <2>4. \A i \in 1..n - 2 : rest[i] = drawn[i + 2]
    <3> TAKE i \in 1..n - 2
    <3>1. i \in 1..n - 3 + 1 /\ 3 + i - 1 = i + 2
      BY <1>1
    <3> QED  BY <2>2, <3>1, Zenon
  <2>5. ASSUME NEW i \in 1..Len(rest), NEW j \in 1..Len(rest), i <= j
        PROVE  rest[i] <= rest[j]
    <3>1. i + 2 \in 1..n /\ j + 2 \in 1..n /\ (i = j \/ i + 2 < j + 2)
      BY <1>1, <2>3, <2>5
    <3>2. rest[i] = drawn[i + 2] /\ rest[j] = drawn[j + 2]
      BY <2>3, <2>4
    <3> QED  BY <1>1, <3>1, <3>2
  <2>6. ASSUME NEW i \in 1..Len(rest) PROVE rest[i] <= upper
    <3>1. i + 2 \in 1..n
      BY <1>1, <2>3
    <3> QED  BY <1>1, <2>3, <2>4, <3>1
  <2> QED  BY <2>2, <2>3, <2>5, <2>6 DEF Sorted
<1> HIDE DEF rest
<1>8. /\ s \in Seq(Int) /\ Len(s) = n - 1 /\ Sorted(s)
      /\ \E k \in 1..Len(s) : s[k] = b
      /\ \A k \in 1..Len(s) : s[k] <= upper
  <2>1. /\ s \in Seq(Int) /\ Len(s) = Len(rest) + 1 /\ Sorted(s)
        /\ \E k \in 1..Len(rest) + 1 : s[k] = b
        /\ \A k \in 1..Len(rest) + 1 : s[k] = b \/ \E i \in 1..Len(rest) : s[k] = rest[i]
    BY <1>5, <1>7, PlacedIs
  <2> HIDE DEF s
  <2>2. Len(rest) + 1 = n - 1
    BY <1>1, <1>7
  <2> QED  BY <1>5, <1>7, <2>1, <2>2
<1> HIDE DEF s
<1>9. /\ p \in Seq(Int) /\ Len(p) = n /\ Sorted(p)
      /\ \E k \in 1..n : p[k] = a
      /\ \E k \in 1..n : p[k] = b
      /\ \A k \in 1..n : p[k] <= upper
  <2>1. /\ p \in Seq(Int) /\ Len(p) = Len(s) + 1 /\ Sorted(p)
        /\ \E k \in 1..Len(s) + 1 : p[k] = a
        /\ \A i \in 1..Len(s) : \E k \in 1..Len(s) + 1 : p[k] = s[i]
        /\ \A k \in 1..Len(s) + 1 : p[k] = a \/ \E i \in 1..Len(s) : p[k] = s[i]
    BY <1>5, <1>8, PlacedIs
  <2> HIDE DEF p
  <2>2. Len(s) + 1 = n
    BY <1>1, <1>8
  <2>3. \E k \in 1..n : p[k] = b
    BY <1>8, <2>1, <2>2
  <2> QED  BY <1>5, <1>8, <2>1, <2>2, <2>3
<1> HIDE DEF p
<1>10. PICK i \in 1..n, j \in 1..n : p[i] = a /\ p[j] = b
  BY <1>9
<1>11. \A k \in 1..n : p[k] \in Int
  BY <1>9
<1>12. p[1] < p[n]
  <2>1. 1 \in 1..n /\ n \in 1..n /\ 1 <= i /\ j <= n
    BY <1>1
  <2>2. p[1] <= p[i] /\ p[j] <= p[n]
    BY <1>9, <2>1 DEF Sorted
  <2> QED  BY <1>5, <1>10, <1>11, <2>1, <2>2
<1>13. OneDay(p)
  <2>1. i # j
    BY <1>5, <1>10
  <2>2. CASE DayStart(b) = day
    BY <1>5, <1>9, <1>10, <2>1, <2>2 DEF OneDay
  <2>3. CASE b = a + 1 /\ b = day + Day
    <3>1. PICK k \in 1..Len(p) : k > 1 /\ p[k - 1] = p[i] /\ p[k] = p[i] + 1
      <4>1. i \in 1..Len(p) /\ j \in 1..Len(p) /\ p[j] = p[i] + 1
        BY <1>9, <1>10, <2>3
      <4> QED  BY <1>9, <4>1, NextTo
    <3>2. k - 1 \in 1..Len(p) /\ k - 1 # k /\ k = (k - 1) + 1
      BY <1>1, <1>9, <3>1
    <3>3. p[k] = DayStart(p[k - 1]) + Day
      BY <1>5, <1>10, <2>3, <3>1
    <3> QED  BY <3>2, <3>3 DEF OneDay
  <2> QED  BY <1>5, <2>2, <2>3
<1> QED  BY <1>2, <1>9, <1>12, <1>13 DEF n, upper

(***************************************************************************)
(* The lives of the subscribers.                                           *)
(***************************************************************************)
(* Thirty percent of a day, and five percent of that.                      *)
Runway == Ticks(25920)
FirstStep == Ticks(1296)

LEMMA RunwayIs == Runway \in Nat /\ FirstStep \in Nat /\ Part(Day, 30) = Runway
                    /\ Part(Runway, 5) = FirstStep /\ Runway <= Day
                    /\ Ticks(10) <= FirstStep /\ Ticks(60) <= FirstStep /\ Ticks(60) \in Nat
                    /\ FirstStep > 0
BY PerSecondPositive DEF Part, Day, Ticks, DaySeconds, Runway, FirstStep

(* What follows the first change: later and later, up to upper, the first  *)
(* of them twenty minutes after it at least, and a second one if two are   *)
(* asked for.                                                              *)
LEMMA DrawnIs ==
    ASSUME NEW first \in Int, NEW upper \in Int, upper - first >= Runway,
           NEW percents \in Seq(5..60)
    PROVE  LET d == Walk(first, upper, percents)
           IN  /\ d \in Seq(Int) /\ Rising(d)
               /\ \A i \in 1..Len(d) : first < d[i] /\ d[i] <= upper
               /\ Len(d) >= 1 => d[1] >= first + FirstStep
               /\ Len(percents) >= 1 => Len(d) >= 1
               /\ Len(percents) >= 2 => Len(d) >= 2
<1> DEFINE d == Walk(first, upper, percents)
           span == upper - first
<1>1. /\ span \in Nat /\ Runway <= span /\ first <= upper /\ span > Ticks(60)
  BY RunwayIs, PerSecondPositive DEF Ticks, Runway
<1>2. percents \in Seq(5..70) /\ Len(percents) \in Nat
  <2>1. 5..60 \subseteq 5..70
    OBVIOUS
  <2> QED  BY <2>1, SeqMonotonic, LenProperties
<1>3. PICK path :
             /\ Path(path, first, upper) /\ Walk(first, upper, percents) = Tail(path)
             /\ Len(path) <= Len(percents) + 1
             /\ Len(percents) >= 1 /\ upper - first > Ticks(60) =>
                  /\ Len(path) >= 2
                  /\ path[2] = first + Part(upper - first, percents[1])
             /\ Len(percents) >= 2 /\ upper - first > Ticks(60) /\ upper - path[2] > Ticks(60) =>
                  Len(path) >= 3
  BY <1>1, <1>2, WalkPath
<1>4. /\ path \in Seq(Int) /\ Len(path) \in Nat /\ Len(path) >= 1 /\ path[1] = first
      /\ Rising(path) /\ \A i \in 1..Len(path) : path[i] \in Int /\ path[i] <= upper
  BY <1>3 DEF Path
<1>5. /\ d \in Seq(Int) /\ Len(d) = Len(path) - 1
      /\ \A i \in 1..Len(path) - 1 : d[i] = path[i + 1]
  <2>1. path # << >>
    BY <1>4
  <2>2. d = Tail(path)
    BY <1>3
  <2> HIDE DEF d
  <2> QED  BY <1>4, <2>1, <2>2, HeadTailProperties
<1>6. /\ Len(percents) >= 1 => Len(path) >= 2 /\ path[2] = first + Part(span, percents[1])
      /\ Len(percents) >= 2 /\ upper - path[2] > Ticks(60) => Len(path) >= 3
  BY <1>1, <1>3
<1> HIDE DEF d, span
<1>7. Rising(d)
  <2> SUFFICES ASSUME NEW i \in 1..Len(d), NEW j \in 1..Len(d), i < j
               PROVE  d[i] < d[j]
    BY DEF Rising
  <2>1. /\ i + 1 \in 1..Len(path) /\ j + 1 \in 1..Len(path) /\ i + 1 < j + 1
        /\ i \in 1..Len(path) - 1 /\ j \in 1..Len(path) - 1
    BY <1>4, <1>5
  <2> QED  BY <1>4, <1>5, <2>1 DEF Rising
<1>8. ASSUME NEW i \in 1..Len(d) PROVE first < d[i] /\ d[i] <= upper
  <2>1. /\ i + 1 \in 1..Len(path) /\ 1 \in 1..Len(path) /\ 1 < i + 1
        /\ i \in 1..Len(path) - 1
    BY <1>4, <1>5
  <2> QED  BY <1>4, <1>5, <2>1 DEF Rising
<1>9. Len(percents) >= 1 =>
         /\ percents[1] \in 5..60
         /\ Part(span, percents[1]) \in Nat /\ Part(span, percents[1]) >= FirstStep
         /\ Part(span, percents[1]) <= Part(span, 60)
  <2> SUFFICES ASSUME Len(percents) >= 1
               PROVE  /\ percents[1] \in 5..60
                      /\ Part(span, percents[1]) \in Nat /\ Part(span, percents[1]) >= FirstStep
                      /\ Part(span, percents[1]) <= Part(span, 60)
    OBVIOUS
  <2> DEFINE p == percents[1]
  <2>1. p \in 5..60
    <3>1. 1 \in 1..Len(percents)
      BY <1>2
    <3> QED  BY <3>1, ElementOfSeq
  <2> HIDE DEF p
  <2>2. p \in 0..100 /\ p \in Nat /\ 5 <= p /\ p <= 60
    BY <2>1
  <2>3. Part(span, p) \in Nat
    BY <1>1, <2>2, Share
  <2>4. Part(Runway, 5) <= Part(span, p)
    BY <1>1, <2>2, ShareAtLeast, RunwayIs
  <2>5. Part(span, p) <= Part(span, 60)
    <3>1. 60 \in 0..100 /\ span <= span
      BY <1>1
    <3> QED  BY <1>1, <2>2, <3>1, ShareAtLeast
  <2>6. FirstStep <= Part(span, p)
    BY <2>4, RunwayIs
  <2> QED  BY <2>1, <2>3, <2>5, <2>6, RunwayIs DEF p
<1>10. Len(percents) >= 1 => Len(d) >= 1 /\ d[1] = first + Part(span, percents[1])
  BY <1>4, <1>5, <1>6
<1>11. Len(d) >= 1 => d[1] >= first + FirstStep
  <2>1. Len(d) >= 1 => Len(percents) >= 1
    BY <1>2, <1>3, <1>4, <1>5
  <2> QED  BY <1>9, <1>10, <2>1, RunwayIs
<1>12. Len(percents) >= 2 => Len(d) >= 2
  <2> SUFFICES ASSUME Len(percents) >= 2 PROVE Len(d) >= 2
    OBVIOUS
  <2>1. Len(percents) >= 1
    BY <1>2
  <2>2. Part(span, 60) \in Int /\ span - Part(span, 60) > Ticks(60)
    <3>1. Runway = 25920 * PerSecond /\ Ticks(60) = 60 * PerSecond
      BY DEF Ticks, Runway
    <3>2. Part(span, 60) = (span * 60) \div 100
      BY DEF Part
    <3> QED  BY <1>1, <3>1, <3>2, PerSecondPositive
  <2>3. path[2] = first + Part(span, percents[1]) /\ upper = first + span
    BY <1>4, <1>6, <2>1 DEF span
  <2>4. upper - path[2] > Ticks(60)
    BY <1>1, <1>9, <2>1, <2>2, <2>3, RunwayIs
  <2> QED  BY <1>4, <1>5, <1>6, <2>4
<1> QED  BY <1>5, <1>7, <1>8, <1>10, <1>11, <1>12 DEF d

LEMMA ConsIs ==
    ASSUME NEW T, NEW e \in T, NEW s \in Seq(T)
    PROVE  /\ << e >> \o s \in Seq(T) /\ Len(<< e >> \o s) = Len(s) + 1
           /\ (<< e >> \o s)[1] = e
           /\ \A i \in 1..Len(s) : (<< e >> \o s)[i + 1] = s[i]
           /\ \A k \in 1..Len(s) + 1 :
                k = 1 \/ (k - 1 \in 1..Len(s) /\ (<< e >> \o s)[k] = s[k - 1])
<1> DEFINE p == << e >> \o s
<1>1. << e >> \in Seq(T) /\ Len(<< e >>) = 1 /\ << e >>[1] = e
  OBVIOUS
<1>2. Len(s) \in Nat
  OBVIOUS
<1>3. /\ p \in Seq(T) /\ Len(p) = 1 + Len(s)
      /\ \A i \in 1..1 + Len(s) : p[i] = IF i <= 1 THEN << e >>[i] ELSE s[i - 1]
  <2> DEFINE one == << e >>
  <2>1. one \in Seq(T) /\ Len(one) = 1
    BY <1>1
  <2>2. p = one \o s
    OBVIOUS
  <2> HIDE DEF one, p
  <2>3. /\ p \in Seq(T) /\ Len(p) = Len(one) + Len(s)
        /\ \A i \in 1..Len(one) + Len(s) : p[i] = IF i <= Len(one) THEN one[i] ELSE s[i - Len(one)]
    BY <2>1, <2>2, ConcatProperties
  <2> QED  BY <2>1, <2>3 DEF one
<1> HIDE DEF p
<1>4. p[1] = e
  <2>1. 1 \in 1..1 + Len(s) /\ 1 <= 1
    BY <1>2
  <2>2. p[1] = << e >>[1]
    BY <1>3, <2>1, Zenon
  <2> QED  BY <1>1, <2>2
<1>5. ASSUME NEW i \in 1..Len(s) PROVE p[i + 1] = s[i]
  <2>1. i + 1 \in 1..1 + Len(s) /\ ~ (i + 1 <= 1) /\ (i + 1) - 1 = i
    BY <1>2
  <2>2. p[i + 1] = s[(i + 1) - 1]
    BY <1>3, <2>1, Zenon
  <2> QED  BY <2>1, <2>2
<1>6. ASSUME NEW k \in 1..Len(s) + 1, k # 1
      PROVE  k - 1 \in 1..Len(s) /\ p[k] = s[k - 1]
  <2>1. k - 1 \in 1..Len(s) /\ (k - 1) + 1 = k
    BY <1>2, <1>6
  <2>2. p[(k - 1) + 1] = s[k - 1]
    BY <1>5, <2>1
  <2> QED  BY <2>1, <2>2
<1>7. Len(p) = Len(s) + 1
  BY <1>2, <1>3
<1> QED  BY <1>3, <1>4, <1>5, <1>6, <1>7 DEF p

(* What the clocks of a run configuration have in common.                  *)
Clocks(c) == c.launch + 2 * DaySeconds <= c.now /\ c.now % DaySeconds = 0

(* The changes of a life: they start with a signup between the launch and  *)
(* a day before now, and end by now; but for a same-day subscriber they    *)
(* rise, by ten seconds at least for the first one.                        *)
LifeIs(c, life) ==
    LET changes == life.changes
        n == Len(life.changes)
    IN  /\ life.role \in {"late", "same_day", "soft", "hard", "plain"}
        /\ changes \in Seq(Int) /\ n >= 1
        /\ Ticks(c.launch) <= changes[1] /\ changes[1] <= Ticks(c.now) - Day
        /\ \A k \in 1..n : changes[k] <= Ticks(c.now)
        /\ life.role # "same_day" =>
             /\ Rising(changes)
             /\ n >= 2 => changes[2] - changes[1] >= Ticks(10)
        /\ life.role = "same_day" => OneDay(changes)
        /\ life.role = "soft" => n >= 2
        /\ n >= 3 => changes[2] < changes[n]

LEMMA ClocksAre ==
    ASSUME NEW c, DrawsInRange(c), Clocks(c)
    PROVE  /\ c.launch \in Nat /\ c.now \in Nat /\ Ticks(c.launch) \in Nat /\ Ticks(c.now) \in Nat
           /\ Ticks(c.launch) + 2 * Day <= Ticks(c.now)
           /\ \E q \in Int : Ticks(c.now) = q * Day
<1>1. c.launch \in Nat /\ c.now \in Nat
  BY DEF DrawsInRange
<1>2. Ticks(c.launch) \in Nat /\ Ticks(c.now) \in Nat
  BY <1>1, TicksInt
<1> DEFINE two == 2 * DaySeconds
<1>3. two \in Nat /\ c.launch + two <= c.now
  BY DEF Clocks, DaySeconds
<1>4. Ticks(two) = 2 * Day
  <2>1. DaySeconds \in Int
    BY DEF DaySeconds
  <2> DEFINE d == DaySeconds
  <2>2. (2 * d) * PerSecond = 2 * (d * PerSecond)
    <3> HIDE DEF d
    <3> QED  BY <2>1, PerSecondPositive DEF d
  <2> QED  BY <2>2 DEF Ticks, Day
<1>5. Ticks(c.launch + two) <= Ticks(c.now) /\ Ticks(c.launch + two) = Ticks(c.launch) + Ticks(two)
  <2> HIDE DEF two
  <2> DEFINE launch == c.launch
             now == c.now
  <2>1. launch \in Int /\ now \in Int /\ two \in Int /\ launch + two \in Int /\ launch + two <= now
    BY <1>1, <1>3
  <2> HIDE DEF launch, now
  <2>2. Ticks(launch + two) <= Ticks(now) /\ Ticks(launch + two) = Ticks(launch) + Ticks(two)
    BY <2>1, TicksOrder, TicksSum
  <2> QED  BY <2>2 DEF launch, now
<1>6. Ticks(c.launch) + 2 * Day <= Ticks(c.now)
  BY <1>4, <1>5
<1>7. \E q \in Int : Ticks(c.now) = q * Day
  <2> DEFINE now == c.now
             d == DaySeconds
             q == now \div d
  <2>1. d \in Nat /\ d >= 1 /\ now \in Nat /\ now % d = 0
    BY <1>1 DEF Clocks, DaySeconds
  <2>2. Day = d * PerSecond
    BY DayPositive
  <2>3. Ticks(now) = now * PerSecond
    BY DEF Ticks
  <2> HIDE DEF d, now
  <2>4. q \in Int /\ now = d * q + (now % d)
    BY <2>1
  <2> HIDE DEF q
  <2>5. now = q * d
    BY <2>1, <2>4
  <2>6. now * PerSecond = q * (d * PerSecond)
    BY <2>1, <2>4, <2>5, PerSecondPositive
  <2>7. Ticks(now) = q * Day
    BY <2>2, <2>3, <2>6, Zenon
  <2> QED  BY <2>4, <2>7 DEF now
<1> QED  BY <1>1, <1>2, <1>6, <1>7

LEMMA SignupAtIs ==
    ASSUME NEW c, DrawsInRange(c), Clocks(c), NEW percent \in c.signups
    PROVE  /\ SignupAt(c, percent) \in Int
           /\ Ticks(c.launch) <= SignupAt(c, percent)
           /\ SignupAt(c, percent) <= Ticks(c.now) - Day
<1>1. /\ c.launch \in Nat /\ c.now \in Nat /\ Ticks(c.launch) \in Nat /\ Ticks(c.now) \in Nat
      /\ Ticks(c.launch) + 2 * Day <= Ticks(c.now) /\ Day \in Nat /\ Day >= 1
  BY ClocksAre, DayPositive
<1> DEFINE span == Ticks(c.now - c.launch)
           a == Ticks(c.launch) + Part(span, percent)
           b == Ticks(c.now) - Day
<1>2. span = Ticks(c.now) - Ticks(c.launch)
  <2>1. c.now \in Int /\ c.launch \in Int
    BY <1>1
  <2> HIDE DEF span
  <2> QED  BY <2>1, TicksSum DEF span
<1>3. span \in Nat
  <2> HIDE DEF span
  <2> QED  BY <1>1, <1>2
<1>4. percent \in 0..100
  <2>1. percent \in 0..99
    BY DEF DrawsInRange
  <2> QED  BY <2>1
<1>5. Part(span, percent) \in Nat
  <2> HIDE DEF span
  <2> QED  BY <1>3, <1>4, Share
<1>6. a \in Int /\ b \in Int /\ Ticks(c.launch) <= a /\ Ticks(c.launch) <= b
  <2> HIDE DEF span
  <2> QED  BY <1>1, <1>5
<1>7. SignupAt(c, percent) = Min({a, b})
  BY DEF SignupAt, Part
<1>8. Min({a, b}) = (IF a <= b THEN a ELSE b)
  <2> HIDE DEF a, b
  <2> QED  BY <1>6, MinOfTwo
<1> HIDE DEF a
<1>9. SignupAt(c, percent) = (IF a <= b THEN a ELSE b)
  BY <1>7, <1>8
<1> QED  BY <1>1, <1>6, <1>9

LEMMA LifeOf ==
    ASSUME NEW c, DrawsInRange(c), Clocks(c),
           NEW role \in {"late", "same_day", "soft", "hard", "plain"},
           NEW signup \in c.signups,
           NEW delete_percent \in IF role = "hard" THEN c.delete_percents ELSE {0},
           NEW percents \in Seq(5..60), Len(percents) >= AtLeast(role),
           NEW x \in 0..Day - 1, NEW y \in 0..Day - 1
    PROVE  LET life == Life(c, role, SignupAt(c, signup), delete_percent, percents, {x, y})
           IN  LifeIs(c, life) /\ life.role = role
<1> DEFINE first == SignupAt(c, signup)
           now == Ticks(c.now)
           upper == IF role = "hard" THEN first + Part(now - first, delete_percent) ELSE now
           d == Walk(first, upper, percents)
           s == IF role = "same_day" /\ Len(d) >= 2 THEN SameDay(d, {x, y}) ELSE d
           changes == << first >> \o s
           life == Life(c, role, SignupAt(c, signup), delete_percent, percents, {x, y})
<1>1. /\ first \in Int /\ Ticks(c.launch) <= first /\ first <= now - Day
      /\ now \in Nat /\ Day \in Nat /\ Day >= Runway /\ Runway \in Nat
  BY SignupAtIs, ClocksAre, DayPositive, RunwayIs
<1>2. life = [role |-> role, changes |-> changes]
  BY DEF Life, Part
<1>3. life.role = role /\ life.changes = changes
  <2> HIDE DEF life, changes
  <2> QED  BY <1>2
<1> HIDE DEF first, now, life
<1>4. upper \in Int /\ upper - first >= Runway /\ upper <= now
  <2>1. CASE role # "hard"
    BY <1>1, <2>1
  <2>2. CASE role = "hard"
    <3> DEFINE span == now - first
               part == Part(span, delete_percent)
    <3>1. delete_percent \in 30..90
      BY <2>2 DEF DrawsInRange
    <3>2. span \in Nat /\ Day <= span
      BY <1>1
    <3> HIDE DEF span
    <3>3. part \in Nat /\ part <= span
      <4>1. delete_percent \in 0..100
        BY <3>1
      <4> QED  BY <3>2, <4>1, Share
    <3>4. Part(Day, 30) <= part
      <4>1. delete_percent \in 0..100 /\ 30 \in Nat /\ 30 <= delete_percent
        BY <3>1
      <4> QED  BY <1>1, <3>2, <4>1, ShareAtLeast
    <3>5. upper = first + part
      BY <2>2 DEF span
    <3> HIDE DEF part, upper
    <3> QED  BY <1>1, <3>3, <3>4, <3>5, RunwayIs DEF span
  <2> QED  BY <2>1, <2>2
<1> HIDE DEF upper
<1>5. /\ d \in Seq(Int) /\ Rising(d) /\ Len(d) \in Nat
      /\ \A i \in 1..Len(d) : first < d[i] /\ d[i] <= upper /\ d[i] \in Int
      /\ Len(d) >= 1 => d[1] >= first + FirstStep
      /\ Len(percents) >= 1 => Len(d) >= 1
      /\ Len(percents) >= 2 => Len(d) >= 2
  <2> DEFINE w == Walk(first, upper, percents)
  <2>1. /\ w \in Seq(Int) /\ Rising(w)
        /\ \A i \in 1..Len(w) : first < w[i] /\ w[i] <= upper
        /\ Len(w) >= 1 => w[1] >= first + FirstStep
        /\ Len(percents) >= 1 => Len(w) >= 1
        /\ Len(percents) >= 2 => Len(w) >= 2
    BY <1>1, <1>4, DrawnIs
  <2>2. d = w
    OBVIOUS
  <2> HIDE DEF w, d
  <2> QED  BY <2>1, <2>2
<1> HIDE DEF d
<1>6. Len(percents) \in Nat
  OBVIOUS
<1>7. role = "same_day" => Len(d) >= 2 /\ upper = now
  BY <1>5, <1>6 DEF AtLeast, upper
<1>8. role = "soft" => Len(d) >= 1
  BY <1>5, <1>6 DEF AtLeast
<1>9. ASSUME role = "same_day" PROVE LifeIs(c, life)
  <2>1. s = SameDay(d, {x, y}) /\ Len(d) >= 2
    BY <1>7, <1>9
  <2>2. PICK q \in Int : now = q * Day
    BY ClocksAre DEF now
  <2>3. \A i \in 1..Len(d) : d[i] <= q * Day
    BY <1>5, <1>7, <1>9, <2>2
  <2> HIDE DEF s
  <2>4. /\ s \in Seq(Int) /\ Len(s) = Len(d)
        /\ \A k \in 1..Len(d) : s[k] <= now
        /\ s[1] < s[Len(d)] /\ OneDay(s)
    <3> DEFINE z == SameDay(d, {x, y})
    <3>1. /\ z \in Seq(Int) /\ Len(z) = Len(d)
          /\ \A k \in 1..Len(d) : z[k] <= q * Day
          /\ z[1] < z[Len(d)] /\ OneDay(z)
      BY <1>5, <2>1, <2>3, SameDayIs
    <3>2. s = z
      BY <2>1
    <3> HIDE DEF z
    <3> QED  BY <2>2, <3>1, <3>2
  <2> DEFINE ch == << first >> \o s
  <2>5. /\ ch \in Seq(Int) /\ Len(ch) = Len(s) + 1 /\ ch[1] = first
        /\ \A i \in 1..Len(s) : ch[i + 1] = s[i]
        /\ \A k \in 1..Len(s) + 1 : k = 1 \/ (k - 1 \in 1..Len(s) /\ ch[k] = s[k - 1])
    BY <1>1, <2>4, ConsIs
  <2>6. changes = ch
    OBVIOUS
  <2> HIDE DEF ch, changes
  <2>7. OneDay(ch)
    <3>1. PICK j \in 1..Len(s), k \in 1..Len(s) :
            /\ j # k
            /\ \/ DayStart(s[j]) = DayStart(s[k])
               \/ k = j + 1 /\ s[k] = DayStart(s[j]) + Day
      BY <2>4 DEF OneDay
    <3>2. /\ j + 1 \in 1..Len(ch) /\ k + 1 \in 1..Len(ch) /\ j + 1 # k + 1
          /\ k = j + 1 => k + 1 = (j + 1) + 1
      BY <1>5, <2>4, <2>5, <3>1
    <3>3. ch[j + 1] = s[j] /\ ch[k + 1] = s[k]
      BY <2>5
    <3> QED  BY <3>1, <3>2, <3>3 DEF OneDay
  <2>8. \A k \in 1..Len(ch) : ch[k] <= now
    <3> TAKE k \in 1..Len(ch)
    <3>1. CASE k = 1
      BY <1>1, <2>5, <3>1
    <3>2. CASE k # 1
      BY <2>4, <2>5, <3>2
    <3> QED  BY <3>1, <3>2
  <2>9. Len(ch) >= 3 => ch[2] < ch[Len(ch)]
    <3>1. Len(s) \in Nat /\ 1 \in 1..Len(s) /\ Len(s) \in 1..Len(s)
      BY <2>1, <2>4
    <3>2. ch[1 + 1] = s[1] /\ ch[Len(s) + 1] = s[Len(s)]
      BY <2>5, <3>1
    <3> QED  BY <2>4, <2>5, <3>1, <3>2
  <2>10. Len(ch) >= 1
    BY <1>5, <2>4, <2>5
  <2> QED  BY <1>1, <1>3, <1>9, <2>5, <2>6, <2>7, <2>8, <2>9, <2>10 DEF LifeIs, now
<1>10. ASSUME role # "same_day" PROVE LifeIs(c, life)
  <2> DEFINE ch == << first >> \o d
  <2>5. /\ ch \in Seq(Int) /\ Len(ch) = Len(d) + 1 /\ ch[1] = first
        /\ \A i \in 1..Len(d) : ch[i + 1] = d[i]
        /\ \A k \in 1..Len(d) + 1 : k = 1 \/ (k - 1 \in 1..Len(d) /\ ch[k] = d[k - 1])
    BY <1>1, <1>5, ConsIs
  <2>6. changes = ch
    BY <1>10
  <2> HIDE DEF ch, changes
  <2>7. \A k \in 1..Len(ch) : ch[k] \in Int /\ ch[k] <= now
    <3> TAKE k \in 1..Len(ch)
    <3>1. CASE k = 1
      BY <1>1, <2>5, <3>1
    <3>2. CASE k # 1
      <4>1. k \in 1..Len(d) + 1
        BY <2>5
      <4>2. k - 1 \in 1..Len(d) /\ ch[k] = d[k - 1]
        BY <2>5, <3>2, <4>1, Zenon
      <4> QED  BY <1>1, <1>4, <1>5, <4>2
    <3> QED  BY <3>1, <3>2
  <2>8. ASSUME NEW i \in 1..Len(ch), NEW j \in 1..Len(ch), i < j
        PROVE  ch[i] < ch[j]
    <3>1. j - 1 \in 1..Len(d) /\ ch[j] = d[j - 1]
      <4>1. j \in 1..Len(d) + 1 /\ j # 1
        BY <1>5, <2>5, <2>8
      <4> QED  BY <2>5, <4>1, Zenon
    <3>2. CASE i = 1
      BY <1>5, <2>5, <3>1, <3>2
    <3>3. CASE i # 1
      <4>1. i - 1 \in 1..Len(d) /\ ch[i] = d[i - 1] /\ i - 1 < j - 1
        BY <1>5, <2>5, <2>8, <3>3
      <4> QED  BY <1>5, <3>1, <4>1 DEF Rising
    <3> QED  BY <3>2, <3>3
  <2>9. Len(ch) >= 2 => ch[2] - ch[1] >= Ticks(10)
    <3> SUFFICES ASSUME Len(ch) >= 2 PROVE ch[2] - ch[1] >= Ticks(10)
      OBVIOUS
    <3>1. 1 \in 1..Len(d) /\ 1 + 1 = 2
      BY <1>5, <2>5
    <3>2. ch[2] = d[1] /\ d[1] \in Int /\ d[1] >= first + FirstStep
      BY <1>5, <2>5, <3>1
    <3>3. Ticks(10) \in Int
      BY TicksInt
    <3> QED  BY <1>1, <2>5, <3>2, <3>3, RunwayIs
  <2>10. Len(ch) >= 3 => ch[2] < ch[Len(ch)]
    BY <1>5, <2>5, <2>8
  <2>11. role = "soft" => Len(ch) >= 2
    BY <1>5, <1>8, <2>5
  <2>12. Rising(ch)
    BY <2>8 DEF Rising
  <2>13. Len(ch) >= 1
    BY <1>5, <2>5
  <2> QED  BY <1>1, <1>3, <1>10, <2>5, <2>6, <2>7, <2>9, <2>10, <2>11, <2>12, <2>13 DEF LifeIs, now
<1> QED  BY <1>3, <1>9, <1>10 DEF life

LEMMA LivesAre ==
    ASSUME NEW c, DrawsInRange(c), Clocks(c),
           NEW role \in {"late", "same_day", "soft", "hard", "plain"},
           NEW life \in Lives(c, role)
    PROVE  LifeIs(c, life) /\ life.role = role
<1> DEFINE D == IF role = "hard" THEN c.delete_percents ELSE {0}
           P == UNION {[1..Max({count, AtLeast(role)}) -> c.step_percents] : count \in c.follow_ons}
           Q == IF role = "same_day" THEN {{a, b} : a, b \in c.times_of_day} ELSE {{0}}
<1> DEFINE All == {Life(c, role, SignupAt(c, signup), delete_percent, percents, times) :
                      signup \in c.signups, delete_percent \in D, percents \in P, times \in Q}
<1>1. life \in All
  <2>1. Lives(c, role) = All
    BY DEF Lives
  <2> HIDE DEF All
  <2> QED  BY <2>1
<1>2. ASSUME NEW p \in P PROVE p \in Seq(5..60) /\ Len(p) >= AtLeast(role)
  <2>1. PICK count \in c.follow_ons : p \in [1..Max({count, AtLeast(role)}) -> c.step_percents]
    OBVIOUS
  <2> HIDE DEF P, D, Q
  <2>2. count \in Nat /\ AtLeast(role) \in Nat
    BY DEF DrawsInRange, AtLeast
  <2> DEFINE n == Max({count, AtLeast(role)})
  <2>3. n \in Nat /\ n >= AtLeast(role)
    <3>1. n = IF count >= AtLeast(role) THEN count ELSE AtLeast(role)
      BY <2>2, MaxOfTwo
    <3> HIDE DEF n
    <3> QED  BY <2>2, <3>1
  <2>4. p \in [1..n -> c.step_percents]
    BY <2>1
  <2>5. c.step_percents \subseteq 5..60
    BY DEF DrawsInRange
  <2> HIDE DEF n
  <2>6. p \in [1..n -> 5..60]
    BY <2>4, <2>5
  <2> QED  BY <2>3, <2>6
<1>3. ASSUME NEW times \in Q PROVE \E x, y \in 0..Day - 1 : times = {x, y}
  <2>1. CASE role = "same_day"
    <3>1. c.times_of_day \subseteq 0..Day - 1
      BY DEF DrawsInRange
    <3> QED  BY <2>1, <3>1
  <2>2. CASE role # "same_day"
    <3>1. 0 \in 0..Day - 1 /\ times = {0, 0}
      BY <2>2, DayPositive
    <3> QED  BY <3>1
  <2> QED  BY <2>1, <2>2
<1>7. ASSUME NEW delete_percent \in D
      PROVE  delete_percent \in IF role = "hard" THEN c.delete_percents ELSE {0}
  OBVIOUS
<1> HIDE DEF D, P, Q, All
<1>8. PICK signup \in c.signups, delete_percent \in D, percents \in P, times \in Q :
        life = Life(c, role, SignupAt(c, signup), delete_percent, percents, times)
  BY <1>1 DEF All
<1>4. PICK x \in 0..Day - 1, y \in 0..Day - 1 : times = {x, y}
  BY <1>3, Zenon
<1> DEFINE l == Life(c, role, SignupAt(c, signup), delete_percent, percents, {x, y})
<1>5. LifeIs(c, l) /\ l.role = role
  <2>1. percents \in Seq(5..60) /\ Len(percents) >= AtLeast(role)
    BY <1>2
  <2>2. delete_percent \in IF role = "hard" THEN c.delete_percents ELSE {0}
    BY <1>7
  <2> QED  BY <2>1, <2>2, LifeOf
<1>6. life = l
  BY <1>4, <1>8
<1> HIDE DEF l
<1> QED  BY <1>5, <1>6

LEMMA RolesAre == ToSet(Roles) = {"late", "same_day", "soft", "hard", "plain"}
<1>1. /\ Roles[1] = "late" /\ Roles[2] = "same_day" /\ Roles[3] = "soft" /\ Roles[4] = "hard"
      /\ Roles[5] = "plain" /\ DOMAIN Roles = 1..5
  BY DEF Roles
<1>2. \A i \in 1..5 : i = 1 \/ i = 2 \/ i = 3 \/ i = 4 \/ i = 5
  OBVIOUS
<1>3. ToSet(Roles) = {Roles[i] : i \in 1..5}
  BY <1>1 DEF ToSet
<1>4. 1 \in 1..5 /\ 2 \in 1..5 /\ 3 \in 1..5 /\ 4 \in 1..5 /\ 5 \in 1..5
  OBVIOUS
<1> QED  BY <1>1, <1>2, <1>3, <1>4

(* In whole seconds: a life starts after the launch, a day before now at   *)
(* the latest, and a hard-deleted one ends when it starts at the earliest. *)
LEMMA LifeSeconds ==
    ASSUME NEW c, DrawsInRange(c), Clocks(c), NEW life, LifeIs(c, life)
    PROVE  /\ Lower(life) \in Int /\ Upper(c, life) \in Int
           /\ c.launch <= Lower(life) /\ Lower(life) + 2 <= c.now
           /\ Lower(life) <= Upper(c, life) /\ Upper(c, life) <= c.now
           /\ Signup(life) = life.changes[1]
           /\ life.role = "hard" => /\ HardDeleteAt(life) = life.changes[Len(life.changes)]
                                    /\ Ticks(Upper(c, life)) <= HardDeleteAt(life)
                                    /\ HardDeleteAt(life) \in Int
<1> DEFINE ch == life.changes
           n == Len(ch)
           now == c.now
           launch == c.launch
           first == ch[1]
           last == ch[n]
<1>1. /\ ch \in Seq(Int) /\ n >= 1 /\ n \in Nat
      /\ \A k \in 1..n : ch[k] \in Int /\ ch[k] <= Ticks(now)
      /\ Ticks(launch) <= first /\ first <= Ticks(now) - Day
      /\ life.role # "same_day" => Rising(ch)
  BY DEF LifeIs
<1>2. /\ launch \in Nat /\ now \in Nat /\ Ticks(launch) \in Nat /\ Ticks(now) \in Nat
      /\ Day \in Nat
  BY ClocksAre, DayPositive
<1>3. Signup(life) = first /\ HardDeleteAt(life) = last
  BY <1>1 DEF Signup, HardDeleteAt, Last
<1>4. first \in Int /\ last \in Int /\ last <= Ticks(now)
  <2>1. 1 \in 1..n /\ n \in 1..n
    BY <1>1
  <2> QED  BY <1>1, <2>1
<1>5. life.role = "hard" => first <= last
  <2>1. 1 \in 1..n /\ n \in 1..n /\ (n = 1 \/ 1 < n)
    <3> HIDE DEF n
    <3> QED  BY <1>1
  <2>2. life.role = "hard" => Rising(ch)
    BY <1>1
  <2> QED  BY <1>1, <1>4, <2>1, <2>2 DEF Rising
<1>6. Lower(life) = EpochSecond(first)
  BY <1>3 DEF Lower
<1>7. Upper(c, life) = IF life.role = "hard" THEN EpochSecond(last) ELSE now
  BY <1>3 DEF Upper
<1> HIDE DEF ch, n, now, launch, first, last
<1>8. EpochSecond(first) \in Int /\ EpochSecond(last) \in Int
  BY <1>4, SecondOf
<1>9. launch <= EpochSecond(first)
  BY <1>1, <1>2, <1>4, SecondOrder
<1>10. EpochSecond(first) + 2 <= now
  <2> DEFINE early == now - 2
  <2>1. early \in Int
    BY <1>2
  <2>2. ~ (early + 1 <= EpochSecond(first))
    <3>1. early + 1 \in Int
      BY <2>1
    <3>2. Ticks(early + 1) = Ticks(now) - PerSecond
      <4>1. early + 1 = now - 1 /\ now \in Int /\ 1 \in Int
        BY <1>2
      <4>2. Ticks(now - 1) = Ticks(now) - Ticks(1)
        BY <4>1, TicksSum
      <4>3. Ticks(1) = PerSecond
        BY PerSecondPositive DEF Ticks
      <4> QED  BY <4>1, <4>2, <4>3
    <3>3. PerSecond < Day
      BY DayPositive, PerSecondPositive DEF DaySeconds
    <3>4. ~ (Ticks(early + 1) <= first)
      BY <1>1, <1>2, <1>4, <3>2, <3>3, PerSecondPositive
    <3> HIDE DEF early
    <3> QED  BY <1>4, <3>1, <3>4, SecondOrder
  <2> QED  BY <1>2, <1>8, <2>1, <2>2
<1>11. EpochSecond(last) <= now
  <2>1. EpochSecond(last) <= EpochSecond(Ticks(now))
    BY <1>2, <1>4, SecondMonotone
  <2>2. EpochSecond(Ticks(now)) = now
    BY <1>2, SecondOfTicks
  <2> QED  BY <2>1, <2>2
<1>12. life.role = "hard" => EpochSecond(first) <= EpochSecond(last)
  BY <1>4, <1>5, SecondMonotone
<1>13. Ticks(EpochSecond(last)) <= last
  BY <1>4, SecondOf
<1> QED  BY <1>2, <1>3, <1>4, <1>6, <1>7, <1>8, <1>9, <1>10, <1>11, <1>12, <1>13
         DEF now, launch, first, last, ch, n

(***************************************************************************)
(* The gaps facts are put into.                                            *)
(***************************************************************************)
LEMMA CandidatesAre ==
    ASSUME NEW n \in Nat, NEW lives, DOMAIN lives = 1..n,
           NEW k \in DOMAIN Candidates(lives)
    PROVE  \E i \in 1..n :
              /\ Candidates(lives)[k] = Candidate(i, lives[i])
              /\ Len(lives[i].changes) >= 3
<1> DEFINE all == [i \in 1..n |-> Candidate(i, lives[i])]
           T == {Candidate(i, lives[i]) : i \in 1..n}
           S == {i \in 1..n : Len(lives[i].changes) >= 3}
<1>1. all \in Seq(T) /\ DOMAIN all = 1..n
  <2>1. \A i \in 1..n : Candidate(i, lives[i]) \in T
    OBVIOUS
  <2> HIDE DEF T
  <2> QED  BY <2>1
<1>2. Candidates(lives) = Picked(all, S)
  BY DEF Candidates
<1>3. S \in SUBSET DOMAIN all
  BY <1>1
<1>4. \A i \in 1..n : all[i] = Candidate(i, lives[i])
  OBVIOUS
<1>5. \A i \in S : i \in 1..n /\ Len(lives[i].changes) >= 3
  OBVIOUS
<1> HIDE DEF all, S, T
<1>6. PICK i \in S : Picked(all, S)[k] = all[i]
  BY <1>1, <1>2, <1>3, PickedHas
<1> QED  BY <1>2, <1>4, <1>5, <1>6

LEMMA CandidatesSeq ==
    ASSUME NEW n \in Nat, NEW lives, DOMAIN lives = 1..n
    PROVE  Candidates(lives) \in Seq({Candidate(i, lives[i]) : i \in 1..n})
<1> DEFINE all == [i \in 1..n |-> Candidate(i, lives[i])]
           T == {Candidate(i, lives[i]) : i \in 1..n}
           S == {i \in 1..n : Len(lives[i].changes) >= 3}
<1>1. all \in Seq(T) /\ DOMAIN all = 1..n
  <2>1. \A i \in 1..n : Candidate(i, lives[i]) \in T
    OBVIOUS
  <2> HIDE DEF T
  <2> QED  BY <2>1
<1>2. Candidates(lives) = Picked(all, S)
  BY DEF Candidates
<1>3. S \in SUBSET DOMAIN all
  BY <1>1
<1> HIDE DEF all, S
<1> QED  BY <1>1, <1>2, <1>3, PickedSeq

(* A gap of a life that goes on after it, whatever fact is put into it:    *)
(* the fact lies inside of the life, and strictly inside of the gap unless *)
(* that is shorter than ten seconds or runs backwards, which only same-day *)
(* changes make; then it lies within eight seconds of the signup.          *)
LEMMA InTheGap ==
    ASSUME NEW c, DrawsInRange(c), Clocks(c), NEW life, LifeIs(c, life),
           Len(life.changes) >= 3, NEW from, NEW to, NEW newer, NEW u \in 10..89,
           from = life.changes[1], to = life.changes[2], newer = Last(life.changes)
    PROVE  LET sec == EpochSecond(from)
               at == sec + Part(Max({EpochSecond(to) - sec, 2}), u)
           IN  /\ at \in Int /\ Lower(life) <= at /\ at <= c.now
               /\ life.role = "hard" => Ticks(at) <= HardDeleteAt(life)
               /\ to < newer
               /\ IF to - from >= Ticks(10)
                  THEN from < Ticks(at) /\ Ticks(at) < to
                  ELSE life.role = "same_day" /\ sec <= at /\ at <= sec + 8
<1> DEFINE ch == life.changes
           n == Len(ch)
           lo == EpochSecond(from)
           hi == EpochSecond(to)
           span == Max({hi - lo, 2})
           part == Part(span, u)
           at == lo + part
           now == c.now
<1>1. /\ ch \in Seq(Int) /\ n \in Nat /\ n >= 3 /\ \A k \in 1..n : ch[k] <= Ticks(now)
      /\ life.role # "same_day" => Rising(ch) /\ ch[2] - ch[1] >= Ticks(10)
      /\ ch[2] < ch[n]
  BY DEF LifeIs
<1>2. /\ from = ch[1] /\ to = ch[2] /\ newer = ch[n]
      /\ from \in Int /\ to \in Int /\ newer \in Int /\ to <= Ticks(now)
  <2>1. 1 \in 1..n /\ 2 \in 1..n /\ n \in 1..n
    <3> HIDE DEF n
    <3> QED  BY <1>1
  <2> QED  BY <1>1, <2>1 DEF Last
<1>3. /\ now \in Int /\ Ticks(now) \in Int /\ Lower(life) = lo
      /\ lo + 2 <= now
      /\ life.role = "hard" => HardDeleteAt(life) = newer
  BY <1>2, ClocksAre, LifeSeconds DEF Lower
<1>4. to < newer /\ (life.role # "same_day" => to - from >= Ticks(10))
  BY <1>1, <1>2
<1>5. /\ lo \in Int /\ Ticks(lo) \in Int /\ Ticks(lo) <= from /\ from < Ticks(lo) + PerSecond
      /\ hi \in Int /\ Ticks(hi) \in Int /\ Ticks(hi) <= to /\ to < Ticks(hi) + PerSecond
  BY <1>2, SecondOf, TicksInt
<1>6. hi <= now
  <2>1. hi <= EpochSecond(Ticks(now))
    BY <1>2, <1>3, SecondMonotone
  <2> QED  BY <1>3, <2>1, SecondOfTicks
<1> HIDE DEF lo, hi, now, ch, n
<1>7. span = (IF hi - lo >= 2 THEN hi - lo ELSE 2) /\ span \in Nat /\ span >= 2
  <2>1. hi - lo \in Int /\ 2 \in Int
    BY <1>5
  <2>2. Max({hi - lo, 2}) = (IF hi - lo >= 2 THEN hi - lo ELSE 2)
    <3> DEFINE z == hi - lo
    <3>1. Max({z, 2}) = (IF z >= 2 THEN z ELSE 2)
      <4> HIDE DEF z
      <4> QED  BY <2>1, MaxOfTwo DEF z
    <3> QED  BY <3>1
  <2> QED  BY <1>5, <2>1, <2>2
<1> HIDE DEF span
<1>8. part \in Nat /\ part < span
  <2>1. u \in 0..100 /\ u < 100
    OBVIOUS
  <2>2. span \in Nat /\ span > 0
    BY <1>7
  <2>3. Part(span, u) \in Nat /\ (u < 100 /\ span > 0 => Part(span, u) < span)
    BY <2>1, <2>2, Share
  <2> QED  BY <2>1, <2>2, <2>3
<1>9. (span >= 10 => part >= 1) /\ (span <= 10 => part <= 8)
  <2>1. ASSUME span >= 10 PROVE part >= 1
    <3>1. u \in 0..100 /\ 10 \in Nat /\ 10 <= u /\ 10 <= span
      BY <2>1
    <3>2. Part(10, 10) <= Part(span, u)
      BY <1>7, <3>1, ShareAtLeast
    <3>3. Part(10, 10) = 1
      BY DEF Part
    <3> QED  BY <1>8, <3>2, <3>3
  <2>2. ASSUME span <= 10 PROVE part <= 8
    <3>1. u \in Nat /\ 89 \in 0..100 /\ 10 \in Nat /\ u <= 89 /\ span <= 10
      BY <2>2
    <3>2. Part(span, u) <= Part(10, 89)
      BY <1>7, <3>1, ShareAtLeast
    <3>3. Part(10, 89) = 8
      BY DEF Part
    <3> QED  BY <1>8, <3>2, <3>3
  <2> QED  BY <2>1, <2>2
<1> HIDE DEF part
<1>10. /\ at \in Int /\ lo <= at /\ at < lo + span /\ (span >= 10 => lo + 1 <= at)
       /\ at - lo = part
  BY <1>5, <1>7, <1>8, <1>9
<1> HIDE DEF at
<1>11. at < hi \/ at <= lo + 1
  BY <1>5, <1>7, <1>10
<1>12. at <= now
  BY <1>3, <1>5, <1>6, <1>10, <1>11
<1>13. /\ Ticks(at) \in Int /\ Ticks(lo) <= Ticks(at)
       /\ at < hi => Ticks(at) + PerSecond <= Ticks(hi)
       /\ at <= lo + 1 => Ticks(at) <= Ticks(lo) + PerSecond
  <2>1. Ticks(at) \in Int /\ Ticks(lo) <= Ticks(at)
    BY <1>5, <1>10, TicksInt, TicksOrder
  <2>2. at < hi => Ticks(at) + PerSecond <= Ticks(hi)
    BY <1>5, <1>10, TicksOrder
  <2>3. at <= lo + 1 => Ticks(at) <= Ticks(lo) + PerSecond
    <3> DEFINE m == lo + 1
    <3>1. m \in Int /\ Ticks(m) = Ticks(lo) + Ticks(1) /\ Ticks(1) = PerSecond
      BY <1>5, TicksSum, PerSecondPositive DEF Ticks
    <3>2. at <= m => Ticks(at) <= Ticks(m)
      <4> HIDE DEF m
      <4> QED  BY <1>10, <3>1, TicksOrder
    <3> QED  BY <3>1, <3>2
  <2> QED  BY <2>1, <2>2, <2>3
<1>14. ASSUME to - from >= Ticks(10)
       PROVE  from < Ticks(at) /\ Ticks(at) < to /\ Ticks(at) <= Ticks(hi)
  <2>1. Ticks(hi) + PerSecond > Ticks(lo) + Ticks(10) /\ Ticks(10) \in Int
    <3>1. Ticks(10) \in Int
      <4>1. 10 \in Int
        OBVIOUS
      <4> QED  BY <4>1, TicksInt
    <3> QED  BY <1>2, <1>5, <1>14, <3>1, PerSecondPositive
  <2>2. hi >= lo + 10
    <3> DEFINE m == lo + 10
    <3>1. m \in Int /\ Ticks(m) = Ticks(lo) + Ticks(10) /\ Ticks(m) \in Int
      <4>1. m \in Int /\ 10 \in Int /\ lo \in Int
        BY <1>5
      <4>2. Ticks(lo + 10) = Ticks(lo) + Ticks(10)
        BY <4>1, TicksSum
      <4>3. Ticks(m) \in Int
        <5> HIDE DEF m
        <5> QED  BY <4>1, TicksInt
      <4> QED  BY <4>1, <4>2, <4>3
    <3>2. hi < m => Ticks(hi) + PerSecond <= Ticks(m)
      <4> HIDE DEF m
      <4> QED  BY <1>5, <3>1, TicksOrder
    <3>3. ~ (hi < m)
      <4> HIDE DEF m
      <4> QED  BY <1>5, <2>1, <3>1, <3>2, PerSecondPositive
    <3> QED  BY <1>5, <3>1, <3>3
  <2>3. span = hi - lo /\ span >= 10
    BY <1>5, <1>7, <2>2
  <2>4. at < hi /\ lo + 1 <= at
    BY <1>5, <1>10, <2>3
  <2>5. Ticks(lo) + PerSecond <= Ticks(at)
    <3>1. lo < at
      BY <1>5, <1>10, <2>4
    <3> QED  BY <1>5, <1>10, <3>1, TicksOrder
  <2> QED  BY <1>2, <1>5, <1>13, <2>4, <2>5, PerSecondPositive
<1>15. ASSUME ~ (to - from >= Ticks(10))
       PROVE  life.role = "same_day" /\ lo <= at /\ at <= lo + 8
  <2>1. hi <= lo + 10
    <3> DEFINE m == lo + 10
    <3>1. m \in Int /\ Ticks(m) = Ticks(lo) + Ticks(10) /\ Ticks(m) \in Int /\ Ticks(10) \in Int
      <4>1. lo \in Int /\ 10 \in Int
        BY <1>5
      <4>2. Ticks(lo + 10) = Ticks(lo) + Ticks(10) /\ Ticks(10) \in Int
        BY <4>1, TicksSum, TicksInt
      <4> QED  BY <1>5, <4>1, <4>2
    <3>2. m < hi => Ticks(m) + PerSecond <= Ticks(hi)
      <4> HIDE DEF m
      <4> QED  BY <1>5, <3>1, TicksOrder
    <3>3. ~ (m < hi)
      <4>1. to < from + Ticks(10)
        BY <1>2, <1>15, <3>1
      <4>2. Ticks(hi) < Ticks(m) + PerSecond
        <5> DEFINE x == Ticks(lo)
                   y == Ticks(hi)
                   z == Ticks(10)
                   w == Ticks(m)
        <5>1. /\ x \in Int /\ y \in Int /\ z \in Int /\ w = x + z
              /\ y <= to /\ to < from + z /\ from < x + PerSecond
          BY <1>5, <3>1, <4>1
        <5> HIDE DEF m, x, y, z, w
        <5>2. y < w + PerSecond
          BY <1>2, <5>1, PerSecondPositive
        <5> QED  BY <5>2 DEF y, w
      <4> HIDE DEF m
      <4> QED  BY <1>5, <3>1, <3>2, <4>2, PerSecondPositive
    <3> QED  BY <1>5, <3>1, <3>3
  <2>2. span <= 10
    BY <1>5, <1>7, <2>1
  <2>3. part <= 8
    BY <2>2, <1>9
  <2> QED  BY <1>4, <1>5, <1>8, <1>10, <1>15, <2>3
<1>16. life.role = "hard" => Ticks(at) <= HardDeleteAt(life)
  <2> SUFFICES ASSUME life.role = "hard" PROVE Ticks(at) <= HardDeleteAt(life)
    OBVIOUS
  <2>1. to - from >= Ticks(10)
    BY <1>4
  <2>2. Ticks(at) < to
    BY <1>14, <2>1
  <2> QED  BY <1>2, <1>3, <1>4, <1>13, <2>2
<1> QED  BY <1>3, <1>4, <1>10, <1>12, <1>14, <1>15, <1>16 DEF at, lo, part, span, hi, now

(***************************************************************************)
(* Titles enter the catalog a buffer before the launch at the latest.      *)
(***************************************************************************)
LEMMA TitlesAre ==
    ASSUME NEW c, DrawsInRange(c), Clocks(c),
           c.catalog_seed_buffer + c.catalog_seed_lead_time <= c.launch,
           NEW stream \in TitleStreams(c)
    PROVE  Head(stream) \in Int /\ Head(stream) <= Ticks(c.launch - c.catalog_seed_buffer)
<1> DEFINE P == UNION {[1..count -> c.title_step_percents] : count \in c.follow_ons}
           All == {<< CatalogAddAt(c, percent) >>
                      \o Walk(CatalogAddAt(c, percent), Ticks(c.now), percents) :
                       percent \in c.signups, percents \in P}
           launch == c.launch
           buffer == c.catalog_seed_buffer
           lead == c.catalog_seed_lead_time
           end == Ticks(launch - buffer)
           start == end - Ticks(lead)
<1>1. stream \in All
  <2>1. TitleStreams(c) = All
    BY DEF TitleStreams
  <2> HIDE DEF All
  <2> QED  BY <2>1
<1>2. ASSUME NEW p \in P PROVE p \in Seq(5..70)
  <2>1. PICK count \in c.follow_ons : p \in [1..count -> c.title_step_percents]
    OBVIOUS
  <2> HIDE DEF P, All
  <2>2. count \in Nat /\ c.title_step_percents \subseteq 5..70
    <3>1. c.title_step_percents \subseteq 10..70 /\ c.follow_ons \subseteq Nat
      BY DEF DrawsInRange
    <3>2. 10..70 \subseteq 5..70
      OBVIOUS
    <3> QED  BY <3>1, <3>2
  <2>3. p \in [1..count -> 5..70]
    BY <2>1, <2>2
  <2> QED  BY <2>2, <2>3
<1> HIDE DEF P
<1>3. PICK percent \in c.signups, percents \in P :
        stream = << CatalogAddAt(c, percent) >> \o Walk(CatalogAddAt(c, percent), Ticks(c.now), percents)
  BY <1>1
<1> HIDE DEF All
<1>4. /\ launch \in Nat /\ buffer \in Nat /\ lead \in Nat /\ launch - buffer \in Int
      /\ Ticks(launch) <= Ticks(c.now) /\ Ticks(c.now) \in Int /\ Ticks(launch) \in Int
  <2>1. launch \in Nat /\ buffer \in Nat /\ lead \in Nat
    BY DEF DrawsInRange
  <2>2. Ticks(launch) + 2 * Day <= Ticks(c.now) /\ Day \in Nat /\ Ticks(c.now) \in Int
        /\ Ticks(launch) \in Int
    BY ClocksAre, DayPositive
  <2> HIDE DEF launch, buffer, lead
  <2> QED  BY <2>1, <2>2
<1>5. end \in Int /\ start \in Int /\ end - start \in Nat /\ end <= Ticks(launch)
  <2> HIDE DEF launch, buffer, lead
  <2>1. Ticks(lead) \in Nat
    BY <1>4, TicksInt
  <2>2. end \in Int
    BY <1>4, TicksInt
  <2>3. end <= Ticks(launch)
    <3>1. launch - buffer <= launch /\ launch \in Int
      BY <1>4
    <3> QED  BY <1>4, <3>1, TicksOrder
  <2> HIDE DEF end
  <2> QED  BY <2>1, <2>2, <2>3
<1> DEFINE at == CatalogAddAt(c, percent)
           part == Part(end - start, percent)
<1>6. at = Min({start + part, end})
  BY DEF CatalogAddAt, Part
<1>7. at \in Int /\ at <= end
  <2>1. part \in Nat
    <3>1. percent \in 0..99
      BY DEF DrawsInRange
    <3>2. percent \in 0..100
      BY <3>1
    <3> DEFINE z == end - start
    <3>3. z \in Nat
      BY <1>5
    <3> HIDE DEF z
    <3>4. Part(z, percent) \in Nat
      BY <3>2, <3>3, Share
    <3> QED  BY <3>4 DEF z
  <2> HIDE DEF part, end, start, at
  <2>2. start + part \in Int
    BY <1>5, <2>1
  <2>3. Min({start + part, end}) = (IF start + part <= end THEN start + part ELSE end)
    BY <1>5, <2>2, MinOfTwo
  <2> QED  BY <1>5, <1>6, <2>2, <2>3
<1> HIDE DEF at, end, start, part
<1>8. PICK path : Path(path, at, Ticks(c.now)) /\ Walk(at, Ticks(c.now), percents) = Tail(path)
  <2> DEFINE upper == Ticks(c.now)
  <2>1. at <= upper /\ upper \in Int /\ at \in Int
    BY <1>4, <1>5, <1>7
  <2>2. percents \in Seq(5..70)
    BY <1>2
  <2> HIDE DEF upper
  <2>3. PICK path :
             /\ Path(path, at, upper) /\ Walk(at, upper, percents) = Tail(path)
             /\ Len(path) <= Len(percents) + 1
             /\ Len(percents) >= 1 /\ upper - at > Ticks(60) =>
                  /\ Len(path) >= 2
                  /\ path[2] = at + Part(upper - at, percents[1])
             /\ Len(percents) >= 2 /\ upper - at > Ticks(60) /\ upper - path[2] > Ticks(60) =>
                  Len(path) >= 3
    BY <2>1, <2>2, WalkPath
  <2> QED  BY <2>3 DEF upper
<1>9. Tail(path) \in Seq(Int)
  <2>1. path \in Seq(Int) /\ Len(path) >= 1
    BY <1>8 DEF Path
  <2>2. path # << >>
    BY <2>1
  <2> QED  BY <2>1, <2>2, HeadTailProperties
<1>10. stream = << at >> \o Tail(path)
  BY <1>3, <1>8 DEF at
<1>11. Head(stream) = at
  <2> DEFINE t == Tail(path)
             p == << at >> \o t
  <2>1. t \in Seq(Int)
    BY <1>9
  <2> HIDE DEF t
  <2>2. p[1] = at
    BY <1>7, <2>1, ConsIs
  <2>3. stream = p
    BY <1>10 DEF t
  <2> HIDE DEF p
  <2> QED  BY <2>2, <2>3
<1> QED  BY <1>7, <1>11 DEF end, launch, buffer

(***************************************************************************)
(* Streams written one after the other: nothing of any of them is lost.    *)
(***************************************************************************)
Flattened(f, n, seqs) == f = [i \in 1..n |-> IF i = 1 THEN seqs[i] ELSE f[i - 1] \o seqs[i]]

LEMMA FlattenedExists ==
    ASSUME NEW seqs, NEW n \in Nat
    PROVE  \E f : Flattened(f, n, seqs)
<1> DEFINE Wrong == {m \in Nat : ~ \E f : Flattened(f, m, seqs)}
<1>1. Wrong = {}
  <2> SUFFICES ASSUME Wrong # {} PROVE FALSE
    OBVIOUS
  <2>1. PICK m \in Wrong : \A x \in Wrong : m <= x
    <3>1. Wrong \in SUBSET Nat
      OBVIOUS
    <3> HIDE DEF Wrong
    <3> QED  BY <3>1, LeastOf
  <2>2. m \in Nat /\ ~ \E f : Flattened(f, m, seqs)
    OBVIOUS
  <2>3. m # 0
    <3> SUFFICES ASSUME m = 0 PROVE FALSE
      OBVIOUS
    <3> DEFINE f == [k \in 1..m |-> seqs[k]]
    <3>0. 1..m = {}
      OBVIOUS
    <3>1. Flattened(f, m, seqs)
      BY <3>0 DEF Flattened
    <3> QED  BY <2>2, <3>1
  <2>4. m - 1 \in Nat /\ m - 1 \notin Wrong
    <3>1. m - 1 \in Nat /\ ~ (m <= m - 1)
      BY <2>2, <2>3
    <3> HIDE DEF Wrong
    <3> QED  BY <2>1, <3>1
  <2>5. PICK f : Flattened(f, m - 1, seqs)
    BY <2>4
  <2> DEFINE more == [k \in 1..m |-> IF k = m THEN (IF k = 1 THEN seqs[k] ELSE f[m - 1] \o seqs[k])
                                     ELSE f[k]]
  <2>6. \A k \in 1..m : k # m => k \in 1..m - 1
    BY <2>2
  <2>7. \A k \in 1..m - 1 : f[k] = IF k = 1 THEN seqs[k] ELSE f[k - 1] \o seqs[k]
    BY <2>5 DEF Flattened
  <2>8. ASSUME NEW k \in 1..m
        PROVE  more[k] = IF k = 1 THEN seqs[k] ELSE more[k - 1] \o seqs[k]
    <3>0. k # 1 => k - 1 \in 1..m /\ k - 1 # m
      BY <2>2
    <3>1. CASE k = m
      <4>1. k # 1 => more[m - 1] = f[m - 1]
        BY <3>0, <3>1
      <4> QED  BY <3>1, <4>1
    <3>2. CASE k # m
      <4>1. k \in 1..m - 1 /\ more[k] = f[k]
        BY <2>6, <3>2
      <4>3. k # 1 => more[k - 1] = f[k - 1]
        BY <3>0
      <4> QED  BY <2>7, <4>1, <4>3
    <3> QED  BY <3>1, <3>2
  <2>9. Flattened(more, m, seqs)
    <3>1. more = [k \in 1..m |-> more[k]]
      OBVIOUS
    <3> HIDE DEF more
    <3> QED  BY <2>8, <3>1 DEF Flattened
  <2> QED  BY <2>2, <2>9
<1> QED  BY <1>1

LEMMA FlattenHas ==
    ASSUME NEW T, NEW seqs \in Seq(Seq(T)), NEW i \in 1..Len(seqs), NEW j \in 1..Len(seqs[i])
    PROVE  /\ FlattenSeq(seqs) \in Seq(T)
           /\ \E k \in 1..Len(FlattenSeq(seqs)) : FlattenSeq(seqs)[k] = seqs[i][j]
<1> DEFINE n == Len(seqs)
           f == CHOOSE g : Flattened(g, n, seqs)
<1>1. n \in Nat /\ n # 0 /\ \A k \in 1..n : seqs[k] \in Seq(T)
  OBVIOUS
<1>2. Flattened(f, n, seqs)
  <2>1. \E g : Flattened(g, n, seqs)
    BY <1>1, FlattenedExists
  <2> QED  BY <2>1
<1>3. FlattenSeq(seqs) = f[n]
  BY <1>1 DEF FlattenSeq, Flattened
<1> HIDE DEF f, n
<1>4. \A k \in 1..n : f[k] = IF k = 1 THEN seqs[k] ELSE f[k - 1] \o seqs[k]
  BY <1>2 DEF Flattened
<1> DEFINE Ok(k) == /\ f[k] \in Seq(T)
                    /\ i <= k => \E l \in 1..Len(f[k]) : f[k][l] = seqs[i][j]
           Wrong == {k \in 1..n : ~ Ok(k)}
<1>5. Wrong = {}
  <2> SUFFICES ASSUME Wrong # {} PROVE FALSE
    OBVIOUS
  <2>1. PICK k \in Wrong : \A x \in Wrong : k <= x
    <3>1. Wrong \in SUBSET Nat
      BY <1>1
    <3> HIDE DEF Wrong
    <3> QED  BY <3>1, LeastOf
  <2>2. k \in 1..n /\ ~ Ok(k) /\ i \in 1..n
    BY DEF n
  <2>3. CASE k = 1
    <3>1. f[k] = seqs[k] /\ (i <= k => i = k) /\ seqs[k] \in Seq(T)
      BY <1>1, <1>4, <2>2, <2>3
    <3> QED  BY <2>2, <3>1
  <2>4. CASE k # 1
    <3>1. k - 1 \in 1..n /\ ~ (k <= k - 1)
      BY <1>1, <2>2, <2>4
    <3>2. Ok(k - 1)
      <4> HIDE DEF Ok
      <4> QED  BY <2>1, <3>1
    <3> DEFINE a == f[k - 1]
               b == seqs[k]
               p == a \o b
    <3>3. f[k] = p
      BY <1>4, <2>2, <2>4
    <3>4. a \in Seq(T) /\ b \in Seq(T)
      BY <1>1, <2>2, <3>2
    <3>5. i <= k - 1 => \E l \in 1..Len(a) : a[l] = seqs[i][j]
      BY <3>2
    <3>6. i = k => b[j] = seqs[i][j] /\ j \in 1..Len(b)
      OBVIOUS
    <3> HIDE DEF a, b
    <3>7. /\ p \in Seq(T) /\ Len(p) = Len(a) + Len(b)
          /\ \A l \in 1..Len(a) + Len(b) : p[l] = IF l <= Len(a) THEN a[l] ELSE b[l - Len(a)]
      BY <3>4, ConcatProperties
    <3>8. Len(a) \in Nat /\ Len(b) \in Nat
      BY <3>4
    <3> HIDE DEF p
    <3>9. CASE i <= k - 1
      <4>1. PICK l \in 1..Len(a) : a[l] = seqs[i][j]
        BY <3>5, <3>9
      <4>2. l \in 1..Len(p) /\ l \in 1..Len(a) + Len(b) /\ l <= Len(a)
        BY <3>7, <3>8
      <4>3. p[l] = a[l]
        BY <3>7, <4>2, Zenon
      <4>4. Ok(k)
        BY <3>3, <3>7, <4>1, <4>2, <4>3
      <4> QED  BY <2>2, <4>4
    <3>10. CASE i = k
      <4>1. b[j] = seqs[i][j] /\ j \in 1..Len(b)
        BY <3>6, <3>10
      <4> DEFINE l == Len(a) + j
      <4>2. l \in 1..Len(p) /\ l \in 1..Len(a) + Len(b) /\ ~ (l <= Len(a)) /\ l - Len(a) = j
        BY <3>7, <3>8, <4>1
      <4> HIDE DEF l
      <4>3. p[l] = b[j]
        BY <3>7, <4>2, Zenon
      <4>4. Ok(k)
        BY <3>3, <3>7, <4>1, <4>2, <4>3
      <4> QED  BY <2>2, <4>4
    <3>11. CASE i > k
      <4>1. ~ (i <= k)
        BY <1>1, <2>2, <3>11
      <4>2. Ok(k)
        BY <3>3, <3>7, <4>1
      <4> QED  BY <2>2, <4>2
    <3>12. i <= k - 1 \/ i = k \/ i > k
      BY <1>1, <2>2
    <3> QED  BY <3>9, <3>10, <3>11, <3>12
  <2> QED  BY <2>3, <2>4
<1>6. Ok(n)
  <2>1. n \in 1..n
    BY <1>1
  <2> HIDE DEF Ok
  <2> QED  BY <1>5, <2>1
<1>7. i <= n
  BY DEF n
<1> QED  BY <1>3, <1>6, <1>7
=============================================================================
