---------------------------- MODULE LayoutProofs ----------------------------
(***************************************************************************)
(* Proofs about Layout: the class table, where blocks lie and which memory *)
(* stays mapped, for any sizes of words, pages, headers, slabs and classes. *)
(***************************************************************************)
EXTENDS Layout, FiniteSetTheorems, TLAPS

-----------------------------------------------------------------------------
(* Arithmetic *)

\* Division rounds down.
LEMMA DivBounds ==
  ASSUME NEW x \in Nat, NEW a \in Nat \ {0}
  PROVE  /\ x \div a \in Nat
         /\ (x \div a) * a <= x
         /\ x < (x \div a) * a + a
OBVIOUS

\* Multiples are a apart, and division undoes the product.
LEMMA Multiples ==
  ASSUME NEW i \in Nat, NEW j \in Nat, NEW a \in Nat \ {0}
  PROVE  /\ i < j => i * a + a <= j * a
         /\ i * a < j * a + a => i <= j
         /\ (i * a) \div a = i
         /\ (i * a) % a = 0
OBVIOUS

\* A number without remainder is a multiple.
LEMMA Whole ==
  ASSUME NEW x \in Nat, NEW a \in Nat \ {0}, x % a = 0
  PROVE  x = (x \div a) * a
OBVIOUS

\* Arithmetic modulo w below w, and with one wrap.
LEMMA Unwrapped ==
  ASSUME NEW w \in Nat \ {0}, NEW x \in Nat
  PROVE  /\ x % w \in 0 .. w - 1
         /\ x < w => x % w = x
         /\ w <= x /\ x < w + w => x % w = x - w
OBVIOUS

\* A multiple has no remainder.
LEMMA IntMultiple ==
  ASSUME NEW k \in Int, NEW a \in Nat \ {0}
  PROVE  (k * a) % a = 0
OBVIOUS

\* Sums and differences of multiples are multiples.
LEMMA SumsAligned ==
  ASSUME NEW x \in Nat, NEW y \in Nat, NEW a \in Nat \ {0}, x % a = 0, y % a = 0
  PROVE  (x + y) % a = 0 /\ (x - y) % a = 0
<1>. DEFINE p == x \div a
            q == y \div a
<1>1. p \in Nat /\ q \in Nat /\ x = p * a /\ y = q * a
  BY Whole, DivBounds
<1>. HIDE DEF p, q
<1>2. x + y = (p + q) * a /\ x - y = (p - q) * a
  BY <1>1
<1>3. p + q \in Int /\ p - q \in Int
  BY <1>1
<1> QED BY <1>2, <1>3, IntMultiple

\* A multiple of a multiple of b is one of b.
LEMMA ProductsAligned ==
  ASSUME NEW i \in Nat, NEW a \in Nat \ {0}, NEW b \in Nat \ {0}, a % b = 0
  PROVE  (i * a) % b = 0
<1>. DEFINE q == a \div b
            n == i * q
<1>1. q \in Nat /\ a = q * b
  BY Whole, DivBounds
<1>. HIDE DEF q
<1>2. n \in Int /\ i * a = n * b
  BY <1>1
<1>. HIDE DEF n
<1> QED BY <1>2, IntMultiple

\* Divisibility is transitive.
LEMMA ChainAligned ==
  ASSUME NEW x \in Nat, NEW a \in Nat \ {0}, NEW b \in Nat \ {0},
         x % a = 0, a % b = 0
  PROVE  x % b = 0
<1>. DEFINE p == x \div a
<1>1. p \in Nat /\ x = p * a
  BY Whole, DivBounds
<1>. HIDE DEF p
<1>2. (p * a) % b = 0
  BY <1>1, ProductsAligned, Zenon
<1> QED BY <1>1, <1>2

(***************************************************************************)
(* align_up rounds up to the next multiple, if the sum does not wrap.      *)
(***************************************************************************)
LEMMA AlignUpRounds ==
  ASSUME NEW x \in Nat, NEW a \in Nat \ {0}, x + a <= Word, Word \in Nat \ {0}
  PROVE  /\ AlignUp(x, a) = ((x + a - 1) \div a) * a
         /\ AlignUp(x, a) \in Nat
         /\ x <= AlignUp(x, a)
         /\ AlignUp(x, a) < x + a
         /\ AlignUp(x, a) % a = 0
<1>1. (x + a - 1) % Word = x + a - 1
  <2>1. x + a - 1 \in Nat /\ x + a - 1 < Word
    OBVIOUS
  <2> QED BY <2>1, Unwrapped
<1>2. AlignUp(x, a) = ((x + a - 1) \div a) * a
  BY <1>1 DEF AlignUp
<1>. DEFINE q == (x + a - 1) \div a
<1>3. q \in Nat /\ q * a <= x + a - 1 /\ x + a - 1 < q * a + a
  <2>1. x + a - 1 \in Nat
    OBVIOUS
  <2> QED BY <2>1, DivBounds
<1>4. (q * a) % a = 0
  BY <1>3, Multiples
<1>. HIDE DEF q
<1>5. q * a \in Nat
  BY <1>3
<1> QED BY <1>2, <1>3, <1>4, <1>5 DEF q

(***************************************************************************)
(* A multiple is rounded to itself.                                        *)
(***************************************************************************)
LEMMA AlignUpWhole ==
  ASSUME NEW x \in Nat, NEW a \in Nat \ {0}, x + a <= Word, Word \in Nat \ {0},
         x % a = 0
  PROVE  AlignUp(x, a) = x
<1>. DEFINE q == AlignUp(x, a) \div a
            p == x \div a
<1>1. /\ AlignUp(x, a) \in Nat /\ x <= AlignUp(x, a) /\ AlignUp(x, a) < x + a
      /\ AlignUp(x, a) = q * a /\ x = p * a
      /\ q \in Nat /\ p \in Nat
  BY AlignUpRounds, Whole, DivBounds
<1>. HIDE DEF p, q
<1>2. q <= p /\ p <= q
  BY <1>1, Multiples
<1> QED BY <1>1, <1>2

(***************************************************************************)
(* A total behind the last page boundary is rounded to zero.               *)
(***************************************************************************)
LEMMA AlignUpWraps ==
  ASSUME NEW x \in Nat, NEW a \in Nat \ {0}, Word \in Nat \ {0},
         a <= Word, x < Word, x + a > Word
  PROVE  AlignUp(x, a) = 0
<1>. DEFINE z == x + a - 1
<1>1. z \in Nat /\ Word <= z /\ z < Word + Word /\ z - Word < a
  OBVIOUS
<1>2. AlignUp(x, a) = ((z % Word) \div a) * a
  BY DEF AlignUp
<1>. HIDE DEF z
<1>3. z % Word = z - Word
  BY <1>1, Unwrapped
<1>4. z - Word \in Nat
  BY <1>1
<1>5. (z - Word) \div a = 0
  BY <1>1, <1>4
<1> QED BY <1>2, <1>3, <1>5

\* Whatever wraps, align_up gives a multiple below the word.
LEMMA AlignUpNat ==
  ASSUME NEW x \in Nat, NEW a \in Nat \ {0}, Word \in Nat \ {0}
  PROVE  AlignUp(x, a) \in Nat /\ AlignUp(x, a) < Word /\ AlignUp(x, a) % a = 0
<1>. DEFINE y == (x + a - 1) % Word
            q == y \div a
<1>1. y \in Nat /\ y < Word
  BY Unwrapped
<1>2. q \in Nat /\ q * a <= y
  BY <1>1, DivBounds
<1>3. AlignUp(x, a) = q * a
  BY DEF AlignUp
<1>. HIDE DEF q, y
<1>4. q * a \in Nat /\ (q * a) % a = 0
  BY <1>2, Multiples
<1> QED BY <1>1, <1>2, <1>3, <1>4

-----------------------------------------------------------------------------
(* The class table *)

T1 == Thresholds[1]
T2 == Thresholds[2]
T3 == Thresholds[3]
A1 == Alignments[1]
A2 == Alignments[2]
A3 == Alignments[3]
N1 == ClassCount(1)
N2 == ClassCount(2)
N3 == ClassCount(3)

\* The class with index k, as the formula has it.
Nth(k) ==
  IF k < N1 THEN (k + 1) * A1
  ELSE IF k < N1 + N2 THEN T1 + (k - N1 + 1) * A2
  ELSE T2 + (k - N1 - N2 + 1) * A3

\* The difference of two multiples, by division.
LEMMA Differences ==
  ASSUME NEW x \in Nat, NEW y \in Nat, NEW a \in Nat \ {0}, x <= y,
         x % a = 0, y % a = 0
  PROVE  y - x = ((y - x) \div a) * a
<1>. DEFINE p == x \div a
            q == y \div a
<1>1. x = p * a /\ y = q * a /\ p \in Nat /\ q \in Nat
  BY Whole, DivBounds
<1>. HIDE DEF p, q
<1>2. p <= q
  BY <1>1, Multiples
<1>. DEFINE d == q - p
<1>3. d \in Nat /\ y - x = d * a
  BY <1>1, <1>2
<1>. HIDE DEF d
<1>4. (d * a) \div a = d
  BY <1>3, Multiples
<1> QED BY <1>3, <1>4

\* The sizes that are not zero.
LEMMA Words == Word \in Nat \ {0} /\ Page \in Nat \ {0} /\ SlabSize \in Nat \ {0}
BY LayoutAssumption

\* What the assumptions say of the thresholds, step by step.
LEMMA TableFacts ==
  /\ T1 \in Nat /\ T2 \in Nat /\ T3 \in Nat
  /\ A1 \in Nat \ {0} /\ A2 \in Nat \ {0} /\ A3 \in Nat \ {0}
  /\ 2 <= T1 /\ T1 < T2 /\ T2 < T3
  /\ T1 + A1 < SlabSize /\ T2 + A2 < SlabSize /\ T3 + A3 < SlabSize
  /\ SlabSize < Word
  /\ T1 % A2 = 0 /\ T2 % A3 = 0
  /\ N1 \in Nat /\ N2 \in Nat /\ N3 \in Nat
  /\ T1 = N1 * A1 /\ T2 = T1 + N2 * A2 /\ T3 = T2 + N3 * A3
<1>1. /\ T1 \in Nat /\ T2 \in Nat /\ T3 \in Nat
      /\ A1 \in Nat \ {0} /\ A2 \in Nat \ {0} /\ A3 \in Nat \ {0}
      /\ 2 <= T1
  BY TableAssumption DEF T1, T2, T3, A1, A2, A3
<1>2. /\ T1 < T2 /\ T2 < T3
      /\ T1 + A1 < SlabSize /\ T2 + A2 < SlabSize /\ T3 + A3 < SlabSize
  BY TableAssumption DEF T1, T2, T3, A1, A2, A3
<1>3. /\ T1 % A1 = 0 /\ T2 % A2 = 0 /\ T3 % A3 = 0
      /\ T1 % A2 = 0 /\ T2 % A3 = 0
  BY TableAssumption DEF T1, T2, T3, A1, A2, A3
<1>4. SlabSize < Word
  BY LayoutAssumption
<1>5. /\ N1 = (T1 - 0) \div A1
      /\ N2 = (T2 - T1) \div A2
      /\ N3 = (T3 - T2) \div A3
  BY DEF N1, N2, N3, T1, T2, T3, A1, A2, A3, ClassCount, Below
<1>6. T1 - 0 = T1 /\ T2 - T1 \in Nat /\ T3 - T2 \in Nat
  BY <1>1, <1>2
<1>7. N1 \in Nat /\ N2 \in Nat /\ N3 \in Nat
  BY <1>1, <1>5, <1>6, DivBounds
<1>8. T1 = N1 * A1
  BY <1>1, <1>3, <1>5, <1>6, Whole
<1>9. T2 - T1 = N2 * A2
  <2>1. T1 <= T2
    BY <1>1, <1>2
  <2>2. T2 - T1 = ((T2 - T1) \div A2) * A2
    BY <1>1, <1>3, <2>1, Differences
  <2> QED BY <2>2, <1>5
<1>10. T3 - T2 = N3 * A3
  <2>1. T2 <= T3
    BY <1>1, <1>2
  <2>2. T3 - T2 = ((T3 - T2) \div A3) * A3
    BY <1>1, <1>3, <2>1, Differences
  <2> QED BY <2>2, <1>5
<1>11. T2 = T1 + N2 * A2
  BY <1>1, <1>9
<1>12. T3 = T2 + N3 * A3
  BY <1>1, <1>10
<1> QED BY <1>1, <1>2, <1>3, <1>4, <1>7, <1>8, <1>11, <1>12

\* class_size finds the bound of a size.
LEMMA Bounds ==
  ASSUME NEW s \in Nat
  PROVE  BoundOf(s) = IF s <= T1 THEN 1 ELSE IF s <= T2 THEN 2 ELSE 3
<1>. DEFINE b == IF s <= T1 THEN 1 ELSE IF s <= T2 THEN 2 ELSE 3
            P(i) == /\ s <= Thresholds[i] \/ i = 3
                    /\ \A j \in 1 .. i - 1 : s > Thresholds[j]
<1>0. /\ T1 \in Nat /\ T2 \in Nat /\ T3 \in Nat
      /\ T1 = Thresholds[1] /\ T2 = Thresholds[2] /\ T3 = Thresholds[3]
      /\ T1 < T2
  BY TableFacts DEF T1, T2, T3
<1>1. b \in 1..3 /\ P(b)
  BY <1>0
<1>2. ASSUME NEW i \in 1..3, P(i) PROVE i = b
  <2>1. CASE i = 1
    BY <1>0, <1>2, <2>1
  <2>2. CASE i = 2
    <3>1. s <= T2 /\ 1 \in 1 .. i - 1
      BY <1>0, <1>2, <2>2
    <3> QED BY <1>0, <1>2, <2>2, <3>1
  <2>3. CASE i = 3
    <3>1. 1 \in 1 .. i - 1 /\ 2 \in 1 .. i - 1
      BY <2>3
    <3> QED BY <1>0, <1>2, <2>3, <3>1
  <2> QED BY <2>1, <2>2, <2>3
<1>3. BoundOf(s) = CHOOSE i \in 1..3 : P(i)
  BY DEF BoundOf
<1>. HIDE DEF P, b
<1>4. (CHOOSE i \in 1..3 : P(i)) = b
  BY <1>1, <1>2
<1> QED BY <1>3, <1>4 DEF b

(***************************************************************************)
(* In a range above low, of n classes at distance a.                       *)
(***************************************************************************)
LEMMA Part ==
  ASSUME NEW low \in Nat, NEW a \in Nat \ {0}, NEW n \in Nat, low % a = 0,
         NEW s \in Nat, low < s, s <= low + n * a, low + n * a + a <= Word
  PROVE  \E k \in 0 .. n - 1 :
           /\ AlignUp(s, a) = low + (k + 1) * a
           /\ (AlignUp(s, a) - low) \div a = k + 1
           /\ s <= AlignUp(s, a)
           /\ s + a > AlignUp(s, a)
<1>. DEFINE p == low \div a
            q == AlignUp(s, a) \div a
            k == q - p - 1
<1>0. Word \in Nat \ {0} /\ s + a <= Word
  BY Words
<1>1. /\ p \in Nat /\ low = p * a
      /\ q \in Nat /\ AlignUp(s, a) = q * a
      /\ s <= AlignUp(s, a) /\ AlignUp(s, a) < s + a
  <2>1. p \in Nat /\ low = p * a
    BY Whole, DivBounds
  <2>2. /\ AlignUp(s, a) \in Nat /\ AlignUp(s, a) % a = 0
        /\ s <= AlignUp(s, a) /\ AlignUp(s, a) < s + a
    BY <1>0, AlignUpRounds
  <2>3. q \in Nat /\ AlignUp(s, a) = q * a
    BY <2>2, Whole, DivBounds
  <2> QED BY <2>1, <2>2, <2>3
<1>. HIDE DEF p, q
<1>2. p < q
  <2>1. p * a < q * a
    BY <1>1
  <2>2. ~(q * a + a <= p * a) /\ p * a # q * a
    BY <2>1, <1>1
  <2> QED BY <2>2, <1>1, Multiples
<1>3. q <= p + n
  <2>1. q * a < p * a + n * a + a
    BY <1>1
  <2>2. q * a < (p + n) * a + a
    BY <2>1, <1>1
  <2> QED BY <2>2, <1>1, Multiples
<1>4. k \in 0 .. n - 1 /\ k + 1 = q - p /\ k + 1 \in Nat
  BY <1>1, <1>2, <1>3
<1>5. q * a - p * a = (k + 1) * a
  BY <1>1, <1>4
<1>. HIDE DEF k
<1>6. AlignUp(s, a) - low = (k + 1) * a /\ AlignUp(s, a) = low + (k + 1) * a
  BY <1>1, <1>4, <1>5
<1>7. ((k + 1) * a) \div a = k + 1
  BY <1>4, Multiples
<1> QED BY <1>1, <1>4, <1>6, <1>7

N == N1 + N2 + N3

\* The lowest size above, the distance and the number of the classes of a bound.
Low(i) == IF i = 1 THEN 0 ELSE IF i = 2 THEN T1 ELSE T2
Step(i) == IF i = 1 THEN A1 ELSE IF i = 2 THEN A2 ELSE A3
Count(i) == IF i = 1 THEN N1 ELSE IF i = 2 THEN N2 ELSE N3
First(i) == IF i = 1 THEN 0 ELSE IF i = 2 THEN N1 ELSE N1 + N2

(***************************************************************************)
(* The three bounds, alike.                                                *)
(***************************************************************************)
LEMMA Bound ==
  ASSUME NEW i \in 1..3
  PROVE  /\ Low(i) \in Nat /\ Step(i) \in Nat \ {0}
         /\ Count(i) \in Nat /\ First(i) \in Nat
         /\ Low(i) % Step(i) = 0
         /\ Thresholds[i] = Low(i) + Count(i) * Step(i)
         /\ Low(i) + Count(i) * Step(i) + Step(i) < Word
         /\ Thresholds[i] \in 2 .. T3 /\ T3 < Word
         /\ First(i) + Count(i) <= N
         /\ Alignments[i] = Step(i)
         /\ Below(i) = Low(i)
<1>0. 0 % A1 = 0 /\ T3 < Word
  <2>1. 0 = 0 * A1 /\ 0 \in Nat
    BY TableFacts
  <2>2. (0 * A1) % A1 = 0
    BY <2>1, TableFacts, Multiples
  <2> QED BY <2>1, <2>2, TableFacts, Words
<1>1. CASE i = 1
  <2>1. 0 + N1 * A1 = T1
    BY TableFacts
  <2>2. T1 + A1 < Word
    BY TableFacts, Words
  <2> QED BY <1>0, <1>1, <2>1, <2>2, TableFacts
          DEF Low, Step, Count, First, N, Below, T1, A1
<1>2. CASE i = 2
  <2>2. T2 + A2 < Word
    BY TableFacts, Words
  <2> QED BY <1>0, <1>2, <2>2, TableFacts
          DEF Low, Step, Count, First, N, Below, T2, A2, T1
<1>3. CASE i = 3
  <2>2. T3 + A3 < Word
    BY TableFacts, Words
  <2> QED BY <1>0, <1>3, <2>2, TableFacts
          DEF Low, Step, Count, First, N, Below, T3, A3, T2
<1> QED BY <1>1, <1>2, <1>3

(***************************************************************************)
(* The sizes of a bound.                                                   *)
(***************************************************************************)
LEMMA Covered ==
  ASSUME NEW s \in 1 .. T3
  PROVE  /\ BoundOf(s) \in 1..3
         /\ Low(BoundOf(s)) < s /\ s <= Thresholds[BoundOf(s)]
<1>1. s \in Nat
  BY TableFacts
<1>2. BoundOf(s) = IF s <= T1 THEN 1 ELSE IF s <= T2 THEN 2 ELSE 3
  BY <1>1, Bounds
<1> QED BY <1>2, TableFacts DEF Low, T1, T2, T3

\* A size between the ends of a bound is of that bound.
LEMMA OnlyBound ==
  ASSUME NEW i \in 1..3, NEW s \in Nat, Low(i) < s, s <= Thresholds[i]
  PROVE  BoundOf(s) = i
<1>2. BoundOf(s) = IF s <= T1 THEN 1 ELSE IF s <= T2 THEN 2 ELSE 3
  BY Bounds
<1> QED BY <1>2, TableFacts DEF Low, T1, T2, T3

\* The class with the k-th index of a bound.
LEMMA NthIs ==
  ASSUME NEW i \in 1..3, NEW k \in 0 .. Count(i) - 1
  PROVE  Nth(First(i) + k) = Low(i) + (k + 1) * Step(i)
<1>1. N1 \in Nat /\ N2 \in Nat /\ N3 \in Nat /\ k \in Nat
  BY TableFacts, Bound
<1>2. CASE i = 1
  BY <1>1, <1>2, TableFacts DEF Nth, First, Low, Step, Count
<1>3. CASE i = 2
  <2>1. /\ (N1 + k) - N1 + 1 = k + 1
        /\ ~(N1 + k < N1) /\ N1 + k < N1 + N2
    BY <1>1, <1>3 DEF Count
  <2>2. Nth(N1 + k) = T1 + (k + 1) * A2
    <3>1. \A x, y : ~(x < N1) /\ x < N1 + N2 /\ x - N1 + 1 = y
                   => Nth(x) = T1 + y * A2
      BY Zenon DEF Nth
    <3> QED BY <2>1, <3>1, Zenon
  <2> QED BY <1>3, <2>1, <2>2 DEF First, Low, Step
<1>4. CASE i = 3
  <2>1. /\ (N1 + N2 + k) - N1 - N2 + 1 = k + 1
        /\ ~(N1 + N2 + k < N1) /\ ~(N1 + N2 + k < N1 + N2)
    BY <1>1, <1>4 DEF Count
  <2>2. Nth(N1 + N2 + k) = T2 + (k + 1) * A3
    <3>1. \A x, y : ~(x < N1) /\ ~(x < N1 + N2) /\ x - N1 - N2 + 1 = y
                   => Nth(x) = T2 + y * A3
      BY Zenon DEF Nth
    <3> QED BY <2>1, <3>1, Zenon
  <2> QED BY <1>4, <2>1, <2>2 DEF First, Low, Step
<1> QED BY <1>2, <1>3, <1>4

\* The index of a size, by its bound.
LEMMA IndexIs ==
  ASSUME NEW s \in Nat
  PROVE  LET t == AtLeast(s, 1)
         IN  /\ t \in Nat \ {0}
             /\ class_index_for_size(s) = class_index_for_size(t)
             /\ BoundOf(t) \in 1..3 =>
                  class_index_for_size(t) =
                    First(BoundOf(t)) +
                      (AlignUp(t, Step(BoundOf(t))) - Low(BoundOf(t)))
                         \div Step(BoundOf(t)) - 1
<1>. DEFINE t == AtLeast(s, 1)
<1>1. t \in Nat \ {0} /\ AtLeast(t, 1) = t
  BY DEF AtLeast
<1>. HIDE DEF t
<1>2. class_index_for_size(s) = class_index_for_size(t)
  BY <1>1 DEF class_index_for_size, t
<1>3. ASSUME BoundOf(t) \in 1..3
      PROVE  class_index_for_size(t) =
               First(BoundOf(t)) +
                 (AlignUp(t, Step(BoundOf(t))) - Low(BoundOf(t)))
                    \div Step(BoundOf(t)) - 1
  <2>. DEFINE i == BoundOf(t)
              d == (AlignUp(t, Alignments[i]) - Below(i)) \div Alignments[i] - 1
  <2>1. Alignments[i] = Step(i) /\ Below(i) = Low(i)
    BY <1>3, Bound
  <2>2. class_index_for_size(t) =
          (IF i = 1 THEN 0 ELSE ClassCount(1)) + (IF i = 3 THEN ClassCount(2) ELSE 0)
            + (AlignUp(t, Alignments[i]) - Below(i)) \div Alignments[i] - 1
    BY <1>1 DEF class_index_for_size
  <2>3. (IF i = 1 THEN 0 ELSE ClassCount(1)) + (IF i = 3 THEN ClassCount(2) ELSE 0)
          = First(i)
    BY <1>3, TableFacts DEF First, N1, N2
  <2>. HIDE DEF i
  <2> QED BY <2>1, <2>2, <2>3 DEF i
<1> QED BY <1>1, <1>2, <1>3 DEF t

(***************************************************************************)
(* The formula finds the class of a size, which covers it.                 *)
(***************************************************************************)
LEMMA ClassOfSize ==
  ASSUME NEW s \in 1 .. T3
  PROVE  /\ class_index_for_size(s) \in 0 .. N - 1
         /\ class_size(s) = Nth(class_index_for_size(s))
         /\ s <= class_size(s)
<1>. DEFINE i == BoundOf(s)
<1>1. i \in 1..3 /\ Low(i) < s /\ s <= Thresholds[i] /\ s \in Nat
  BY Covered, TableFacts
<1>2. AtLeast(s, 1) = s
  BY TableFacts DEF AtLeast
<1>3. class_index_for_size(s) =
        First(i) + (AlignUp(s, Step(i)) - Low(i)) \div Step(i) - 1
  BY <1>1, <1>2, IndexIs
<1>4. class_size(s) = AlignUp(s, Step(i))
  BY <1>1, Bound DEF class_size
<1>. HIDE DEF i
<1>5. /\ Low(i) \in Nat /\ Step(i) \in Nat \ {0} /\ Count(i) \in Nat
      /\ First(i) \in Nat /\ First(i) + Count(i) <= N
      /\ Low(i) % Step(i) = 0
      /\ s <= Low(i) + Count(i) * Step(i)
      /\ Low(i) + Count(i) * Step(i) + Step(i) <= Word
  <2>1. Low(i) + Count(i) * Step(i) + Step(i) \in Nat
    BY <1>1, Bound
  <2> QED BY <1>1, <2>1, Bound, Words
<1>6. PICK k \in 0 .. Count(i) - 1 :
           /\ AlignUp(s, Step(i)) = Low(i) + (k + 1) * Step(i)
           /\ (AlignUp(s, Step(i)) - Low(i)) \div Step(i) = k + 1
           /\ s <= AlignUp(s, Step(i))
  <2>1. \A l, b, m, t \in Nat :
          (/\ b # 0 /\ l % b = 0 /\ l < t
           /\ t <= l + m * b /\ l + m * b + b <= Word)
          => \E k \in 0 .. m - 1 :
               /\ AlignUp(t, b) = l + (k + 1) * b
               /\ (AlignUp(t, b) - l) \div b = k + 1
               /\ t <= AlignUp(t, b)
    BY Part
  <2> QED BY <1>1, <1>5, <2>1
<1>7. class_index_for_size(s) = First(i) + k
  <2>1. class_index_for_size(s) = First(i) + (k + 1) - 1
    BY <1>3, <1>6
  <2> QED BY <2>1, <1>5
<1>8. First(i) + k \in 0 .. N - 1
  BY <1>5, <1>6, TableFacts DEF N
<1>9. Nth(First(i) + k) = Low(i) + (k + 1) * Step(i)
  BY <1>1, <1>6, NthIs
<1> QED BY <1>4, <1>6, <1>7, <1>8, <1>9

\* The classes of a bound are multiples between its ends.
LEMMA NthIn ==
  ASSUME NEW i \in 1..3, NEW k \in 0 .. Count(i) - 1
  PROVE  LET c == Nth(First(i) + k)
         IN  /\ c \in Nat
             /\ Low(i) < c /\ c <= Thresholds[i]
             /\ c % Step(i) = 0
             /\ (c - Low(i)) \div Step(i) = k + 1
<1>. DEFINE c == Nth(First(i) + k)
            l == Low(i)
            a == Step(i)
            n == Count(i)
            p == l \div a
<1>1. /\ l \in Nat /\ a \in Nat \ {0} /\ n \in Nat /\ l % a = 0
      /\ Thresholds[i] = l + n * a
      /\ c = l + (k + 1) * a
  BY Bound, NthIs
<1>2. p \in Nat /\ l = p * a
  BY <1>1, Whole, DivBounds
<1>3. k \in Nat /\ k < n
  BY <1>1
<1>. HIDE DEF c, l, a, n, p
<1>4. k * a + a <= n * a
  BY <1>1, <1>3, Multiples
<1>5. k * a \in Nat /\ (k + 1) * a = k * a + a
  BY <1>1, <1>3
<1>6. c \in Nat /\ l < c /\ c <= l + n * a /\ c - l = (k + 1) * a
  BY <1>1, <1>4, <1>5
<1>7. c = (p + k + 1) * a
  BY <1>1, <1>2, <1>3
<1>8. c % a = 0
  <2>1. p + k + 1 \in Nat
    BY <1>2, <1>3
  <2> QED BY <2>1, <1>1, <1>7, Multiples
<1>9. ((k + 1) * a) \div a = k + 1
  <2>1. k + 1 \in Nat
    BY <1>3
  <2> QED BY <2>1, <1>1, Multiples
<1>10. (c - l) \div a = k + 1
  BY <1>6, <1>9
<1> QED BY <1>1, <1>6, <1>8, <1>10 DEF c, l, a, n

\* Every index is one of a bound.
LEMMA Split ==
  ASSUME NEW k \in 0 .. N - 1
  PROVE  \E i \in 1..3 : \E j \in 0 .. Count(i) - 1 : k = First(i) + j
<1>0. N1 \in Nat /\ N2 \in Nat /\ N3 \in Nat /\ k \in Nat /\ k < N1 + N2 + N3
  BY TableFacts DEF N
<1>1. CASE k < N1
  <2>1. k \in 0 .. Count(1) - 1 /\ k = First(1) + k
    BY <1>0, <1>1 DEF Count, First
  <2> QED BY <2>1
<1>2. CASE ~(k < N1) /\ k < N1 + N2
  <2>1. k - N1 \in 0 .. Count(2) - 1 /\ k = First(2) + (k - N1)
    BY <1>0, <1>2 DEF Count, First
  <2> QED BY <2>1
<1>3. CASE ~(k < N1) /\ ~(k < N1 + N2)
  <2>1. k - (N1 + N2) \in 0 .. Count(3) - 1 /\ k = First(3) + (k - (N1 + N2))
    BY <1>0, <1>3 DEF Count, First
  <2> QED BY <2>1
<1> QED BY <1>1, <1>2, <1>3

(***************************************************************************)
(* The formula finds each class by its own size.                           *)
(***************************************************************************)
LEMMA ClassOfClass ==
  ASSUME NEW k \in 0 .. N - 1
  PROVE  /\ Nth(k) \in 1 .. T3
         /\ class_index_for_size(Nth(k)) = k
         /\ class_size(Nth(k)) = Nth(k)
<1>0. PICK i \in 1..3 : \E j \in 0 .. Count(i) - 1 : k = First(i) + j
  BY Split
<1>1. PICK j \in 0 .. Count(i) - 1 : k = First(i) + j
  BY <1>0
<1>. DEFINE c == Nth(k)
<1>2. /\ c \in Nat /\ Low(i) < c /\ c <= Thresholds[i]
      /\ c % Step(i) = 0 /\ (c - Low(i)) \div Step(i) = j + 1
  BY <1>1, NthIn
<1>. HIDE DEF c
<1>3. /\ Low(i) \in Nat /\ Step(i) \in Nat \ {0} /\ First(i) \in Nat
      /\ Thresholds[i] \in Nat /\ Thresholds[i] <= T3
      /\ Thresholds[i] + Step(i) < Word /\ Alignments[i] = Step(i)
  BY <1>1, Bound, TableFacts
<1>4. c \in 1 .. T3
  BY <1>2, <1>3, TableFacts
<1>5. BoundOf(c) = i
  BY <1>1, <1>2, OnlyBound
<1>6. AlignUp(c, Step(i)) = c
  <2>1. c + Step(i) <= Word
    BY <1>2, <1>3, Words
  <2> QED BY <2>1, <1>2, <1>3, Words, AlignUpWhole
<1>7. class_index_for_size(c) = First(i) + (j + 1) - 1
  <2>1. AtLeast(c, 1) = c
    BY <1>4, TableFacts DEF AtLeast
  <2>2. class_index_for_size(c) =
          First(i) + (AlignUp(c, Step(i)) - Low(i)) \div Step(i) - 1
    BY <2>1, <1>2, <1>5, IndexIs
  <2> QED BY <2>2, <1>2, <1>6
<1>8. class_index_for_size(c) = k
  <2>1. j \in Nat
    BY <1>1, Bound
  <2> QED BY <2>1, <1>1, <1>3, <1>7
<1>9. class_size(c) = c
  BY <1>3, <1>5, <1>6 DEF class_size
<1> QED BY <1>4, <1>8, <1>9 DEF c

\* The classes ascend with their index.
LEMMA Ascending ==
  ASSUME NEW k \in 0 .. N - 1, NEW m \in 0 .. N - 1, k < m
  PROVE  Nth(k) < Nth(m)
<1>0. PICK i \in 1..3 : \E j \in 0 .. Count(i) - 1 : k = First(i) + j
  BY Split
<1>1. PICK j \in 0 .. Count(i) - 1 : k = First(i) + j
  BY <1>0
<1>9. PICK h \in 1..3 : \E g \in 0 .. Count(h) - 1 : m = First(h) + g
  BY Split
<1>2. PICK g \in 0 .. Count(h) - 1 : m = First(h) + g
  BY <1>9
<1>3. /\ Nth(k) \in Nat /\ Low(i) < Nth(k) /\ Nth(k) <= Thresholds[i]
      /\ Nth(m) \in Nat /\ Low(h) < Nth(m) /\ Nth(m) <= Thresholds[h]
  BY <1>1, <1>2, NthIn
<1>4. CASE i = h
  <2>. DEFINE a == Step(i)
  <2>1. a \in Nat \ {0} /\ Low(i) \in Nat /\ j \in Nat /\ g \in Nat /\ j < g
    BY <1>1, <1>2, <1>4, Bound
  <2>2. Nth(k) = Low(i) + (j + 1) * a /\ Nth(m) = Low(i) + (g + 1) * a
    BY <1>1, <1>2, <1>4, NthIs
  <2>. HIDE DEF a
  <2>3. (j + 1) * a = j * a + a /\ (g + 1) * a = g * a + a
    BY <2>1
  <2>4. j * a + a <= g * a
    BY <2>1, Multiples
  <2> QED BY <2>1, <2>2, <2>3, <2>4
<1>5. CASE i # h
  <2>0. N1 \in Nat /\ N2 \in Nat /\ N3 \in Nat
    BY TableFacts
  <2>1. i < h
    BY <2>0, <1>1, <1>2, <1>5 DEF First, Count
  <2>2. Thresholds[i] <= Low(h)
    BY <2>1, <1>1, <1>2, TableFacts DEF Low, T1, T2
  <2>3. Thresholds[i] \in Nat /\ Low(h) \in Nat
    BY <1>1, <1>2, Bound, TableFacts
  <2> QED BY <2>2, <2>3, <1>3
<1> QED BY <1>4, <1>5

\* The classes are those the indices name.
LEMMA TheClasses == ClassSizes = {Nth(k) : k \in 0 .. N - 1}
<1>1. Threshold = T3
  BY DEF Threshold, T3
<1>2. ASSUME NEW s \in 1 .. T3
      PROVE  \E k \in 0 .. N - 1 : class_size(s) = Nth(k)
  BY <1>2, ClassOfSize
<1>3. ASSUME NEW k \in 0 .. N - 1
      PROVE  \E s \in 1 .. T3 : Nth(k) = class_size(s)
  BY <1>3, ClassOfClass
<1> QED BY <1>1, <1>2, <1>3 DEF ClassSizes

\* As many classes as indices.
LEMMA Counted ==
  ASSUME NEW k \in 0 .. N
  PROVE  Cardinality({Nth(j) : j \in 0 .. k - 1}) = k
<1>. DEFINE S == {Nth(j) : j \in 0 .. k - 1}
            f == [j \in 1 .. k |-> Nth(j - 1)]
<1>0. N \in Nat /\ k \in Nat /\ k <= N
  BY TableFacts DEF N
<1>1. f \in Bijection(1 .. k, S)
  <2>1. \A j \in 1 .. k : j - 1 \in 0 .. k - 1 /\ f[j] = Nth(j - 1)
    BY <1>0
  <2>2. f \in [1 .. k -> S]
    BY <2>1
  <2>3. ASSUME NEW j \in 1 .. k, NEW m \in 1 .. k, f[j] = f[m]
        PROVE  j = m
    <3>1. Nth(j - 1) = Nth(m - 1)
      BY <2>1, <2>3
    <3>2. j - 1 \in 0 .. N - 1 /\ m - 1 \in 0 .. N - 1
      BY <1>0
    <3>3. j - 1 = m - 1
      BY <3>1, <3>2, ClassOfClass
    <3> QED BY <3>3
  <2>4. ASSUME NEW c \in S PROVE \E j \in 1 .. k : f[j] = c
    <3>1. PICK j \in 0 .. k - 1 : c = Nth(j)
      OBVIOUS
    <3>2. j + 1 \in 1 .. k /\ f[j + 1] = Nth(j)
      BY <1>0, <2>1
    <3> QED BY <3>1, <3>2
  <2>. HIDE DEF f, S
  <2> QED BY <2>2, <2>3, <2>4 DEF Bijection, Injection, IsInjective, Surjection
<1>2. ExistsBijection(1 .. k, S)
  BY <1>1 DEF ExistsBijection
<1> QED BY <1>0, <1>2, FS_CountingElements

(***************************************************************************)
(* The table that is built by counting has the classes in their order.     *)
(***************************************************************************)
LEMMA TableIs ==
  /\ kNumSizeClasses = N
  /\ \A k \in 0 .. N - 1 : kClassSizes[k] = Nth(k)
<1>0. N \in Nat
  BY TableFacts DEF N
<1>1. kNumSizeClasses = N
  BY <1>0, Counted, TheClasses DEF kNumSizeClasses
<1>2. ASSUME NEW k \in 0 .. N - 1
      PROVE  Cardinality({d \in ClassSizes : d < Nth(k)}) = k
  <2>1. \A j \in 0 .. N - 1 : Nth(j) < Nth(k) <=> j \in 0 .. k - 1
    <3>1. TAKE j \in 0 .. N - 1
    <3>2. Nth(j) \in Nat /\ Nth(k) \in Nat
      BY ClassOfClass, TableFacts
    <3>3. CASE j < k
      BY <3>3, Ascending, <1>0
    <3>4. CASE j = k
      BY <3>2, <3>4, <1>0
    <3>5. CASE k < j
      <4>1. Nth(k) < Nth(j)
        BY <3>5, Ascending
      <4> QED BY <4>1, <3>2, <3>5, <1>0
    <3> QED BY <3>3, <3>4, <3>5, <1>0
  <2>2. {d \in ClassSizes : d < Nth(k)} = {Nth(j) : j \in 0 .. k - 1}
    BY <2>1, <1>0, TheClasses
  <2> QED BY <2>2, <1>0, Counted
<1>3. ASSUME NEW k \in 0 .. N - 1
      PROVE  kClassSizes[k] = Nth(k)
  <2>1. kClassSizes[k] =
          CHOOSE c \in ClassSizes : Cardinality({d \in ClassSizes : d < c}) = k
    BY <1>1 DEF kClassSizes
  <2>2. Nth(k) \in ClassSizes
    BY TheClasses
  <2>3. ASSUME NEW c \in ClassSizes, Cardinality({d \in ClassSizes : d < c}) = k
        PROVE  c = Nth(k)
    <3>1. PICK j \in 0 .. N - 1 : c = Nth(j)
      BY <2>3, TheClasses
    <3> QED BY <3>1, <2>3, <1>2
  <2> QED BY <2>1, <2>2, <2>3, <1>2
<1> QED BY <1>1, <1>3

(***************************************************************************)
(* The class of a size: the table and the formula agree on it.             *)
(***************************************************************************)
LEMMA Class ==
  ASSUME NEW s \in 1 .. T3
  PROVE  LET c == kClassSizes[class_index_for_size(s)]
         IN  /\ c = class_size(s)
             /\ c \in ClassSizes /\ s <= c
             /\ class_index_for_size(s) \in DOMAIN kClassSizes
<1>1. /\ class_index_for_size(s) \in 0 .. N - 1
      /\ class_size(s) = Nth(class_index_for_size(s))
      /\ s <= class_size(s)
  BY ClassOfSize
<1>2. kClassSizes[class_index_for_size(s)] = class_size(s)
  BY <1>1, TableIs
<1>3. DOMAIN kClassSizes = 0 .. N - 1
  BY TableIs DEF kClassSizes
<1> QED BY <1>1, <1>2, <1>3, TheClasses

\* A class is found by its size, and a cache has room for its block.
LEMMA Classes ==
  ASSUME NEW c \in ClassSizes
  PROVE  /\ c \in 1 .. T3 /\ c \in Nat /\ c < SlabSize
         /\ kClassSizes[class_index_for_size(c)] = c
         /\ c <= max_cached_bytes_for_class(c)
<1>1. PICK k \in 0 .. N - 1 : c = Nth(k)
  BY TheClasses
<1>2. /\ c \in 1 .. T3
      /\ kClassSizes[class_index_for_size(c)] = c
  BY <1>1, ClassOfClass, TableIs
<1>3. c \in Nat /\ c < SlabSize
  BY <1>2, TableFacts, Words
<1>4. c <= max_cached_bytes_for_class(c)
  <2>. DEFINE t == Thresholds[BoundOf(c)]
              h == t \div 2
  <2>1. c <= t /\ t \in Nat \ {0, 1}
    BY <1>2, Covered, Bound, TableFacts
  <2>. HIDE DEF t
  <2>2. h \in Nat /\ t < h * 2 + 2
    BY <2>1
  <2>. HIDE DEF h
  <2>3. c <= h * 1024
    BY <1>3, <2>1, <2>2
  <2> QED BY <2>3 DEF max_cached_bytes_for_class, h, t
<1> QED BY <1>2, <1>3, <1>4

\* Every row of the table is exact.
LEMMA Rows == \A c \in ClassSizes : RowExact[c]
<1>1. TAKE c \in ClassSizes
<1>2. ASSUME NEW s \in {n \in 1 .. Threshold : class_size(n) = c}
      PROVE  LET i == class_index_for_size(s)
             IN  i \in DOMAIN kClassSizes /\ kClassSizes[i] = c /\ s <= c
  <2>1. s \in 1 .. T3 /\ class_size(s) = c
    BY DEF Threshold, T3
  <2> QED BY <2>1, Class
<1>3. RowExact[c] = \A s \in {n \in 1 .. Threshold : class_size(n) = c} :
                      LET i == class_index_for_size(s)
                      IN  i \in DOMAIN kClassSizes /\ kClassSizes[i] = c /\ s <= c
  BY DEF RowExact
<1> QED BY <1>2, <1>3

-----------------------------------------------------------------------------
(* Mappings *)

Under(b) == [raw |-> b.raw_ptr, len |-> b.total_size]

Apart(m, n) == m.raw + m.len <= n.raw \/ n.raw + n.len <= m.raw

\* Whole pages, below the end of the address space.
Pages == {m \in [raw : Nat, len : Nat \ {0}] :
            m.raw % Page = 0 /\ m.len % Page = 0 /\ m.raw + m.len < Word}

MapsOK(M) ==
  /\ M \subseteq Pages
  /\ \A m, n \in M : m = n \/ Apart(m, n)

(***************************************************************************)
(* Below the end of the address space there is room for another multiple.  *)
(***************************************************************************)
LEMMA NextMultiple ==
  ASSUME NEW w \in Nat, NEW a \in Nat \ {0}, w % a = 0,
         NEW x \in Nat, x % a = 0, x < w
  PROVE  x + a <= w
<1>. DEFINE p == x \div a
            q == w \div a
<1>1. p \in Nat /\ x = p * a /\ q \in Nat /\ w = q * a
  BY Whole, DivBounds
<1>. HIDE DEF p, q
<1>2. p < q
  <2>1. q <= p => q = p \/ q * a + a <= p * a
    BY <1>1, Multiples
  <2>2. q * a \in Nat /\ p * a \in Nat
    BY <1>1
  <2> QED BY <2>1, <2>2, <1>1
<1> QED BY <1>1, <1>2, Multiples

\* Wrapping at a multiple keeps multiples.
LEMMA WrapAligned ==
  ASSUME NEW w \in Nat \ {0}, NEW a \in Nat \ {0}, w % a = 0,
         NEW x \in Nat, NEW y \in Nat, x % a = 0, y % a = 0
  PROVE  ((x + y) % w) % a = 0
<1>. DEFINE z == x + y
            p == z \div w
            m == p * w
<1>1. z \in Nat /\ z % a = 0
  <2>1. (x + y) % a = 0
    BY SumsAligned, Zenon
  <2> QED BY <2>1
<1>. HIDE DEF z
<1>2. p \in Nat /\ z % w = z - p * w
  BY <1>1
<1>. HIDE DEF p
<1>3. m \in Nat /\ m % a = 0
  <2>1. (p * w) % a = 0
    BY <1>2, ProductsAligned, Zenon
  <2> QED BY <1>2, <2>1
<1>. HIDE DEF m
<1>4. (z - m) % a = 0
  BY <1>1, <1>3, SumsAligned
<1> QED BY <1>2, <1>4 DEF z, m

\* Whole pages are rounded to themselves.
LEMMA WholePages ==
  ASSUME NEW x \in Nat, x % Page = 0, x < Word
  PROVE  x + Page <= Word /\ AlignUp(x, Page) = x
<1>1. Word \in Nat \ {0} /\ Page \in Nat \ {0} /\ Word % Page = 0
  BY LayoutAssumption
<1>2. x + Page <= Word
  BY <1>1, NextMultiple
<1> QED BY <1>1, <1>2, AlignUpWhole

\* What mmap gives is apart from all mappings.
LEMMA NewMapping ==
  ASSUME MapsOK(mapped), NEW size \in Nat, size % Page = 0, size < Word,
         NEW m \in Mappings(size)
  PROVE  /\ m \in Pages /\ m \notin mapped
         /\ \A n \in mapped : Apart(m, n)
         /\ \A n \in mapped : n.raw # m.raw
         /\ size # 0 => m.len = size
<1>0. Word \in Nat \ {0} /\ Page \in Nat \ {0} /\ Page < Word /\ Base \subseteq Nat
  BY LayoutAssumption DEF Size
<1>. DEFINE len == AlignUp(IF size = 0 THEN Page ELSE size, Page)
<1>1. /\ m \in [raw : Base, len : {len} \ {0}]
      /\ m.raw + len < Word
      /\ \A n \in mapped : m.raw + len <= n.raw \/ n.raw + n.len <= m.raw
  BY DEF Mappings
<1>2. size # 0 => len = size
  BY WholePages
<1>3. len \in Nat /\ len % Page = 0
  <2>1. (IF size = 0 THEN Page ELSE size) \in Nat
    BY <1>0
  <2> QED BY <2>1, <1>0, AlignUpNat
<1>. HIDE DEF len
<1>4. m.len = len /\ len # 0 /\ m.raw \in Nat /\ m = [raw |-> m.raw, len |-> m.len]
  BY <1>0, <1>1
<1>5. m \in Pages
  <2>1. m.raw % Page = 0
    BY <1>1, AlignmentAssumption
  <2> QED BY <2>1, <1>1, <1>3, <1>4 DEF Pages
<1>6. \A n \in mapped : Apart(m, n)
  BY <1>1, <1>4 DEF Apart
<1>7. \A n \in mapped : n.raw # m.raw
  <2>1. TAKE n \in mapped
  <2>2. n.raw \in Nat /\ n.len \in Nat \ {0} /\ m.len \in Nat \ {0}
    BY <1>3, <1>4 DEF MapsOK, Pages
  <2> QED BY <2>2, <1>4, <1>6 DEF Apart
<1> QED BY <1>2, <1>4, <1>5, <1>6, <1>7

(***************************************************************************)
(* munmap of the length that was mapped takes the mapping away.            *)
(***************************************************************************)
LEMMA ReleasedWhole ==
  ASSUME NEW M, M \subseteq Pages, \A m, n \in M : m = n \/ Apart(m, n),
         NEW m \in M
  PROVE  Released(M, m.raw, m.len) = M \ {m}
<1>1. /\ m.raw \in Nat /\ m.len \in Nat \ {0} /\ m.len % Page = 0
      /\ m.raw + m.len < Word /\ Word \in Nat
  BY Words DEF Pages
<1>2. AlignUp(m.len, Page) = m.len
  <2>1. m.len < Word
    BY <1>1
  <2> QED BY <1>1, <2>1, WholePages
<1>3. \A n \in M : n.raw = m.raw => n = m
  <2>1. TAKE n \in M
  <2>2. n.raw \in Nat /\ n.len \in Nat \ {0}
    BY DEF Pages
  <2> QED BY <2>2, <1>1 DEF Apart
<1>4. {k \in M : k.raw = m.raw /\ m.len < k.len} = {}
  BY <1>1, <1>3
<1>5. {n \in M : n.raw # m.raw} = M \ {m}
  BY <1>3
<1> QED BY <1>1, <1>2, <1>4, <1>5 DEF Released

(***************************************************************************)
(* munmap of no bytes takes nothing.                                       *)
(***************************************************************************)
LEMMA ReleasedNothing ==
  ASSUME NEW M, M \subseteq Pages, NEW raw \in Nat
  PROVE  Released(M, raw, 0) = M
<1>1. \A k \in M : k.raw = raw =>
        0 < k.len /\ [raw |-> raw + 0, len |-> k.len - 0] = k
  BY DEF Pages
<1> QED BY <1>1 DEF Released

-----------------------------------------------------------------------------
(* Placement *)

\* The total that is asked for, and what the overflow check says of it.
LEMMA Totals ==
  ASSUME NEW r, r.size \in Nat, r.alignment \in Nat \ {0}, NEW h \in Nat
  PROVE  /\ Aligned(r) \in Nat \ {0} /\ AtLeast(r.size, 1) \in Nat \ {0}
         /\ Total(r, h) \in Nat \ {0}
         /\ Total(r, h) = AtLeast(r.size, 1) + Aligned(r) + h
         /\ PassesCheck(r, h) => Total(r, h) < Word
<1>1. MinAlign \in Nat /\ Word \in Nat
  BY LayoutAssumption
<1>2. Aligned(r) \in Nat \ {0} /\ AtLeast(r.size, 1) \in Nat \ {0}
  BY <1>1 DEF Aligned, AtLeast
<1> QED BY <1>1, <1>2 DEF Total, PassesCheck

(***************************************************************************)
(* In memory as long as the total the block fits behind its header.        *)
(***************************************************************************)
LEMMA Placement ==
  ASSUME NEW r, r.size \in Nat, r.alignment \in Nat \ {0}, NEW h \in Nat,
         NEW m \in Pages, Total(r, h) <= m.len
  PROVE  LET at == Start(m.raw, r, h)
         IN  /\ at \in Nat /\ at < Word
             /\ m.raw + h <= at
             /\ at + AtLeast(r.size, 1) <= m.raw + m.len
             /\ Fits(m, m.len, r, h)
<1>. DEFINE a == Aligned(r)
            x == m.raw + h
            z == AtLeast(r.size, 1)
            e == m.raw + m.len
            at == Start(m.raw, r, h)
<1>1. a \in Nat \ {0} /\ z \in Nat \ {0} /\ z + a + h <= m.len
  BY Totals
<1>2. /\ m.raw \in Nat /\ m.len \in Nat /\ e < Word /\ e \in Nat
      /\ Word \in Nat \ {0}
  BY Words DEF Pages
<1>3. x \in Nat /\ x < Word /\ x + a <= Word /\ x + a + z <= e
  BY <1>1, <1>2
<1>. HIDE DEF a, z, e
<1>4. x % Word = x
  BY <1>2, <1>3, Unwrapped
<1>5. at = AlignUp(x, a)
  BY <1>4 DEF Start, a
<1>. HIDE DEF x
<1>6. AlignUp(x, a) \in Nat /\ x <= AlignUp(x, a) /\ AlignUp(x, a) < x + a
  BY <1>1, <1>2, <1>3, AlignUpRounds
<1>. HIDE DEF at
<1>7. at \in Nat /\ at < Word /\ x <= at /\ at + z <= e /\ at + z \in Nat
  BY <1>1, <1>2, <1>3, <1>5, <1>6
<1>8. (at + z) % Word = at + z /\ e % Word = e
  <2>1. at + z < Word
    BY <1>2, <1>7
  <2> QED BY <2>1, <1>2, <1>7, Unwrapped
<1>9. Fits(m, m.len, r, h)
  BY <1>7, <1>8 DEF Fits, at, z, e
<1> QED BY <1>7, <1>9 DEF at, x, z, e

\* A block is placed at an address.
LEMMA StartIn ==
  ASSUME NEW r, r.size \in Nat, r.alignment \in Nat \ {0}, NEW h \in Nat,
         NEW raw \in Nat
  PROVE  Start(raw, r, h) \in Size
<1>1. Aligned(r) \in Nat \ {0}
  BY Totals
<1>2. (raw + h) % Word \in Nat
  <2>1. raw + h \in Nat
    OBVIOUS
  <2> QED BY <2>1, Words, Unwrapped
<1> QED BY <1>1, <1>2, Words, AlignUpNat DEF Start, Size

(***************************************************************************)
(* A span is as long as the total, unless the rounding to pages wraps.     *)
(***************************************************************************)
LEMMA Spans ==
  ASSUME NEW total \in Nat \ {0}, NEW size \in SpanSizes(total)
  PROVE  /\ size \in Nat \ {0} /\ size % Page = 0 /\ size < Word
         /\ ~Wraps(total) => total <= size
<1>. DEFINE up == AlignUp(total, Page)
            fits == {c \in LargeBinSizes : up <= c}
<1>0. /\ Word \in Nat \ {0} /\ Page \in Nat \ {0} /\ Page < Word
      /\ LargeBinSizes \subseteq 1 .. Word - Page /\ LargeBinSizes # {}
  BY LayoutAssumption
<1>1. up \in Nat /\ up < Word /\ up % Page = 0
  BY <1>0, AlignUpNat
<1>2. ~Wraps(total) => total <= up
  <2>1. SUFFICES ASSUME ~Wraps(total) PROVE total <= up
    OBVIOUS
  <2>2. total + Page <= Word
    BY <1>0, <2>1 DEF Wraps
  <2> QED BY <2>2, <1>0, AlignUpRounds
<1>. HIDE DEF up
<1>3. CASE fits = {}
  <2>1. size = AlignUp(up, Page)
    BY <1>3 DEF SpanSizes, up
  <2>2. size = up
    BY <2>1, <1>1, WholePages
  <2>3. up # 0
    <3>1. PICK c \in LargeBinSizes : c \in 1 .. Word - Page
      BY <1>0
    <3>2. ~(up <= c)
      BY <1>3
    <3> QED BY <3>1, <3>2, <1>0, <1>1
  <2> QED BY <2>2, <2>3, <1>1, <1>2
<1>4. CASE fits # {}
  <2>1. PICK c \in fits : size = AlignUp(c, Page)
    BY <1>4 DEF SpanSizes, up
  <2>2. c \in Nat \ {0} /\ c + Page <= Word /\ up <= c
    BY <1>0
  <2>3. AlignUp(c, Page) \in Nat /\ c <= AlignUp(c, Page)
    BY <1>0, <2>2, AlignUpRounds
  <2>4. AlignUp(c, Page) < Word /\ AlignUp(c, Page) % Page = 0
    BY <1>0, <2>2, AlignUpNat
  <2> QED BY <2>1, <2>2, <2>3, <2>4, <1>0, <1>1, <1>2
<1> QED BY <1>3, <1>4

\* A mapping of the simple resource covers the total, unless the rounding wraps.
LEMMA SimpleSizes ==
  ASSUME NEW r, r.size \in Nat, r.alignment \in Nat \ {0}
  PROVE  LET size == SimpleSize(r)
         IN  /\ size \in Nat /\ size % Page = 0 /\ size < Word
             /\ ~Wraps(Total(r, AllocationHeader))
                  => size # 0 /\ Total(r, AllocationHeader) <= size
<1>. DEFINE total == Total(r, AllocationHeader)
<1>0. /\ Word \in Nat \ {0} /\ Page \in Nat \ {0} /\ AllocationHeader \in Nat
  BY LayoutAssumption
<1>1. total \in Nat \ {0}
  BY <1>0, Totals
<1>. HIDE DEF total
<1>2. AlignUp(total, Page) \in Nat /\ AlignUp(total, Page) < Word
      /\ AlignUp(total, Page) % Page = 0
  BY <1>0, <1>1, AlignUpNat
<1>3. ASSUME ~Wraps(total) PROVE total <= AlignUp(total, Page)
  <2>1. total + Page <= Word
    BY <1>0, <1>1, <1>3 DEF Wraps
  <2> QED BY <2>1, <1>0, <1>1, AlignUpRounds
<1> QED BY <1>1, <1>2, <1>3 DEF SimpleSize, total

(***************************************************************************)
(* Where the blocks of a slab lie.                                         *)
(***************************************************************************)
LEMMA Strides ==
  ASSUME NEW raw \in Nat, raw + SlabSize < Word, NEW c \in Nat, c < SlabSize
  PROVE  /\ FirstBlock(raw) \in Nat /\ raw + SlabHeader <= FirstBlock(raw)
         /\ FirstBlock(raw) <= raw + SlabSize
         /\ Stride(c) \in Nat \ {0} /\ BlockHeader + c <= Stride(c)
         /\ Capacity(raw, c) \in Nat
         /\ FirstBlock(raw) + Capacity(raw, c) * Stride(c) <= raw + SlabSize
<1>0. /\ Word \in Nat \ {0} /\ MinAlign \in Nat \ {0} /\ MaxAlign \in Nat \ {0}
      /\ SlabSize \in Nat /\ BlockHeader \in Nat /\ SlabHeader \in Nat
      /\ SlabHeader + MaxAlign <= SlabSize /\ MinAlign <= MaxAlign
      /\ BlockHeader + MaxAlign + SlabSize < Word
  BY LayoutAssumption
<1>1. /\ FirstBlock(raw) \in Nat /\ raw + SlabHeader <= FirstBlock(raw)
      /\ FirstBlock(raw) < raw + SlabHeader + MaxAlign
  <2>. DEFINE x == raw + SlabHeader
  <2>1. x \in Nat /\ x + MaxAlign <= Word
    BY <1>0
  <2>2. FirstBlock(raw) = AlignUp(x, MaxAlign)
    BY DEF FirstBlock
  <2>. HIDE DEF x
  <2>3. /\ AlignUp(x, MaxAlign) \in Nat /\ x <= AlignUp(x, MaxAlign)
        /\ AlignUp(x, MaxAlign) < x + MaxAlign
    BY <1>0, <2>1, AlignUpRounds
  <2> QED BY <2>2, <2>3 DEF x
<1>2. Stride(c) \in Nat \ {0} /\ BlockHeader + c <= Stride(c)
  <2>. DEFINE x == BlockHeader + AtLeast(c, MinAlign)
  <2>1. x \in Nat \ {0} /\ x + MaxAlign <= Word /\ BlockHeader + c <= x
    BY <1>0 DEF AtLeast
  <2>2. Stride(c) = AlignUp(x, MaxAlign)
    BY DEF Stride
  <2>. HIDE DEF x
  <2>3. AlignUp(x, MaxAlign) \in Nat /\ x <= AlignUp(x, MaxAlign)
    BY <1>0, <2>1, AlignUpRounds
  <2> QED BY <2>1, <2>2, <2>3, <1>0
<1>3. FirstBlock(raw) <= raw + SlabSize
  BY <1>0, <1>1
<1>. DEFINE y == SlabSize - (FirstBlock(raw) - raw)
<1>4. y \in Nat /\ FirstBlock(raw) + y = raw + SlabSize
  BY <1>0, <1>1, <1>3
<1>5. Capacity(raw, c) = y \div Stride(c)
  BY DEF Capacity
<1>. HIDE DEF y
<1>6. Capacity(raw, c) \in Nat /\ Capacity(raw, c) * Stride(c) <= y
  BY <1>2, <1>4, <1>5, DivBounds
<1>7. Capacity(raw, c) * Stride(c) \in Nat
  BY <1>2, <1>6
<1> QED BY <1>0, <1>1, <1>2, <1>3, <1>4, <1>6, <1>7

\* The blocks of a slab lie in it, and apart.
LEMMA BlocksInSlab ==
  ASSUME NEW raw \in Nat, raw + SlabSize < Word, NEW c \in Nat, c < SlabSize,
         NEW at \in BlocksOf(raw, c)
  PROVE  /\ at \in Nat
         /\ raw + SlabHeader + BlockHeader <= at
         /\ at + c <= raw + SlabSize
         /\ \A o \in BlocksOf(raw, c) :
              o = at \/ o + c <= at - BlockHeader \/ at + c <= o - BlockHeader
<1>. DEFINE f == FirstBlock(raw)
            t == Stride(c)
            k == Capacity(raw, c)
<1>0. BlockHeader \in Nat /\ SlabHeader \in Nat /\ SlabSize \in Nat
  BY LayoutAssumption
<1>1. /\ f \in Nat /\ raw + SlabHeader <= f /\ t \in Nat \ {0}
      /\ BlockHeader + c <= t /\ k \in Nat /\ f + k * t <= raw + SlabSize
  BY Strides
<1>2. BlocksOf(raw, c) \subseteq {f + i * t + BlockHeader : i \in 0 .. k - 1}
  BY DEF BlocksOf
<1>. HIDE DEF f, t, k
<1>3. PICK i \in 0 .. k - 1 : at = f + i * t + BlockHeader
  BY <1>2
<1>4. i \in Nat /\ i < k /\ i * t \in Nat /\ k * t \in Nat
  BY <1>1
<1>5. i * t + t <= k * t
  BY <1>1, <1>4, Multiples
<1>6. /\ at \in Nat /\ raw + SlabHeader + BlockHeader <= at
      /\ at + c <= raw + SlabSize
  BY <1>0, <1>1, <1>3, <1>4, <1>5
<1>7. ASSUME NEW o \in BlocksOf(raw, c)
      PROVE  o = at \/ o + c <= at - BlockHeader \/ at + c <= o - BlockHeader
  <2>1. PICK j \in 0 .. k - 1 : o = f + j * t + BlockHeader
    BY <1>2, <1>7
  <2>2. j \in Nat /\ j * t \in Nat
    BY <1>1
  <2>3. i < j => i * t + t <= j * t
    BY <1>1, <1>4, <2>2, Multiples
  <2>4. j < i => j * t + t <= i * t
    BY <1>1, <1>4, <2>2, Multiples
  <2>5. CASE i < j
    BY <2>1, <2>2, <2>3, <2>5, <1>0, <1>1, <1>3, <1>4
  <2>6. CASE j < i
    BY <2>1, <2>2, <2>4, <2>6, <1>0, <1>1, <1>3, <1>4
  <2>7. CASE i = j
    BY <2>1, <2>7, <1>3
  <2> QED BY <2>2, <2>5, <2>6, <2>7, <1>4
<1> QED BY <1>6, <1>7

-----------------------------------------------------------------------------
(* Who holds which mapping *)

\* The blocks with a mapping of their own.
Held(L) == {b \in L : b.kind # "small" /\ b.total_size # 0}

\* Blocks H, the spans C in the cache and the slabs S have mappings of M, no
\* two the same, and all of them, unless a page rounding has wrapped (w).
Owned(M, C, S, H, w) ==
  /\ \A b \in H : Under(b) \in M
  /\ C \subseteq M
  /\ \A s \in S : SlabMapping(s) \in M
  /\ \A b, c \in H : Under(b) = Under(c) => b = c
  /\ \A s, t \in S : SlabMapping(s) = SlabMapping(t) => s = t
  /\ \A b \in H : Under(b) \notin C
  /\ \A s \in S : SlabMapping(s) \notin C
  /\ \A b \in H, s \in S : Under(b) # SlabMapping(s)
  /\ w \/ M \subseteq {Under(b) : b \in H} \cup C \cup {SlabMapping(s) : s \in S}

\* Once a rounding has wrapped, a mapping may be without owner.
LEMMA OwnWrap ==
  ASSUME NEW M, NEW C, NEW S, NEW H, NEW w, Owned(M, C, S, H, w), NEW m,
         NEW v, w => v
  PROVE  /\ v => Owned(M \cup {m}, C, S, H, v)
         /\ v => Owned(M, C \ {m}, S, H, v)
BY DEF Owned

\* The flag may be raised.
LEMMA OwnWeak ==
  ASSUME NEW M, NEW C, NEW S, NEW H, NEW w, Owned(M, C, S, H, w),
         NEW v, w => v
  PROVE  Owned(M, C, S, H, v)
BY DEF Owned

\* A new mapping for a block.
LEMMA OwnMap ==
  ASSUME NEW M, NEW C, NEW S, NEW H, NEW w, Owned(M, C, S, H, w),
         NEW m, m \notin M, NEW b, Under(b) = m, NEW v, w => v
  PROVE  Owned(M \cup {m}, C, S, H \cup {b}, v)
BY DEF Owned

\* A span of the cache for a block.
LEMMA OwnTake ==
  ASSUME NEW M, NEW C, NEW S, NEW H, NEW w, Owned(M, C, S, H, w),
         NEW m \in C, NEW b, Under(b) = m, NEW v, w => v
  PROVE  Owned(M, C \ {m}, S, H \cup {b}, v)
BY DEF Owned

\* A new mapping for a slab.
LEMMA OwnSlab ==
  ASSUME NEW M, NEW C, NEW S, NEW H, NEW w, Owned(M, C, S, H, w),
         NEW m, m \notin M, NEW s, SlabMapping(s) = m
  PROVE  Owned(M \cup {m}, C, S \cup {s}, H, w)
BY DEF Owned

\* The span of a block goes to the cache.
LEMMA OwnCache ==
  ASSUME NEW M, NEW C, NEW S, NEW H, NEW w, Owned(M, C, S, H, w), NEW b \in H
  PROVE  Owned(M, C \cup {Under(b)}, S, H \ {b}, w)
BY DEF Owned

\* The span of a block is unmapped.
LEMMA OwnFree ==
  ASSUME NEW M, NEW C, NEW S, NEW H, NEW w, Owned(M, C, S, H, w), NEW b \in H
  PROVE  Owned(M \ {Under(b)}, C, S, H \ {b}, w)
BY DEF Owned

\* A slab is unmapped.
LEMMA OwnFreeSlab ==
  ASSUME NEW M, NEW C, NEW S, NEW H, NEW w, Owned(M, C, S, H, w), NEW s \in S
  PROVE  Owned(M \ {SlabMapping(s)}, C, S \ {s}, H, w)
BY DEF Owned

-----------------------------------------------------------------------------
(* The blocks in use *)

BlockRecord == [kind : Kind, at : Size, size : Size, alignment : Size,
                raw_ptr : Size, total_size : Size, size_class : Size]

SmallIn(b, S) ==
  /\ [raw |-> b.raw_ptr, size_class |-> b.size_class] \in S
  /\ b.at \in BlocksOf(b.raw_ptr, b.size_class)
  /\ b.total_size = SlabSize
  /\ b.size <= b.size_class

BigIn(b, w) ==
  /\ b.kind = "large" => b.total_size # 0
  /\ Short(b) => w
  /\ ~Short(b) => /\ b.total_size # 0
                  /\ b.raw_ptr + Header(b.kind) <= b.at
                  /\ b.at + b.size <= b.raw_ptr + b.total_size

AlignedIn(b) ==
  /\ b.at % b.alignment = 0
  /\ (b.at - Header(b.kind)) % (IF b.kind = "simple" THEN MinAlign ELSE MaxAlign) = 0

Lives(L, S, w) ==
  /\ L \subseteq BlockRecord
  /\ \A b \in L : b.kind = "small" => SmallIn(b, S)
  /\ \A b \in L : b.kind # "small" => BigIn(b, w)
  /\ \A b \in L : AlignedIn(b)
  /\ \A b, c \in L : /\ b.kind = "small" /\ c.kind = "small"
                     /\ b.raw_ptr = c.raw_ptr /\ b.at = c.at
                     => b = c

\* A new block with a mapping of its own.
LEMMA LiveBig ==
  ASSUME NEW L, NEW S, NEW w, Lives(L, S, w), NEW x,
         NEW b \in BlockRecord, b.kind # "small", BigIn(b, w \/ x), AlignedIn(b)
  PROVE  Lives(L \cup {b}, S, w \/ x)
<1>1. \A c : BigIn(c, w) => BigIn(c, w \/ x)
  BY DEF BigIn
<1> QED BY <1>1 DEF Lives

\* A new block in a slab, where none was.
LEMMA LiveSmall ==
  ASSUME NEW L, NEW S, NEW w, Lives(L, S, w),
         NEW b \in BlockRecord, b.kind = "small", SmallIn(b, S), AlignedIn(b),
         \A c \in L : c.kind = "small" /\ c.raw_ptr = b.raw_ptr => c.at # b.at
  PROVE  Lives(L \cup {b}, S, w)
BY DEF Lives

\* A new slab changes no block.
LEMMA LiveSlab ==
  ASSUME NEW L, NEW S, NEW w, Lives(L, S, w), NEW s
  PROVE  Lives(L, S \cup {s}, w)
<1>1. \A c : SmallIn(c, S) => SmallIn(c, S \cup {s})
  BY DEF SmallIn
<1> QED BY <1>1 DEF Lives

\* A block leaves, or the flag is raised.
LEMMA LiveLess ==
  ASSUME NEW L, NEW S, NEW w, Lives(L, S, w), NEW b, NEW x
  PROVE  /\ Lives(L \ {b}, S, w)
         /\ Lives(L, S, w \/ x)
<1>1. \A c : BigIn(c, w) => BigIn(c, w \/ x)
  BY DEF BigIn
<1> QED BY <1>1 DEF Lives

\* A slab without blocks leaves.
LEMMA LiveFreeSlab ==
  ASSUME NEW L, NEW S, NEW w, Lives(L, S, w), NEW s \in S,
         \A t \in S : t.raw = s.raw => t = s,
         \A c \in L : c.kind = "small" => c.raw_ptr # s.raw
  PROVE  Lives(L, S \ {s}, w)
<1>1. ASSUME NEW c \in L, c.kind = "small"
      PROVE  SmallIn(c, S \ {s})
  <2>1. SmallIn(c, S) /\ c.raw_ptr # s.raw
    BY <1>1 DEF Lives
  <2>2. [raw |-> c.raw_ptr, size_class |-> c.size_class] # s
    BY <2>1
  <2> QED BY <2>1, <2>2 DEF SmallIn
<1> QED BY <1>1 DEF Lives

-----------------------------------------------------------------------------
(* The invariant *)

IInv ==
  /\ MapsOK(mapped)
  /\ Owned(mapped, cached, slabs, Held(live), wrapped)
  /\ Lives(live, slabs, wrapped)
  /\ cached \subseteq [raw : Size, len : LargeBinSizes]
  /\ slabs \subseteq [raw : Size, size_class : ClassSizes]
  /\ wrapped \in BOOLEAN

\* A mapping apart from all others is added.
LEMMA MapsMore ==
  ASSUME MapsOK(mapped), NEW m \in Pages, \A n \in mapped : Apart(m, n)
  PROVE  MapsOK(mapped \cup {m})
<1>1. \A n \in mapped : Apart(n, m)
  BY DEF Apart
<1> QED BY <1>1 DEF MapsOK

\* A mapping leaves.
LEMMA MapsLess ==
  ASSUME MapsOK(mapped), NEW m
  PROVE  MapsOK(mapped \ {m})
BY DEF MapsOK

(***************************************************************************)
(* A mapping that is made and released again leaves nothing, unless it was *)
(* made for a rounding that wrapped.                                       *)
(***************************************************************************)
LEMMA MapAndRelease ==
  ASSUME MapsOK(mapped), NEW size \in Nat, size % Page = 0, size < Word,
         NEW m \in Mappings(size)
  PROVE  LET M == Released(mapped \cup {m}, m.raw, size)
         IN  /\ size # 0 => M = mapped
             /\ size = 0 => M = mapped \cup {m} /\ MapsOK(mapped \cup {m})
<1>1. /\ m \in Pages /\ m \notin mapped /\ \A n \in mapped : Apart(m, n)
      /\ size # 0 => m.len = size
  BY NewMapping
<1>2. MapsOK(mapped \cup {m})
  BY <1>1, MapsMore
<1>3. CASE size # 0
  <2>1. m \in mapped \cup {m} /\ m.len = size
    BY <1>1, <1>3
  <2>2. Released(mapped \cup {m}, m.raw, m.len) = (mapped \cup {m}) \ {m}
    BY <1>2, <2>1, ReleasedWhole DEF MapsOK
  <2> QED BY <1>1, <1>3, <2>1, <2>2
<1>4. CASE size = 0
  <2>1. m.raw \in Nat
    BY <1>1 DEF Pages
  <2>2. Released(mapped \cup {m}, m.raw, 0) = mapped \cup {m}
    BY <1>2, <2>1, ReleasedNothing DEF MapsOK
  <2> QED BY <1>2, <1>4, <2>2
<1> QED BY <1>3, <1>4

\* The sizes and alignments callers may ask for.
LEMMA Requests ==
  ASSUME NEW r \in Request
  PROVE  /\ r.size \in Nat /\ r.size \in Size /\ r.alignment \in Nat \ {0}
         /\ r.alignment \in Size /\ AtLeast(r.size, 1) \in Size
         /\ AtLeast(r.size, 1) \in Nat \ {0}
<1>1. r \in [kind : {"arena", "simple"}, size : Size, alignment : 1 .. Word - 1]
  BY LayoutAssumption
<1>2. Word \in Nat \ {0, 1}
  BY LayoutAssumption
<1> QED BY <1>1, <1>2 DEF Size, AtLeast

\* The sizes that decide how blocks are aligned.
LEMMA Alignable ==
  ASSUME NEW r \in Request
  PROVE  /\ MinAlign \in Nat \ {0} /\ MaxAlign \in Nat \ {0} /\ Page \in Nat \ {0}
         /\ BlockHeader \in Nat /\ AllocationHeader \in Nat
         /\ MaxAlign % MinAlign = 0 /\ Page % MaxAlign = 0 /\ Word % Page = 0
         /\ BlockHeader % MaxAlign = 0 /\ AllocationHeader % MinAlign = 0
         /\ r.alignment % MinAlign = 0 \/ MinAlign % r.alignment = 0
         /\ r.alignment % MaxAlign = 0 \/ MaxAlign % r.alignment = 0
<1>1. /\ MinAlign \in Nat \ {0} /\ MaxAlign \in Nat \ {0} /\ Page \in Nat \ {0}
      /\ BlockHeader \in Nat /\ AllocationHeader \in Nat /\ Word % Page = 0
  BY LayoutAssumption
<1>2. \A d \in {MinAlign, MaxAlign} : r.alignment % d = 0 \/ d % r.alignment = 0
  BY AlignmentAssumption
<1> QED BY <1>1, <1>2, AlignmentAssumption

(***************************************************************************)
(* Alignments below ALIGNMENT leave the BlockHeader aligned, as memory     *)
(* begins at a page.                                                       *)
(***************************************************************************)
LEMMA StartAligned ==
  ASSUME NEW r \in Request, NEW kind \in {"large", "simple"}, NEW raw \in Nat,
         raw % Page = 0
  PROVE  LET at == Start(raw, r, Header(kind))
             d  == IF kind = "simple" THEN MinAlign ELSE MaxAlign
         IN  at % r.alignment = 0 /\ (at - Header(kind)) % d = 0
<1>. DEFINE h  == Header(kind)
            at == Start(raw, r, h)
            d  == IF kind = "simple" THEN MinAlign ELSE MaxAlign
            a  == Aligned(r)
            g  == r.alignment
            x  == (raw + h) % Word
<1>0. /\ g \in Nat \ {0} /\ Word \in Nat \ {0} /\ Page \in Nat \ {0}
      /\ MinAlign \in Nat \ {0} /\ MaxAlign \in Nat \ {0}
  BY Requests, Alignable, Words
<1>1. /\ d \in Nat \ {0} /\ h \in Nat /\ h % d = 0
      /\ Page % d = 0 /\ d % MinAlign = 0
      /\ g % d = 0 \/ d % g = 0
  <2>1. Page % MinAlign = 0 /\ MinAlign % MinAlign = 0
    BY Alignable, ChainAligned
  <2> QED BY <2>1, Alignable DEF Header
<1>2. a \in Nat \ {0} /\ a = (IF g < MinAlign THEN MinAlign ELSE g)
  BY <1>0 DEF Aligned, AtLeast
<1>3. x \in Nat /\ x < Word
  <2>1. raw + h \in Nat
    BY <1>1
  <2> QED BY <2>1, <1>0, Unwrapped
<1>4. at = AlignUp(x, a)
  BY DEF Start
<1>. HIDE DEF at, x, a, d
<1>5. at \in Nat /\ at % a = 0
  BY <1>0, <1>2, <1>3, <1>4, AlignUpNat
<1>6. a % g = 0
  <2>1. CASE g < MinAlign
    <3>1. g % MinAlign # 0
      BY <2>1, <1>0
    <3> QED BY <3>1, <2>1, <1>2, Alignable
  <2>2. CASE ~(g < MinAlign)
    BY <2>2, <1>0, <1>2
  <2> QED BY <2>1, <2>2
<1>7. at % g = 0
  BY <1>0, <1>2, <1>5, <1>6, ChainAligned
<1>8. a % d = 0 \/ d % a = 0
  <2>1. CASE g < MinAlign
    BY <2>1, <1>1, <1>2
  <2>2. CASE ~(g < MinAlign)
    BY <2>2, <1>1, <1>2
  <2> QED BY <2>1, <2>2
<1>9. at % d = 0
  <2>1. CASE a % d = 0
    BY <2>1, <1>1, <1>2, <1>5, ChainAligned
  <2>2. CASE d % a = 0
    <3>1. raw % d = 0 /\ Word % d = 0
      <4>1. Page % d = 0 /\ d \in Nat \ {0} /\ Word \in Nat /\ Word % Page = 0
        BY <1>0, <1>1, Alignable
      <4> QED BY <4>1, <1>0, ChainAligned, Zenon
    <3>2. x % d = 0
      BY <3>1, <1>0, <1>1, WrapAligned DEF x
    <3>3. x + d <= Word
      BY <3>1, <3>2, <1>0, <1>1, <1>3, NextMultiple
    <3>4. x % a = 0
      BY <3>2, <2>2, <1>1, <1>2, <1>3, ChainAligned, Zenon
    <3>5. x + a <= Word
      <4>1. Word % a = 0 /\ Word \in Nat
        BY <3>1, <2>2, <1>0, <1>1, <1>2, ChainAligned, Zenon
      <4> QED BY <4>1, <3>4, <1>2, <1>3, NextMultiple, Zenon
    <3> QED BY <3>2, <3>4, <3>5, <1>0, <1>2, <1>3, <1>4, AlignUpWhole
  <2> QED BY <2>1, <2>2, <1>8
<1>10. (at - h) % d = 0
  BY <1>1, <1>5, <1>9, SumsAligned
<1> QED BY <1>7, <1>10 DEF at, d

(***************************************************************************)
(* The blocks of a slab and their headers are aligned to ALIGNMENT.        *)
(***************************************************************************)
LEMMA SlabAligned ==
  ASSUME NEW r \in Request, Small(r), NEW raw \in Nat, NEW c \in Nat,
         NEW at \in BlocksOf(raw, c)
  PROVE  at % r.alignment = 0 /\ (at - BlockHeader) % MaxAlign = 0
<1>. DEFINE f == FirstBlock(raw)
            t == Stride(c)
            g == r.alignment
<1>0. /\ g \in Nat \ {0} /\ Word \in Nat \ {0} /\ SlabHeader \in Nat
      /\ BlockHeader \in Nat /\ MinAlign \in Nat /\ MaxAlign \in Nat \ {0}
      /\ BlockHeader % MaxAlign = 0 /\ g <= MaxAlign
  BY Requests, Alignable, LayoutAssumption DEF Small
<1>1. f \in Nat /\ f % MaxAlign = 0
  <2>1. raw + SlabHeader \in Nat
    BY <1>0
  <2> QED BY <2>1, <1>0, AlignUpNat DEF FirstBlock
<1>2. t \in Nat /\ t % MaxAlign = 0
  <2>1. BlockHeader + AtLeast(c, MinAlign) \in Nat
    BY <1>0 DEF AtLeast
  <2> QED BY <2>1, <1>0, AlignUpNat DEF Stride
<1>3. PICK i \in Nat : at = f + i * t + BlockHeader
  BY DEF BlocksOf
<1>. HIDE DEF f, t
<1>4. i * t \in Nat /\ (i * t) % MaxAlign = 0
  <2>1. i * t \in Nat
    BY <1>2
  <2>2. CASE t # 0
    <3>1. t \in Nat \ {0} /\ i \in Nat
      BY <2>2, <1>2
    <3> QED BY <2>1, <3>1, <1>0, <1>2, ProductsAligned, Zenon
  <2>3. CASE t = 0
    BY <2>3, <1>0, <1>2
  <2> QED BY <2>1, <2>2, <2>3
<1>5. f + i * t \in Nat /\ (f + i * t) % MaxAlign = 0
  <2>1. f + i * t \in Nat
    BY <1>1, <1>4
  <2> QED BY <2>1, <1>0, <1>1, <1>4, SumsAligned, Zenon
<1>. DEFINE y == f + i * t
<1>6. y \in Nat /\ y % MaxAlign = 0 /\ at = y + BlockHeader
  BY <1>3, <1>5
<1>. HIDE DEF y
<1>7. at \in Nat /\ at % MaxAlign = 0
  <2>1. (y + BlockHeader) % MaxAlign = 0
    BY <1>0, <1>6, SumsAligned, Zenon
  <2> QED BY <2>1, <1>0, <1>6
<1>8. (at - BlockHeader) % MaxAlign = 0
  BY <1>0, <1>7, SumsAligned, Zenon
<1>9. MaxAlign % g = 0
  <2>1. g < MaxAlign => g % MaxAlign = g
    BY <1>0
  <2> QED BY <2>1, <1>0, Alignable
<1>10. at % g = 0
  BY <1>0, <1>7, <1>9, ChainAligned
<1> QED BY <1>8, <1>10

(***************************************************************************)
(* A block that got memory as long as its total lies in it, behind its     *)
(* header.                                                                 *)
(***************************************************************************)
LEMMA NewBlock ==
  ASSUME NEW r \in Request, NEW kind \in {"large", "simple"}, NEW m \in Pages,
         NEW size \in {0, m.len}, NEW w \in BOOLEAN,
         ~Wraps(Total(r, Header(kind))) =>
            size = m.len /\ Total(r, Header(kind)) <= m.len,
         kind = "large" => size = m.len
  PROVE  LET b == Block(kind, m, size, r)
         IN  /\ b \in BlockRecord /\ b.kind = kind /\ AlignedIn(b)
             /\ BigIn(b, w \/ Wraps(Total(r, Header(kind))))
             /\ size = m.len => Under(b) = m /\ b.total_size # 0
             /\ b.total_size = size
<1>. DEFINE h == Header(kind)
            b == Block(kind, m, size, r)
<1>0. /\ r.size \in Nat /\ r.alignment \in Nat \ {0} /\ r.alignment \in Size
      /\ AtLeast(r.size, 1) \in Size /\ AtLeast(r.size, 1) \in Nat \ {0}
  BY Requests
<1>1. h \in Nat /\ Word \in Nat \ {0}
  BY LayoutAssumption DEF Header
<1>2. /\ m.raw \in Size /\ m.len \in Size /\ m.len # 0 /\ size \in Size
      /\ m = [raw |-> m.raw, len |-> m.len] /\ m.raw \in Nat
  BY <1>1 DEF Pages, Size
<1>3. Start(m.raw, r, h) \in Size
  BY <1>0, <1>1, <1>2, StartIn
<1>4. /\ b.kind = kind /\ b.at = Start(m.raw, r, h)
      /\ b.size = AtLeast(r.size, 1) /\ b.alignment = r.alignment
      /\ b.raw_ptr = m.raw /\ b.total_size = size
  BY DEF Block
<1>5. b \in BlockRecord
  <2>1. 0 \in Size
    BY <1>1 DEF Size
  <2> QED BY <1>0, <1>2, <1>3, <2>1 DEF Block, BlockRecord, Kind
<1>6. size = m.len => Under(b) = m /\ b.total_size # 0
  BY <1>2, <1>4 DEF Under
<1>7. Short(b) <=> Wraps(Total(r, h))
  <2>1. AtLeast(b.size, 1) = AtLeast(r.size, 1)
    BY <1>0, <1>4 DEF AtLeast
  <2>2. Aligned(b) = Aligned(r)
    BY <1>4 DEF Aligned
  <2>3. Total(b, h) = Total(r, h)
    BY <2>1, <2>2 DEF Total
  <2> QED BY <2>3, <1>4 DEF Short
<1>8. ASSUME ~Wraps(Total(r, h))
      PROVE  /\ b.total_size # 0 /\ b.raw_ptr + h <= b.at
             /\ b.at + b.size <= b.raw_ptr + b.total_size
  <2>1. size = m.len /\ Total(r, h) <= m.len
    BY <1>8
  <2>2. /\ m.raw + h <= Start(m.raw, r, h)
        /\ Start(m.raw, r, h) + AtLeast(r.size, 1) <= m.raw + m.len
    BY <1>0, <1>1, <2>1, Placement
  <2> QED BY <2>1, <2>2, <1>2, <1>4
<1>9. kind = "large" => b.total_size # 0
  BY <1>2, <1>4
<1>11. AlignedIn(b)
  <2>1. m.raw % Page = 0
    BY DEF Pages
  <2>2. /\ Start(m.raw, r, h) % r.alignment = 0
        /\ (Start(m.raw, r, h) - h)
             % (IF kind = "simple" THEN MinAlign ELSE MaxAlign) = 0
    BY <1>2, <2>1, StartAligned
  <2> QED BY <2>2, <1>4 DEF AlignedIn
<1>. HIDE DEF b
<1>10. BigIn(b, w \/ Wraps(Total(r, h)))
  BY <1>4, <1>7, <1>8, <1>9 DEF BigIn
<1> QED BY <1>4, <1>5, <1>6, <1>10, <1>11 DEF b

-----------------------------------------------------------------------------
(* Steps *)

(***************************************************************************)
(* The class of a small request covers it.                                 *)
(***************************************************************************)
LEMMA SmallClass ==
  ASSUME NEW r \in Request, Small(r)
  PROVE  LET c == kClassSizes[class_index_for_size(r.size)]
         IN  /\ c \in ClassSizes /\ c \in Size /\ c \in Nat /\ c < SlabSize
             /\ AtLeast(r.size, 1) <= c
<1>. DEFINE t == AtLeast(r.size, 1)
            c == kClassSizes[class_index_for_size(r.size)]
<1>1. r.size \in Nat /\ t \in Nat \ {0}
  BY Requests
<1>2. class_index_for_size(r.size) = class_index_for_size(t)
  BY <1>1, IndexIs
<1>3. t \in 1 .. T3
  <2>1. t <= T3
    BY DEF Small, Threshold, T3
  <2> QED BY <2>1, <1>1, TableFacts
<1>. HIDE DEF t
<1>4. c \in ClassSizes /\ t <= c
  BY <1>2, <1>3, Class
<1>. HIDE DEF c
<1>5. c \in Nat /\ c < SlabSize /\ c \in Size
  BY <1>4, Classes, TableFacts, Words DEF Size
<1> QED BY <1>4, <1>5 DEF c, t

\* The block that a slab gives.
LEMMA NewSmall ==
  ASSUME NEW r \in Request, Small(r), NEW s, NEW S,
         s.raw \in Size, s.raw + SlabSize < Word, s \in S,
         s = [raw |-> s.raw, size_class |-> s.size_class],
         s.size_class = kClassSizes[class_index_for_size(r.size)],
         NEW at \in BlocksOf(s.raw, s.size_class)
  PROVE  LET b == SmallBlock(s, at, r)
         IN  /\ b \in BlockRecord /\ b.kind = "small" /\ SmallIn(b, S)
             /\ AlignedIn(b)
             /\ b.raw_ptr = s.raw /\ b.at = at
<1>. DEFINE b == SmallBlock(s, at, r)
            c == s.size_class
<1>0. /\ r.alignment \in Size /\ AtLeast(r.size, 1) \in Size
      /\ Word \in Nat \ {0} /\ SlabSize \in Nat /\ SlabSize < Word
  BY Requests, Words, TableFacts
<1>1. c \in Size /\ c \in Nat /\ c < SlabSize /\ AtLeast(r.size, 1) <= c
  BY SmallClass
<1>2. at \in Size
  <2>1. s.raw \in Nat
    BY DEF Size
  <2>2. at \in Nat /\ at + c <= s.raw + SlabSize
    BY <1>1, <2>1, BlocksInSlab
  <2> QED BY <2>1, <2>2, <1>0, <1>1 DEF Size
<1>3. /\ b.kind = "small" /\ b.at = at /\ b.size = AtLeast(r.size, 1)
      /\ b.raw_ptr = s.raw /\ b.total_size = SlabSize /\ b.size_class = c
  BY DEF SmallBlock
<1>4. b \in BlockRecord
  <2>1. SlabSize \in Size
    BY <1>0 DEF Size
  <2> QED BY <1>0, <1>1, <1>2, <2>1 DEF SmallBlock, BlockRecord, Kind
<1>. HIDE DEF b
<1>5. SmallIn(b, S)
  BY <1>1, <1>3 DEF SmallIn
<1>6. AlignedIn(b)
  <2>1. at % r.alignment = 0 /\ (at - BlockHeader) % MaxAlign = 0
    BY <1>1, SlabAligned DEF Size
  <2>2. b.alignment = r.alignment
    BY DEF SmallBlock, b
  <2> QED BY <2>1, <2>2, <1>3 DEF AlignedIn, Header
<1> QED BY <1>3, <1>4, <1>5, <1>6 DEF b

\* The blocks with a mapping, when one comes or goes.
LEMMA HeldOf ==
  ASSUME NEW L, NEW b
  PROVE  /\ b.kind # "small" /\ b.total_size # 0
              => Held(L \cup {b}) = Held(L) \cup {b}
         /\ b.kind = "small" \/ b.total_size = 0
              => Held(L \cup {b}) = Held(L) /\ Held(L \ {b}) = Held(L)
         /\ Held(L \ {b}) = Held(L) \ {b}
BY DEF Held

\* A slab, its class and its mapping.
LEMMA SlabIs ==
  ASSUME IInv, NEW s \in slabs
  PROVE  /\ s = [raw |-> s.raw, size_class |-> s.size_class]
         /\ s.raw \in Size /\ s.raw \in Nat /\ s.raw + SlabSize < Word
         /\ s.size_class \in ClassSizes
         /\ SlabMapping(s) \in mapped
         /\ \A t \in slabs : t.raw = s.raw => t = s
<1>1. s \in [raw : Size, size_class : ClassSizes]
  BY DEF IInv
<1>2. SlabMapping(s) \in mapped /\ SlabMapping(s) \in Pages
  BY DEF IInv, Owned, MapsOK
<1>3. s.raw + SlabSize < Word /\ s.raw \in Nat
  BY <1>2 DEF SlabMapping, Pages
<1>4. \A t \in slabs : t.raw = s.raw => SlabMapping(t) = SlabMapping(s)
  BY DEF SlabMapping
<1>5. \A t \in slabs : t.raw = s.raw => t = s
  BY <1>4 DEF IInv, Owned
<1> QED BY <1>1, <1>2, <1>3, <1>5

\* AllocateExisting keeps the invariant.
LEMMA ExistingStep ==
  ASSUME IInv, NEW r \in Request, AllocateExisting(r)
  PROVE  IInv'
<1>1. PICK s \in slabs :
        /\ s.size_class = kClassSizes[class_index_for_size(r.size)]
        /\ \E at \in BlocksOf(s.raw, s.size_class) \ {b.at : b \in Used(s)} :
             live' = live \cup {SmallBlock(s, at, r)}
  BY DEF AllocateExisting
<1>2. PICK at \in BlocksOf(s.raw, s.size_class) \ {b.at : b \in Used(s)} :
        live' = live \cup {SmallBlock(s, at, r)}
  BY <1>1
<1>3. Small(r) /\ UNCHANGED <<mapped, cached, slabs, wrapped>>
  BY DEF AllocateExisting
<1>. DEFINE b == SmallBlock(s, at, r)
<1>4. /\ b \in BlockRecord /\ b.kind = "small" /\ SmallIn(b, slabs)
      /\ AlignedIn(b)
      /\ b.raw_ptr = s.raw /\ b.at = at
  BY <1>1, <1>2, <1>3, SlabIs, NewSmall
<1>. HIDE DEF b
<1>5. \A c \in live : c.kind = "small" /\ c.raw_ptr = b.raw_ptr => c.at # b.at
  BY <1>2, <1>4 DEF Used
<1>6. live' = live \cup {b}
  BY <1>2 DEF b
<1>7. Lives(live', slabs', wrapped')
  <2>1. Lives(live \cup {b}, slabs, wrapped)
    BY <1>4, <1>5, LiveSmall DEF IInv
  <2> QED BY <2>1, <1>3, <1>6
<1>8. Held(live') = Held(live)
  BY <1>4, <1>6, HeldOf
<1> QED BY <1>3, <1>7, <1>8 DEF IInv

\* CreateSlab keeps the invariant.
LEMMA CreateStep ==
  ASSUME IInv, NEW r \in Request, CreateSlab(r)
  PROVE  IInv'
<1>. DEFINE c == kClassSizes[class_index_for_size(r.size)]
<1>0. SlabSize \in Nat \ {0} /\ SlabSize % Page = 0 /\ SlabSize < Word
  BY LayoutAssumption
<1>1. PICK m \in Mappings(SlabSize) :
        LET s == [raw |-> m.raw, size_class |-> c]
        IN  /\ mapped' = mapped \cup {m}
            /\ slabs' = slabs \cup {s}
            /\ \E at \in BlocksOf(s.raw, s.size_class) :
                 live' = live \cup {SmallBlock(s, at, r)}
  BY DEF CreateSlab
<1>. DEFINE s == [raw |-> m.raw, size_class |-> c]
<1>2. PICK at \in BlocksOf(s.raw, s.size_class) :
        live' = live \cup {SmallBlock(s, at, r)}
  BY <1>1
<1>3. /\ Small(r) /\ UNCHANGED <<cached, wrapped>>
      /\ mapped' = mapped \cup {m} /\ slabs' = slabs \cup {s}
  BY <1>1 DEF CreateSlab
<1>4. /\ m \in Pages /\ m \notin mapped
      /\ \A n \in mapped : Apart(m, n)
      /\ \A n \in mapped : n.raw # m.raw
      /\ m.len = SlabSize
  BY <1>0, NewMapping DEF IInv
<1>5. s.raw = m.raw /\ s.size_class = c
      /\ s = [raw |-> s.raw, size_class |-> s.size_class]
  OBVIOUS
<1>6. c \in ClassSizes
  BY <1>3, SmallClass
<1>. HIDE DEF s, c
<1>7. /\ s.raw \in Size /\ s.raw + SlabSize < Word /\ s \in slabs'
      /\ SlabMapping(s) = m
  BY <1>0, <1>3, <1>4, <1>5, Words DEF Pages, Size, SlabMapping
<1>. DEFINE b == SmallBlock(s, at, r)
<1>8. /\ b \in BlockRecord /\ b.kind = "small" /\ SmallIn(b, slabs')
      /\ AlignedIn(b)
      /\ b.raw_ptr = s.raw /\ b.at = at
  BY <1>2, <1>3, <1>5, <1>7, NewSmall DEF c
<1>. HIDE DEF b
<1>9. \A x \in live : x.kind = "small" => x.raw_ptr # b.raw_ptr
  <2>1. TAKE x \in live
  <2>2. ASSUME x.kind = "small", x.raw_ptr = b.raw_ptr PROVE FALSE
    <3>1. [raw |-> x.raw_ptr, size_class |-> x.size_class] \in slabs
      BY <2>2 DEF IInv, Lives, SmallIn
    <3>2. SlabMapping([raw |-> x.raw_ptr, size_class |-> x.size_class]) \in mapped
      BY <3>1 DEF IInv, Owned
    <3> QED BY <3>2, <2>2, <1>4, <1>5, <1>8 DEF SlabMapping
  <2> QED BY <2>2
<1>10. Lives(live', slabs', wrapped')
  <2>1. Lives(live, slabs', wrapped)
    BY <1>3, LiveSlab DEF IInv
  <2>2. Lives(live \cup {b}, slabs', wrapped)
    BY <2>1, <1>8, <1>9, LiveSmall
  <2> QED BY <2>2, <1>2, <1>3 DEF b
<1>11. Owned(mapped', cached', slabs', Held(live'), wrapped')
  <2>1. Held(live') = Held(live)
    BY <1>2, <1>8, HeldOf DEF b
  <2>2. Owned(mapped \cup {m}, cached, slabs \cup {s}, Held(live), wrapped)
    BY <1>4, <1>7, OwnSlab DEF IInv
  <2> QED BY <2>1, <2>2, <1>3
<1>12. MapsOK(mapped')
  BY <1>3, <1>4, MapsMore DEF IInv
<1>13. slabs' \subseteq [raw : Size, size_class : ClassSizes]
  BY <1>3, <1>5, <1>6, <1>7 DEF IInv
<1> QED BY <1>3, <1>10, <1>11, <1>12, <1>13 DEF IInv

\* DeallocateSmall keeps the invariant.
LEMMA FreeSmallStep ==
  ASSUME IInv, NEW b \in live, DeallocateSmall(b)
  PROVE  IInv'
<1>1. PICK s \in slabs :
        /\ s.raw = b.raw_ptr
        /\ \/ UNCHANGED <<mapped, slabs>>
           \/ /\ Used(s) = {b}
              /\ slabs' = slabs \ {s}
              /\ mapped' = Released(mapped, s.raw, SlabSize)
  BY DEF DeallocateSmall
<1>2. b.kind = "small" /\ live' = live \ {b} /\ UNCHANGED <<cached, wrapped>>
  BY DEF DeallocateSmall
<1>3. Held(live') = Held(live)
  BY <1>2, HeldOf
<1>4. Lives(live', slabs, wrapped)
  BY <1>2, LiveLess DEF IInv
<1>5. CASE UNCHANGED <<mapped, slabs>>
  BY <1>2, <1>3, <1>4, <1>5 DEF IInv
<1>6. CASE /\ Used(s) = {b}
           /\ slabs' = slabs \ {s}
           /\ mapped' = Released(mapped, s.raw, SlabSize)
  <2>1. SlabMapping(s) \in mapped /\ \A t \in slabs : t.raw = s.raw => t = s
    BY SlabIs
  <2>2. mapped' = mapped \ {SlabMapping(s)}
    <3>. DEFINE m == SlabMapping(s)
    <3>1. m.raw = s.raw /\ m.len = SlabSize
      BY DEF SlabMapping
    <3>2. Released(mapped, m.raw, m.len) = mapped \ {m}
      BY <2>1, ReleasedWhole DEF IInv, MapsOK
    <3> QED BY <3>1, <3>2, <1>6
  <2>3. \A c \in live' : c.kind = "small" => c.raw_ptr # s.raw
    BY <1>2, <1>6 DEF Used
  <2>4. Lives(live', slabs', wrapped')
    BY <2>1, <2>3, <1>2, <1>4, <1>6, LiveFreeSlab
  <2>5. Owned(mapped', cached', slabs', Held(live'), wrapped')
    BY <2>2, <1>2, <1>3, <1>6, OwnFreeSlab DEF IInv
  <2>6. MapsOK(mapped')
    BY <2>2, MapsLess DEF IInv
  <2> QED BY <2>4, <2>5, <2>6, <1>2, <1>6 DEF IInv
<1> QED BY <1>1, <1>5, <1>6

(***************************************************************************)
(* A block that allocate_from_span may have placed in m.                   *)
(***************************************************************************)
LEMMA PlaceStep ==
  ASSUME IInv, NEW r \in Request, Large(r), NEW m \in Pages,
         NEW size \in SpanSizes(Total(r, BlockHeader)), size <= m.len,
         PlaceLarge(m, r), Noted(r, BlockHeader)
  PROVE  LET b == Block("large", m, m.len, r)
         IN  /\ Under(b) = m
             /\ Lives(live', slabs, wrapped')
             /\ \/ Held(live') = Held(live) \cup {b}
                \/ Held(live') = Held(live) /\ wrapped' = TRUE
<1>. DEFINE b == Block("large", m, m.len, r)
            total == Total(r, BlockHeader)
            x == Wraps(total)
<1>0. r.size \in Nat /\ r.alignment \in Nat \ {0} /\ BlockHeader \in Nat
  BY Requests, LayoutAssumption
<1>1. total \in Nat \ {0} /\ Header("large") = BlockHeader
  BY <1>0, Totals DEF Header
<1>2. m.len \in Nat /\ wrapped \in BOOLEAN /\ wrapped' = (wrapped \/ x)
  BY DEF Pages, IInv, Noted
<1>3. ~x => total <= m.len
  <2>1. size \in Nat /\ (~x => total <= size)
    BY <1>1, Spans
  <2> QED BY <2>1, <1>1, <1>2
<1>4. /\ b \in BlockRecord /\ b.kind = "large" /\ BigIn(b, wrapped \/ x)
      /\ AlignedIn(b)
      /\ Under(b) = m /\ b.total_size # 0
  BY <1>1, <1>2, <1>3, NewBlock
<1>5. x \/ Fits(m, m.len, r, BlockHeader)
  BY <1>0, <1>3, Placement
<1>6. live' = live \cup {d \in {b} : Fits(m, m.len, r, BlockHeader)}
  BY DEF PlaceLarge
<1>. HIDE DEF b, x, total
<1>7. CASE Fits(m, m.len, r, BlockHeader)
  <2>1. live' = live \cup {b}
    BY <1>6, <1>7
  <2>2. Lives(live', slabs, wrapped \/ x)
    BY <2>1, <1>4, LiveBig DEF IInv
  <2>3. Held(live') = Held(live) \cup {b}
    BY <2>1, <1>4, HeldOf
  <2> QED BY <2>2, <2>3, <1>2, <1>4 DEF b
<1>8. CASE ~Fits(m, m.len, r, BlockHeader)
  <2>1. live' = live /\ x
    BY <1>5, <1>6, <1>8
  <2>2. Lives(live', slabs, wrapped \/ x)
    BY <2>1, LiveLess DEF IInv
  <2> QED BY <2>1, <2>2, <1>2, <1>4 DEF b
<1> QED BY <1>7, <1>8

\* AllocateCached keeps the invariant.
LEMMA CachedStep ==
  ASSUME IInv, NEW r \in Request, AllocateCached(r)
  PROVE  IInv'
<1>1. PICK size \in SpanSizes(Total(r, BlockHeader)), m \in cached :
        size <= m.len /\ cached' = cached \ {m} /\ PlaceLarge(m, r)
  BY DEF AllocateCached
<1>2. /\ Large(r) /\ Noted(r, BlockHeader)
      /\ UNCHANGED <<mapped, slabs>>
  BY DEF AllocateCached
<1>3. m \in Pages
  BY DEF IInv, Owned, MapsOK
<1>. DEFINE b == Block("large", m, m.len, r)
<1>4. /\ Under(b) = m
      /\ Lives(live', slabs, wrapped')
      /\ \/ Held(live') = Held(live) \cup {b}
         \/ Held(live') = Held(live) /\ wrapped' = TRUE
  BY <1>1, <1>2, <1>3, PlaceStep
<1>. HIDE DEF b
<1>5. wrapped' \in BOOLEAN
      /\ wrapped' = (wrapped \/ Wraps(Total(r, BlockHeader)))
  BY <1>2 DEF Noted
<1>6. Owned(mapped, cached', slabs, Held(live'), wrapped')
  <2>0. Owned(mapped, cached, slabs, Held(live), wrapped)
    BY DEF IInv
  <2>1. CASE Held(live') = Held(live) \cup {b}
    <3>1. wrapped => wrapped'
      BY <1>5
    <3>2. Owned(mapped, cached \ {m}, slabs, Held(live) \cup {b}, wrapped')
      BY <3>1, <2>0, <1>4, OwnTake
    <3> QED BY <3>2, <2>1, <1>1
  <2>2. CASE Held(live') = Held(live) /\ wrapped' = TRUE
    BY <2>0, <2>2, <1>1, OwnWrap
  <2> QED BY <2>1, <2>2, <1>4
<1> QED BY <1>1, <1>2, <1>4, <1>5, <1>6 DEF IInv

\* AllocateLarge keeps the invariant.
LEMMA LargeStep ==
  ASSUME IInv, NEW r \in Request, AllocateLarge(r)
  PROVE  IInv'
<1>1. PICK size \in SpanSizes(Total(r, BlockHeader)) :
        \E m \in Mappings(size) : mapped' = mapped \cup {m} /\ PlaceLarge(m, r)
  BY DEF AllocateLarge
<1>2. PICK m \in Mappings(size) : mapped' = mapped \cup {m} /\ PlaceLarge(m, r)
  BY <1>1
<1>3. /\ Large(r) /\ Noted(r, BlockHeader)
      /\ UNCHANGED <<cached, slabs>>
  BY DEF AllocateLarge
<1>4. Total(r, BlockHeader) \in Nat \ {0}
  BY Requests, Totals, LayoutAssumption
<1>5. size \in Nat \ {0} /\ size % Page = 0 /\ size < Word
  BY <1>4, Spans
<1>6. /\ m \in Pages /\ m \notin mapped /\ m.len = size
      /\ \A n \in mapped : Apart(m, n)
  BY <1>5, NewMapping DEF IInv
<1>. DEFINE b == Block("large", m, m.len, r)
<1>7. /\ Under(b) = m
      /\ Lives(live', slabs, wrapped')
      /\ \/ Held(live') = Held(live) \cup {b}
         \/ Held(live') = Held(live) /\ wrapped' = TRUE
  <2>1. size <= m.len
    BY <1>5, <1>6
  <2> QED BY <2>1, <1>2, <1>3, <1>6, PlaceStep
<1>. HIDE DEF b
<1>8. wrapped' \in BOOLEAN
      /\ wrapped' = (wrapped \/ Wraps(Total(r, BlockHeader)))
  BY <1>3 DEF Noted
<1>9. Owned(mapped', cached, slabs, Held(live'), wrapped')
  <2>0. Owned(mapped, cached, slabs, Held(live), wrapped)
    BY DEF IInv
  <2>1. CASE Held(live') = Held(live) \cup {b}
    <3>1. wrapped => wrapped'
      BY <1>8
    <3> QED BY <3>1, <2>0, <2>1, <1>2, <1>6, <1>7, OwnMap
  <2>2. CASE Held(live') = Held(live) /\ wrapped' = TRUE
    BY <2>0, <2>2, <1>2, OwnWrap
  <2> QED BY <2>1, <2>2, <1>7
<1>10. MapsOK(mapped')
  BY <1>2, <1>6, MapsMore DEF IInv
<1> QED BY <1>3, <1>7, <1>8, <1>9, <1>10 DEF IInv

(***************************************************************************)
(* A bind that fails gives the memory back, or the rounding had wrapped.   *)
(***************************************************************************)
LEMMA FailsStep ==
  ASSUME IInv, NEW size \in Nat, size % Page = 0, size < Word, NEW m \in Mappings(size),
         mapped' = Released(mapped \cup {m}, m.raw, size),
         UNCHANGED <<cached, slabs, live>>,
         NEW x \in BOOLEAN, size = 0 => x, wrapped' = (wrapped \/ x)
  PROVE  IInv'
<1>1. Lives(live', slabs', wrapped')
  BY LiveLess DEF IInv
<1>2. Owned(mapped, cached, slabs, Held(live), wrapped) /\ MapsOK(mapped)
  BY DEF IInv
<1>3. CASE size # 0
  <2>1. mapped' = mapped
    BY <1>2, <1>3, MapAndRelease
  <2>2. wrapped => wrapped'
    OBVIOUS
  <2>3. Owned(mapped', cached', slabs', Held(live'), wrapped')
    <3>1. Owned(mapped, cached, slabs, Held(live), wrapped')
      BY <2>2, <1>2, OwnWeak
    <3> QED BY <3>1, <2>1
  <2>4. wrapped' \in BOOLEAN
    OBVIOUS
  <2> QED BY <2>1, <2>3, <2>4, <1>1, <1>2 DEF IInv
<1>4. CASE size = 0
  <2>1. mapped' = mapped \cup {m} /\ MapsOK(mapped \cup {m})
    BY <1>2, <1>4, MapAndRelease
  <2>2. wrapped' = TRUE
    BY <1>4
  <2>3. Owned(mapped', cached', slabs', Held(live'), wrapped')
    <3>1. Owned(mapped \cup {m}, cached, slabs, Held(live), wrapped')
      BY <2>2, <1>2, OwnWrap, Zenon
    <3> QED BY <3>1, <2>1
  <2> QED BY <2>1, <2>2, <2>3, <1>1 DEF IInv
<1> QED BY <1>3, <1>4

\* AllocateLargeFails keeps the invariant.
LEMMA LargeFailsStep ==
  ASSUME IInv, NEW r \in Request, AllocateLargeFails(r)
  PROVE  IInv'
<1>1. PICK size \in SpanSizes(Total(r, BlockHeader)) : BindFails(size)
  BY DEF AllocateLargeFails
<1>2. PICK m \in Mappings(size) : mapped' = Released(mapped \cup {m}, m.raw, size)
  BY <1>1 DEF BindFails
<1>3. UNCHANGED <<cached, slabs, live>> /\ Noted(r, BlockHeader)
  BY <1>1 DEF BindFails, AllocateLargeFails
<1>4. Total(r, BlockHeader) \in Nat \ {0}
  BY Requests, Totals, LayoutAssumption
<1>5. size \in Nat \ {0} /\ size % Page = 0 /\ size < Word
  BY <1>4, Spans
<1>6. /\ Wraps(Total(r, BlockHeader)) \in BOOLEAN
      /\ wrapped' = (wrapped \/ Wraps(Total(r, BlockHeader)))
  BY <1>3 DEF Noted, Wraps
<1> QED BY <1>2, <1>3, <1>5, <1>6, FailsStep

\* The mapping of a block, and its release.
LEMMA HeldIn ==
  ASSUME IInv, NEW b \in Held(live)
  PROVE  /\ Under(b) \in mapped
         /\ Released(mapped, b.raw_ptr, b.total_size) = mapped \ {Under(b)}
         /\ Under(b) = [raw |-> b.raw_ptr, len |-> b.total_size]
<1>1. Under(b) \in mapped
  BY DEF IInv, Owned
<1>2. Under(b).raw = b.raw_ptr /\ Under(b).len = b.total_size
  BY DEF Under
<1>. DEFINE m == Under(b)
<1>3. Released(mapped, m.raw, m.len) = mapped \ {m}
  BY <1>1, ReleasedWhole DEF IInv, MapsOK
<1> QED BY <1>1, <1>2, <1>3 DEF Under

\* DeallocateLarge keeps the invariant.
LEMMA FreeLargeStep ==
  ASSUME IInv, NEW b \in live, DeallocateLarge(b)
  PROVE  IInv'
<1>. DEFINE m == [raw |-> b.raw_ptr, len |-> b.total_size]
<1>1. /\ b.kind = "large" /\ live' = live \ {b}
      /\ UNCHANGED <<slabs, wrapped>>
      /\ \/ /\ b.total_size \in LargeBinSizes
            /\ cached' = cached \cup {m}
            /\ UNCHANGED mapped
         \/ /\ mapped' = Released(mapped, b.raw_ptr, b.total_size)
            /\ UNCHANGED cached
  BY DEF DeallocateLarge
<1>2. b \in Held(live) /\ b \in BlockRecord
  BY <1>1 DEF IInv, Lives, BigIn, Held
<1>3. /\ Under(b) = m
      /\ Released(mapped, b.raw_ptr, b.total_size) = mapped \ {Under(b)}
  BY <1>2, HeldIn
<1>. HIDE DEF m
<1>4. Held(live') = Held(live) \ {b}
  BY <1>1, HeldOf
<1>5. Lives(live', slabs', wrapped')
  BY <1>1, LiveLess DEF IInv
<1>6. Owned(mapped, cached, slabs, Held(live), wrapped) /\ MapsOK(mapped)
  BY DEF IInv
<1>7. CASE b.total_size \in LargeBinSizes /\ cached' = cached \cup {m} /\ UNCHANGED mapped
  <2>1. Owned(mapped', cached', slabs', Held(live'), wrapped')
    BY <1>1, <1>2, <1>3, <1>4, <1>6, <1>7, OwnCache
  <2>2. m \in [raw : Size, len : LargeBinSizes]
    BY <1>2, <1>7 DEF m, BlockRecord
  <2> QED BY <2>1, <2>2, <1>1, <1>5, <1>7 DEF IInv
<1>8. CASE mapped' = Released(mapped, b.raw_ptr, b.total_size) /\ UNCHANGED cached
  <2>1. Owned(mapped', cached', slabs', Held(live'), wrapped')
    BY <1>1, <1>2, <1>3, <1>4, <1>6, <1>8, OwnFree
  <2>2. MapsOK(mapped')
    BY <1>3, <1>6, <1>8, MapsLess
  <2> QED BY <2>1, <2>2, <1>1, <1>5, <1>8 DEF IInv
<1> QED BY <1>1, <1>7, <1>8

\* AllocateSimple keeps the invariant.
LEMMA SimpleStep ==
  ASSUME IInv, NEW r \in Request, AllocateSimple(r)
  PROVE  IInv'
<1>. DEFINE size == SimpleSize(r)
            total == Total(r, AllocationHeader)
            x == Wraps(total)
<1>0. /\ r.size \in Nat /\ r.alignment \in Nat \ {0} /\ AllocationHeader \in Nat
      /\ Header("simple") = AllocationHeader /\ x \in BOOLEAN
  BY Requests, LayoutAssumption DEF Header, Wraps
<1>1. PICK m \in Mappings(size) :
        IF Fits(m, size, r, AllocationHeader)
        THEN /\ mapped' = mapped \cup {m}
             /\ live' = live \cup {Block("simple", m, size, r)}
        ELSE /\ mapped' = Released(mapped \cup {m}, m.raw, size)
             /\ UNCHANGED live
  BY DEF AllocateSimple
<1>2. UNCHANGED <<cached, slabs>> /\ wrapped' = (wrapped \/ x)
  BY DEF AllocateSimple, Noted
<1>3. /\ size \in Nat /\ size % Page = 0 /\ size < Word
      /\ ~x => size # 0 /\ total <= size
  BY <1>0, SimpleSizes
<1>. HIDE DEF size, total
<1>4. /\ m \in Pages /\ m \notin mapped
      /\ size # 0 => m.len = size
      /\ \A n \in mapped : Apart(m, n)
  BY <1>3, NewMapping DEF IInv
<1>. DEFINE b == Block("simple", m, size, r)
<1>5. CASE Fits(m, size, r, AllocationHeader)
  <2>1. mapped' = mapped \cup {m} /\ live' = live \cup {b}
    BY <1>1, <1>5
  <2>2. /\ b \in BlockRecord /\ b.kind = "simple" /\ BigIn(b, wrapped \/ x)
        /\ AlignedIn(b)
        /\ size = m.len => Under(b) = m /\ b.total_size # 0
        /\ b.total_size = size
    <3>1. size \in {0, m.len} /\ (~x => size = m.len /\ total <= m.len)
      BY <1>3, <1>4
    <3>2. wrapped \in BOOLEAN
      BY DEF IInv
    <3> QED BY <3>1, <3>2, <1>0, <1>4, NewBlock DEF total
  <2>. HIDE DEF b
  <2>3. Lives(live', slabs', wrapped')
    BY <2>1, <2>2, <1>2, LiveBig DEF IInv
  <2>4. MapsOK(mapped')
    BY <2>1, <1>4, MapsMore DEF IInv
  <2>5. Owned(mapped', cached', slabs', Held(live'), wrapped')
    <3>0. Owned(mapped, cached, slabs, Held(live), wrapped)
      BY DEF IInv
    <3>1. CASE size # 0
      <4>1. Under(b) = m /\ Held(live') = Held(live) \cup {b}
        BY <3>1, <2>1, <2>2, <1>4, HeldOf
      <4>2. wrapped => wrapped'
        BY <1>2
      <4>3. Owned(mapped \cup {m}, cached, slabs, Held(live) \cup {b}, wrapped')
        BY <4>1, <4>2, <3>0, <1>4, OwnMap
      <4> QED BY <4>1, <4>3, <2>1, <1>2
    <3>2. CASE size = 0
      <4>1. Held(live') = Held(live) /\ wrapped' = TRUE
        BY <3>2, <2>1, <2>2, <1>2, <1>3, HeldOf
      <4> QED BY <4>1, <3>0, <2>1, <1>2, OwnWrap
    <3> QED BY <3>1, <3>2
  <2> QED BY <2>3, <2>4, <2>5, <1>0, <1>2 DEF IInv
<1>6. CASE ~Fits(m, size, r, AllocationHeader)
  <2>1. mapped' = Released(mapped \cup {m}, m.raw, size) /\ UNCHANGED live
    BY <1>1, <1>6
  <2>2. size = 0 => x
    BY <1>3
  <2>. HIDE DEF x
  <2> QED BY <2>1, <2>2, <1>0, <1>2, <1>3, FailsStep
<1> QED BY <1>5, <1>6

\* AllocateSimpleFails keeps the invariant.
LEMMA SimpleFailsStep ==
  ASSUME IInv, NEW r \in Request, AllocateSimpleFails(r)
  PROVE  IInv'
<1>. DEFINE size == SimpleSize(r)
            x == Wraps(Total(r, AllocationHeader))
<1>1. PICK m \in Mappings(size) : mapped' = Released(mapped \cup {m}, m.raw, size)
  BY DEF AllocateSimpleFails, BindFails
<1>2. UNCHANGED <<cached, slabs, live>> /\ wrapped' = (wrapped \/ x)
  BY DEF AllocateSimpleFails, BindFails, Noted
<1>3. /\ size \in Nat /\ size % Page = 0 /\ size < Word
      /\ ~x => size # 0
  BY Requests, SimpleSizes
<1>4. x \in BOOLEAN
  BY DEF Wraps
<1>. HIDE DEF size, x
<1> QED BY <1>1, <1>2, <1>3, <1>4, FailsStep

\* DeallocateSimple keeps the invariant.
LEMMA FreeSimpleStep ==
  ASSUME IInv, NEW b \in live, DeallocateSimple(b)
  PROVE  IInv'
<1>1. /\ b.kind = "simple" /\ live' = live \ {b}
      /\ mapped' = Released(mapped, b.raw_ptr, b.total_size)
      /\ UNCHANGED <<cached, slabs, wrapped>>
  BY DEF DeallocateSimple
<1>2. b.raw_ptr \in Nat
  BY DEF IInv, Lives, BlockRecord, Size
<1>3. Lives(live', slabs', wrapped')
  BY <1>1, LiveLess DEF IInv
<1>4. Owned(mapped, cached, slabs, Held(live), wrapped) /\ MapsOK(mapped)
  BY DEF IInv
<1>5. CASE b.total_size = 0
  <2>1. mapped' = mapped
    BY <1>1, <1>2, <1>4, <1>5, ReleasedNothing DEF MapsOK
  <2>2. Held(live') = Held(live)
    BY <1>1, <1>5, HeldOf
  <2> QED BY <2>1, <2>2, <1>1, <1>3, <1>4 DEF IInv
<1>6. CASE b.total_size # 0
  <2>1. b \in Held(live)
    BY <1>1, <1>6 DEF Held
  <2>2. mapped' = mapped \ {Under(b)}
    BY <2>1, <1>1, HeldIn
  <2>3. Held(live') = Held(live) \ {b}
    BY <1>1, HeldOf
  <2>4. Owned(mapped', cached', slabs', Held(live'), wrapped')
    BY <2>1, <2>2, <2>3, <1>1, <1>4, OwnFree
  <2>5. MapsOK(mapped')
    BY <2>2, <1>4, MapsLess
  <2> QED BY <2>4, <2>5, <1>1, <1>3 DEF IInv
<1> QED BY <1>5, <1>6

\* The invariant holds at first.
LEMMA InitInv == Init => IInv
BY DEF Init, IInv, MapsOK, Owned, Lives, Held

\* Every step keeps the invariant.
LEMMA StepInv == IInv /\ [Next]_vars => IInv'
<1>. SUFFICES ASSUME IInv, [Next]_vars PROVE IInv'
  OBVIOUS
<1>1. ASSUME NEW r \in Request, Allocate(r) PROVE IInv'
  BY <1>1, ExistingStep, CreateStep, CachedStep, LargeStep, LargeFailsStep,
     SimpleStep, SimpleFailsStep DEF Allocate
<1>2. ASSUME NEW b \in live, Deallocate(b) PROVE IInv'
  BY <1>2, FreeSmallStep, FreeLargeStep, FreeSimpleStep DEF Deallocate
<1>3. CASE UNCHANGED vars
  BY <1>3 DEF vars, IInv
<1> QED BY <1>1, <1>2, <1>3 DEF Next

(***************************************************************************)
(* The invariant holds always.                                             *)
(***************************************************************************)
THEOREM Invariant == Spec => []IInv
BY InitInv, StepInv, PTL DEF Spec

-----------------------------------------------------------------------------
(* What the invariant gives *)

(***************************************************************************)
(* Every variable has its type.                                            *)
(***************************************************************************)
THEOREM TypeCorrect == Spec => []TypeOK
<1>1. IInv => TypeOK
  <2>. SUFFICES ASSUME IInv PROVE TypeOK
    OBVIOUS
  <2>1. mapped \subseteq [raw : Size, len : Size]
    BY Words DEF IInv, MapsOK, Pages, Size
  <2>2. ClassSizes \subseteq Size
    BY Classes, TableFacts, Words DEF Size
  <2> QED BY <2>1, <2>2 DEF IInv, TypeOK, Lives, BlockRecord
<1> QED BY <1>1, Invariant, PTL

\* A small block lies in its slab.
LEMMA SmallInside ==
  ASSUME IInv, NEW b \in live, b.kind = "small"
  PROVE  /\ Under(b) \in mapped /\ Header(b.kind) = BlockHeader
         /\ b.raw_ptr \in Nat /\ b.raw_ptr + SlabSize < Word
         /\ b.total_size = SlabSize
         /\ b.size_class \in ClassSizes /\ b.size_class \in Nat
         /\ b.size_class < SlabSize /\ b.size <= b.size_class /\ b.size \in Nat
         /\ b.at \in BlocksOf(b.raw_ptr, b.size_class)
         /\ [raw |-> b.raw_ptr, size_class |-> b.size_class] \in slabs
         /\ b.at \in Nat
         /\ b.raw_ptr + SlabHeader + BlockHeader <= b.at
         /\ b.at + b.size_class <= b.raw_ptr + SlabSize
         /\ SlabMapping([raw |-> b.raw_ptr, size_class |-> b.size_class]) = Under(b)
<1>1. SmallIn(b, slabs) /\ b \in BlockRecord
  BY DEF IInv, Lives
<1>. DEFINE s == [raw |-> b.raw_ptr, size_class |-> b.size_class]
<1>2. s \in slabs /\ s.raw = b.raw_ptr /\ s.size_class = b.size_class
  BY <1>1 DEF SmallIn
<1>. HIDE DEF s
<1>3. /\ s.raw \in Nat /\ s.raw + SlabSize < Word /\ s.size_class \in ClassSizes
      /\ SlabMapping(s) \in mapped
  BY <1>2, SlabIs
<1>4. s.size_class \in Nat /\ s.size_class < SlabSize
  BY <1>3, Classes
<1>5. SlabMapping(s) = Under(b)
  BY <1>1, <1>2 DEF SlabMapping, Under, SmallIn
<1>6. b.at \in BlocksOf(b.raw_ptr, b.size_class) /\ b.size <= b.size_class
      /\ b.total_size = SlabSize
  BY <1>1 DEF SmallIn
<1>7. /\ b.at \in Nat /\ b.raw_ptr + SlabHeader + BlockHeader <= b.at
      /\ b.at + b.size_class <= b.raw_ptr + SlabSize
  BY <1>2, <1>3, <1>4, <1>6, BlocksInSlab
<1>8. b.size \in Nat /\ Header(b.kind) = BlockHeader
  BY <1>1 DEF BlockRecord, Size, Header
<1> QED BY <1>2, <1>3, <1>4, <1>5, <1>6, <1>7, <1>8 DEF s

\* A block lies in its memory.
LEMMA Inside ==
  ASSUME IInv, NEW b \in live, ~Short(b)
  PROVE  /\ b.raw_ptr \in Nat /\ b.total_size \in Nat /\ b.at \in Nat
         /\ b.size \in Nat /\ Header(b.kind) \in Nat
         /\ b.raw_ptr + (IF b.kind = "small" THEN SlabHeader ELSE 0)
              <= b.at - Header(b.kind)
         /\ b.raw_ptr <= b.at - Header(b.kind)
         /\ b.at + b.size <= b.raw_ptr + b.total_size
         /\ Under(b) \in mapped
<1>0. /\ BlockHeader \in Nat /\ AllocationHeader \in Nat /\ SlabHeader \in Nat
      /\ SlabSize \in Nat
  BY LayoutAssumption
<1>1. b \in BlockRecord /\ Header(b.kind) \in Nat
  BY <1>0 DEF IInv, Lives, Header
<1>2. /\ b.raw_ptr \in Nat /\ b.total_size \in Nat /\ b.at \in Nat
      /\ b.size \in Nat
  BY <1>1 DEF BlockRecord, Size
<1>3. CASE b.kind = "small"
  <2>1. /\ Under(b) \in mapped /\ b.total_size = SlabSize /\ b.size <= b.size_class
        /\ b.raw_ptr + SlabHeader + BlockHeader <= b.at
        /\ b.at + b.size_class <= b.raw_ptr + SlabSize
        /\ Header(b.kind) = BlockHeader /\ b.size_class \in Nat
    BY <1>3, SmallInside
  <2> QED BY <2>1, <1>0, <1>2, <1>3
<1>4. CASE b.kind # "small"
  <2>1. /\ b.total_size # 0 /\ b.raw_ptr + Header(b.kind) <= b.at
        /\ b.at + b.size <= b.raw_ptr + b.total_size
    BY <1>4 DEF IInv, Lives, BigIn
  <2>2. b \in Held(live)
    BY <2>1, <1>4 DEF Held
  <2>3. Under(b) \in mapped
    BY <2>2 DEF IInv, Owned
  <2> QED BY <2>1, <2>3, <1>1, <1>2, <1>4
<1> QED BY <1>1, <1>3, <1>4

(***************************************************************************)
(* A block lies, header included, in mapped memory that its header names,  *)
(* unless rounding its total to pages wraps.                               *)
(***************************************************************************)
THEOREM BlocksStayInside == Spec => []BlocksInside
<1>1. IInv => BlocksInside
  BY Inside DEF BlocksInside, Under
<1> QED BY <1>1, Invariant, PTL

\* Two blocks lie apart.
LEMMA Separate ==
  ASSUME IInv, NEW b \in live, NEW c \in live, b # c, ~Short(b), ~Short(c)
  PROVE  \/ b.at + b.size <= c.at - Header(c.kind)
         \/ c.at + c.size <= b.at - Header(b.kind)
<1>1. /\ b.raw_ptr \in Nat /\ b.total_size \in Nat /\ b.at \in Nat
      /\ b.size \in Nat /\ Header(b.kind) \in Nat
      /\ b.raw_ptr <= b.at - Header(b.kind)
      /\ b.at + b.size <= b.raw_ptr + b.total_size
      /\ Under(b) \in mapped
      /\ Under(b).raw = b.raw_ptr /\ Under(b).len = b.total_size
  BY Inside DEF Under
<1>2. /\ c.raw_ptr \in Nat /\ c.total_size \in Nat /\ c.at \in Nat
      /\ c.size \in Nat /\ Header(c.kind) \in Nat
      /\ c.raw_ptr <= c.at - Header(c.kind)
      /\ c.at + c.size <= c.raw_ptr + c.total_size
      /\ Under(c) \in mapped
      /\ Under(c).raw = c.raw_ptr /\ Under(c).len = c.total_size
  BY Inside DEF Under
<1>3. CASE Under(b) # Under(c)
  <2>1. Apart(Under(b), Under(c))
    BY <1>1, <1>2, <1>3 DEF IInv, MapsOK
  <2>2. \/ b.raw_ptr + b.total_size <= c.raw_ptr
        \/ c.raw_ptr + c.total_size <= b.raw_ptr
    BY <2>1, <1>1, <1>2 DEF Apart
  <2> QED BY <2>2, <1>1, <1>2
<1>4. CASE Under(b) = Under(c)
  <2>0. \A d \in live : d.kind # "small" /\ ~Short(d) => d \in Held(live)
    BY DEF IInv, Lives, BigIn, Held
  <2>1. ~(b.kind # "small" /\ c.kind # "small")
    BY <2>0, <1>4 DEF IInv, Owned
  <2>2. ~(b.kind # "small" /\ c.kind = "small")
    <3>. SUFFICES ASSUME b.kind # "small", c.kind = "small" PROVE FALSE
      OBVIOUS
    <3>. DEFINE s == [raw |-> c.raw_ptr, size_class |-> c.size_class]
    <3>1. s \in slabs /\ SlabMapping(s) = Under(c)
      BY SmallInside
    <3>. HIDE DEF s
    <3> QED BY <3>1, <2>0, <1>4 DEF IInv, Owned
  <2>3. ~(b.kind = "small" /\ c.kind # "small")
    <3>. SUFFICES ASSUME b.kind = "small", c.kind # "small" PROVE FALSE
      OBVIOUS
    <3>. DEFINE s == [raw |-> b.raw_ptr, size_class |-> b.size_class]
    <3>1. s \in slabs /\ SlabMapping(s) = Under(b)
      BY SmallInside
    <3>. HIDE DEF s
    <3> QED BY <3>1, <2>0, <1>4 DEF IInv, Owned
  <2>4. CASE b.kind = "small" /\ c.kind = "small"
    <3>1. b.raw_ptr = c.raw_ptr
      BY <1>1, <1>2, <1>4
    <3>2. b.at # c.at
      BY <3>1, <2>4 DEF IInv, Lives
    <3>3. /\ Header(b.kind) = BlockHeader /\ b.size <= b.size_class
          /\ b.size_class \in Nat /\ b.size_class < SlabSize
          /\ b.at \in BlocksOf(b.raw_ptr, b.size_class)
          /\ [raw |-> b.raw_ptr, size_class |-> b.size_class] \in slabs
          /\ b.raw_ptr + SlabSize < Word
      BY <2>4, SmallInside
    <3>4. /\ Header(c.kind) = BlockHeader /\ c.size <= c.size_class
          /\ c.at \in BlocksOf(c.raw_ptr, c.size_class)
          /\ [raw |-> c.raw_ptr, size_class |-> c.size_class] \in slabs
      BY <2>4, SmallInside
    <3>5. b.size_class = c.size_class
      <4>. DEFINE s == [raw |-> b.raw_ptr, size_class |-> b.size_class]
                  t == [raw |-> c.raw_ptr, size_class |-> c.size_class]
      <4>1. s.raw = t.raw /\ s.size_class = b.size_class /\ t.size_class = c.size_class
        BY <3>1
      <4>2. s = t
        BY <3>3, <3>4, <4>1, SlabIs
      <4> QED BY <4>1, <4>2
    <3>6. \/ c.at + b.size_class <= b.at - BlockHeader
          \/ b.at + b.size_class <= c.at - BlockHeader
      <4>1. c.at \in BlocksOf(b.raw_ptr, b.size_class)
        BY <3>1, <3>4, <3>5
      <4> QED BY <4>1, <3>2, <3>3, <1>1, BlocksInSlab
    <3>7. BlockHeader \in Nat
      BY LayoutAssumption
    <3> QED BY <3>3, <3>4, <3>5, <3>6, <3>7, <1>1, <1>2
  <2> QED BY <2>1, <2>2, <2>3, <2>4
<1> QED BY <1>3, <1>4

(***************************************************************************)
(* The memory of two blocks, headers included, does not overlap.           *)
(***************************************************************************)
THEOREM BlocksStayDisjoint == Spec => []BlocksDisjoint
<1>1. IInv => BlocksDisjoint
  BY Separate DEF BlocksDisjoint
<1> QED BY <1>1, Invariant, PTL

(***************************************************************************)
(* Every mapping is under a block, in the span cache or a slab, unless a   *)
(* page rounding has wrapped.                                              *)
(***************************************************************************)
THEOREM NothingIsLost == Spec => []NothingLost
<1>1. IInv => NothingLost
  <2>. SUFFICES ASSUME IInv, ~wrapped
                PROVE  mapped = {[raw |-> b.raw_ptr, len |-> b.total_size] : b \in live}
                                  \cup cached \cup {SlabMapping(s) : s \in slabs}
    BY DEF NothingLost
  <2>1. \A b \in live : Under(b) \in mapped
    <3>1. TAKE b \in live
    <3>2. CASE b.kind = "small"
      BY <3>2, SmallInside
    <3>3. CASE b.kind # "small"
      <4>1. ~Short(b)
        BY <3>3 DEF IInv, Lives, BigIn
      <4> QED BY <4>1, Inside
    <3> QED BY <3>2, <3>3
  <2>2. cached \subseteq mapped /\ \A s \in slabs : SlabMapping(s) \in mapped
    BY DEF IInv, Owned
  <2>3. \A m \in mapped : \/ \E b \in live : m = Under(b)
                          \/ m \in cached
                          \/ \E s \in slabs : m = SlabMapping(s)
    BY DEF IInv, Owned, Held
  <2> QED BY <2>1, <2>2, <2>3 DEF Under
<1> QED BY <1>1, Invariant, PTL

(***************************************************************************)
(* The formula for the index of a size agrees with the table that is built *)
(* by counting, and the class in a header covers its block.                *)
(***************************************************************************)
THEOREM ClassTableIsExact == Spec => []ClassTableExact
<1>1. IInv => ClassTableExact
  <2>. SUFFICES ASSUME IInv PROVE ClassTableExact
    OBVIOUS
  <2>1. ASSUME NEW s \in slabs
        PROVE  /\ RowExact[s.size_class]
               /\ s.size_class <= max_cached_bytes_for_class(s.size_class)
    BY <2>1, SlabIs, Rows, Classes
  <2>2. ASSUME NEW b \in live, b.kind = "small"
        PROVE  /\ b.size <= b.size_class
               /\ kClassSizes[class_index_for_size(b.size_class)] = b.size_class
               /\ [raw |-> b.raw_ptr, size_class |-> b.size_class] \in slabs
    BY <2>2, SmallInside, Classes
  <2> QED BY <2>1, <2>2 DEF ClassTableExact
<1> QED BY <1>1, Invariant, PTL

(***************************************************************************)
(* User memory has the alignment asked for, and the header before it that  *)
(* of its type.                                                            *)
(***************************************************************************)
THEOREM BlocksStayAligned == Spec => []BlocksAligned
<1>1. IInv => BlocksAligned
  BY DEF IInv, Lives, AlignedIn, BlocksAligned
<1> QED BY <1>1, Invariant, PTL

=============================================================================
