-------------------------- MODULE SizeClassProofs --------------------------
(***************************************************************************)
(* SizeClass keeps its free lists and its vector sound, and implements     *)
(* SlabPool, for any set of addresses, any capacity and any length of      *)
(* chain.                                                                  *)
(*                                                                         *)
(* The headers and the vector are sequences, and the loop of               *)
(* release_extra_empty_slabs_locked and the chain of deallocate_batch are  *)
(* recursions: the first two sections prove what the recursions compute by *)
(* induction over sets of naturals, then each method is shown to keep SInv *)
(* and to be the step of SlabPool that its name says.                      *)
(***************************************************************************)
EXTENDS SizeClass, SlabsProofs, FiniteSetTheorems, SequenceTheorems,
        WellFoundedInduction

(* Induction and recursion. *)

(***************************************************************************)
(* Induction over the naturals, for a set: what holds of 0 and of each     *)
(* successor is all of Nat.                                                *)
(***************************************************************************)
LEMMA SetInduction ==
  ASSUME NEW T, 0 \in T, \A n \in Nat : n \in T => n + 1 \in T
  PROVE  Nat \subseteq T
<1>. SUFFICES ASSUME Nat \ T # {} PROVE FALSE
  OBVIOUS
<1>. DEFINE R == OpToRel(<, Nat)
<1>1. IsWellFoundedOn(R, Nat)
  BY NatLessThanWellFounded
<1>. HIDE DEF R
<1>2. PICK x \in Nat \ T : \A y \in Nat \ T : <<y, x>> \notin R
  <2>1. Nat \ T \subseteq Nat
    OBVIOUS
  <2> HIDE DEF R
  <2>. QED BY <1>1, <2>1, WFMin
<1>3. x # 0 /\ x - 1 \in Nat
  BY <1>2
<1>4. <<x - 1, x>> \in R
  BY <1>3, <1>2 DEF R, OpToRel
<1>5. x - 1 \in T
  BY <1>2, <1>3, <1>4
<1> QED BY <1>2, <1>3, <1>5

(***************************************************************************)
(* The same on an interval.                                                *)
(***************************************************************************)
LEMMA UpTo ==
  ASSUME NEW N \in Nat, NEW T, 0 \in T, \A n \in 1 .. N : n - 1 \in T => n \in T
  PROVE  0 .. N \subseteq T
<1> DEFINE U == {n \in Nat : n <= N => n \in T}
<1>1. 0 \in U
  OBVIOUS
<1>2. ASSUME NEW n \in Nat, n \in U PROVE n + 1 \in U
  <2>1. CASE n + 1 <= N
    <3>1. n + 1 \in 1 .. N /\ (n + 1) - 1 = n /\ n <= N
      BY <2>1
    <3>2. QED
      BY <1>2, <3>1
  <2>2. CASE ~(n + 1 <= N)
    BY <2>2
  <2>3. QED
    BY <2>1, <2>2
<1> HIDE DEF U
<1>3. Nat \subseteq U
  BY <1>1, <1>2, SetInduction
<1>4. QED
  BY <1>3 DEF U

\* f is defined by recursion: D[<<f[n - 1], n>>] is f[n].
IsRecursion(S, x, N, D, f) ==
  /\ f \in [0 .. N -> S]
  /\ f[0] = x
  /\ \A n \in 1 .. N : f[n] = D[<<f[n - 1], n>>]

(***************************************************************************)
(* A function defined by recursion on an interval exists.                  *)
(***************************************************************************)
LEMMA RecursionHasSolution ==
  ASSUME NEW S, NEW x \in S, NEW N \in Nat, NEW D \in [S \X (1 .. N) -> S]
  PROVE  \E f : IsRecursion(S, x, N, D, f)
<1> DEFINE T == {n \in 0 .. N : \E f : IsRecursion(S, x, n, D, f)}
<1>1. 0 \in T
  <2> DEFINE f == [i \in 0 .. 0 |-> x]
  <2>1. IsRecursion(S, x, 0, D, f)
    BY DEF IsRecursion
  <2>2. QED
    BY <2>1
<1>2. ASSUME NEW n \in 1 .. N, n - 1 \in T PROVE n \in T
  <2>1. PICK g : IsRecursion(S, x, n - 1, D, g)
    BY <1>2
  <2>2. /\ g \in [0 .. (n - 1) -> S] /\ g[0] = x
        /\ \A i \in 1 .. (n - 1) : g[i] = D[<<g[i - 1], i>>]
    BY <2>1 DEF IsRecursion
  <2>3. n \in Nat /\ n # 0 /\ n - 1 \in 0 .. (n - 1) /\ g[n - 1] \in S
    BY <2>2
  <2>4. PICK y \in S : y = D[<<g[n - 1], n>>]
    BY <2>3
  <2> DEFINE f == [i \in 0 .. n |-> IF i = n THEN y ELSE g[i]]
  <2>5. f \in [0 .. n -> S] /\ f[n] = y /\ \A i \in 0 .. (n - 1) : f[i] = g[i]
    BY <2>2, <2>3
  <2> HIDE DEF f
  <2>6. f[0] = x
    BY <2>2, <2>3, <2>5
  <2>7. ASSUME NEW i \in 1 .. n PROVE f[i] = D[<<f[i - 1], i>>]
    <3>1. i - 1 \in 0 .. (n - 1) /\ f[i - 1] = g[i - 1]
      BY <2>3, <2>5
    <3>2. CASE i = n
      BY <2>4, <2>5, <3>1, <3>2
    <3>3. CASE i # n
      <4>1. i \in 1 .. (n - 1) /\ i \in 0 .. (n - 1)
        BY <2>3, <3>3
      <4>2. QED
        BY <2>2, <2>5, <3>1, <4>1
    <3>4. QED
      BY <3>2, <3>3
  <2>8. IsRecursion(S, x, n, D, f)
    BY <2>5, <2>6, <2>7 DEF IsRecursion
  <2>9. QED
    BY <2>3, <2>8
<1> HIDE DEF T
<1>3. 0 .. N \subseteq T
  BY <1>1, <1>2, UpTo
<1>4. QED
  BY <1>3 DEF T

-----------------------------------------------------------------------------
(* The loop of release_extra_empty_slabs_locked. *)

(***************************************************************************)
(* The states of the loop.                                                 *)
(***************************************************************************)
Loop == [slabs : Seq(Slab), i : Nat \ {0}, kept : Slab \cup {NoSlab},
         current : Slab \cup {NoSlab}]

Entry == [slabs |-> slabs_, i |-> 1, kept |-> NoSlab, current |-> current_]

(***************************************************************************)
(* Swap-and-pop drops one element, keeps the others, and moves nothing in  *)
(* front of it.                                                            *)
(***************************************************************************)
LEMMA SwapPopFacts ==
  ASSUME NEW v \in Seq(Slab), IsInjective(v), NEW i \in 1 .. Len(v)
  PROVE  /\ SwapPop(v, i) \in Seq(Slab)
         /\ Len(SwapPop(v, i)) = Len(v) - 1
         /\ IsInjective(SwapPop(v, i))
         /\ ToSet(SwapPop(v, i)) = ToSet(v) \ {v[i]}
         /\ \A j \in 1 .. (i - 1) : SwapPop(v, i)[j] = v[j]
<1> DEFINE x == [v EXCEPT ![i] = Last(v)]
           n == Len(v)
           w == SwapPop(v, i)
<1>1. n \in Nat /\ v \in [1 .. n -> Slab] /\ DOMAIN v = 1 .. n
  BY LenProperties
<1>2. Last(v) = v[n] /\ v[n] \in Slab
  BY <1>1 DEF Last
<1>3. /\ x \in Seq(Slab) /\ Len(x) = n
      /\ \A j \in 1 .. n : x[j] = IF j = i THEN v[n] ELSE v[j]
  BY <1>2, ExceptSeq
<1> HIDE DEF x
<1>4. w = SubSeq(x, 1, n - 1)
  BY <1>3 DEF SwapPop, Front, x
<1>5. \A j \in 1 .. (n - 1) : x[j] \in Slab
  BY <1>1, <1>3
<1>6. /\ w \in Seq(Slab)
      /\ Len(w) = n - 1
      /\ \A j \in 1 .. (n - 1) : w[j] = x[j]
  BY <1>1, <1>4, <1>5, SubSeqProperties
<1>7. DOMAIN w = 1 .. (n - 1)
  BY <1>6, LenProperties
<1>8. \A j \in 1 .. (n - 1) : w[j] = IF j = i THEN v[n] ELSE v[j]
  BY <1>1, <1>3, <1>6
<1>a. n \in Nat /\ i \in 1 .. n
  BY <1>1
<1> HIDE DEF w, n
<1>9. \A j, k \in 1 .. n : v[j] = v[k] => j = k
  BY <1>1 DEF IsInjective
<1>10. IsInjective(w)
  BY <1>1, <1>7, <1>8, <1>9 DEF IsInjective
<1>11. ToSet(w) = ToSet(v) \ {v[i]}
  <2>1. ASSUME NEW a \in ToSet(w) PROVE a \in ToSet(v) \ {v[i]}
    <3>1. PICK j \in 1 .. (n - 1) : a = w[j]
      BY <1>7 DEF ToSet
    <3>2. QED
      BY <1>1, <1>8, <1>9, <3>1 DEF ToSet
  <2>2. ASSUME NEW a \in ToSet(v) \ {v[i]} PROVE a \in ToSet(w)
    <3>1. PICK j \in 1 .. n : a = v[j] /\ j # i
      BY <1>1 DEF ToSet
    <3>2. CASE j = n
      <4>1. i \in 1 .. (n - 1)
        BY <1>a, <3>1, <3>2
      <4>2. w[i] = a
        BY <1>8, <3>1, <3>2, <4>1
      <4>3. QED
        BY <1>7, <4>1, <4>2 DEF ToSet
    <3>3. CASE j # n
      <4>1. j \in 1 .. (n - 1)
        BY <1>a, <3>1, <3>3
      <4>2. w[j] = a
        BY <1>8, <3>1, <4>1
      <4>3. QED
        BY <1>7, <4>1, <4>2 DEF ToSet
    <3>4. QED
      BY <3>2, <3>3
  <2>3. QED
    BY <2>1, <2>2
<1>12. \A j \in 1 .. (i - 1) : w[j] = v[j]
  BY <1>a, <1>8
<1>13. QED
  BY <1>6, <1>10, <1>11, <1>12 DEF w, n

(***************************************************************************)
(* Whatever the vector holds, swap-and-pop leaves a vector.                *)
(***************************************************************************)
LEMMA SwapPopType ==
  ASSUME NEW v \in Seq(Slab), NEW i \in 1 .. Len(v)
  PROVE  SwapPop(v, i) \in Seq(Slab)
<1> DEFINE x == [v EXCEPT ![i] = Last(v)]
<1>1. Len(v) \in Nat /\ v \in [1 .. Len(v) -> Slab]
  BY LenProperties
<1>2. Last(v) \in Slab
  BY <1>1 DEF Last
<1>3. x \in Seq(Slab) /\ Len(x) = Len(v)
  BY <1>2, ExceptSeq
<1>4. x \in [1 .. Len(v) -> Slab]
  BY <1>3, LenProperties
<1> HIDE DEF x
<1>5. \A j \in 1 .. (Len(v) - 1) : x[j] \in Slab
  BY <1>1, <1>4
<1>6. SubSeq(x, 1, Len(v) - 1) \in Seq(Slab)
  BY <1>1, <1>5, SubSeqProperties
<1>7. QED
  BY <1>3, <1>6 DEF SwapPop, Front, x

(***************************************************************************)
(* An iteration of the loop keeps the shape of its variables.              *)
(***************************************************************************)
LEMMA SweepStepType ==
  ASSUME NEW h, NEW w \in Loop
  PROVE  SweepStep(h, w) \in Loop
<1>1. /\ w.slabs \in Seq(Slab) /\ w.i \in Nat \ {0}
      /\ Len(w.slabs) \in Nat /\ w.slabs \in [1 .. Len(w.slabs) -> Slab]
  BY LenProperties DEF Loop
<1>2. CASE w.i > Len(w.slabs)
  BY <1>2 DEF SweepStep
<1>3. CASE ~(w.i > Len(w.slabs))
  <2> DEFINE slab == w.slabs[w.i]
             v == SwapPop(w.slabs, w.i)
  <2>1. w.i \in 1 .. Len(w.slabs)
    BY <1>1, <1>3
  <2>2. slab \in Slab /\ v \in Seq(Slab)
    BY <1>1, <2>1, SwapPopType
  <2> HIDE DEF v, slab
  <2>3. \/ SweepStep(h, w) = [w EXCEPT !.i = @ + 1]
        \/ SweepStep(h, w) = [w EXCEPT !.i = @ + 1, !.kept = slab]
        \/ SweepStep(h, w) =
             [w EXCEPT !.slabs = v, !.current = IF @ = slab THEN NoSlab ELSE @]
    BY <1>3 DEF SweepStep, v, slab
  <2>4. CASE SweepStep(h, w) = [w EXCEPT !.i = @ + 1]
    BY <1>1, <2>4 DEF Loop
  <2>5. CASE SweepStep(h, w) = [w EXCEPT !.i = @ + 1, !.kept = slab]
    <3>1. w.i + 1 \in Nat \ {0}
      BY <1>1
    <3>2. [w EXCEPT !.i = w.i + 1] \in Loop
      BY <3>1 DEF Loop
    <3>3. [[w EXCEPT !.i = w.i + 1] EXCEPT !.kept = slab] \in Loop
      BY <2>2, <3>2 DEF Loop
    <3>4. [w EXCEPT !.i = @ + 1, !.kept = slab] =
            [[w EXCEPT !.i = w.i + 1] EXCEPT !.kept = slab]
      BY DEF Loop
    <3>5. QED
      BY <2>5, <3>3, <3>4
  <2>6. CASE SweepStep(h, w) =
               [w EXCEPT !.slabs = v, !.current = IF @ = slab THEN NoSlab ELSE @]
    BY <1>1, <2>2, <2>6 DEF Loop
  <2>7. QED
    BY <2>3, <2>4, <2>5, <2>6
<1>4. QED
  BY <1>2, <1>3

(***************************************************************************)
(* Sweeps is what its definition says: its recursion has a solution, and   *)
(* the states of the loop have their shape.                                *)
(***************************************************************************)
LEMMA SweepsUnfold ==
  ASSUME TypeOK, NEW h
  PROVE  /\ Sweeps(h) \in [0 .. Len(slabs_) -> Loop]
         /\ Sweeps(h)[0] = Entry
         /\ \A n \in 1 .. Len(slabs_) : Sweeps(h)[n] = SweepStep(h, Sweeps(h)[n - 1])
<1> DEFINE F == Sweeps(h)
           IsSolution(g) ==
             g = [n \in 0 .. Len(slabs_) |-> IF n = 0 THEN Entry ELSE SweepStep(h, g[n - 1])]
<1>1. PICK N \in Nat : N = Len(slabs_)
  BY LenProperties DEF TypeOK
<1>2. Entry \in Loop
  BY DEF Entry, Loop, TypeOK
<1>3. PICK f \in [0 .. N -> Loop] :
        f[0] = Entry /\ \A n \in 1 .. N : f[n] = SweepStep(h, f[n - 1])
  <2> DEFINE D == [p \in Loop \X (1 .. N) |-> SweepStep(h, p[1])]
  <2>1. D \in [Loop \X (1 .. N) -> Loop]
    BY SweepStepType
  <2>2. \A a \in Loop, n \in 1 .. N : D[<<a, n>>] = SweepStep(h, a)
    OBVIOUS
  <2> HIDE DEF D
  <2>3. PICK f : IsRecursion(Loop, Entry, N, D, f)
    BY <1>2, <2>1, RecursionHasSolution
  <2>4. f \in [0 .. N -> Loop] /\ \A n \in 1 .. N : n - 1 \in 0 .. N
    BY <2>3 DEF IsRecursion
  <2>5. QED
    BY <2>2, <2>3, <2>4 DEF IsRecursion
<1>4. f = [n \in 0 .. N |-> IF n = 0 THEN Entry ELSE SweepStep(h, f[n - 1])]
  BY <1>3
<1>5. IsSolution(f)
  BY <1>1, <1>4
<1>6. IsSolution(F)
  <2>1. F = CHOOSE g : IsSolution(g)
    BY DEF Sweeps, Entry
  <2> HIDE DEF IsSolution
  <2>2. QED
    BY <1>5, <2>1
<1> HIDE DEF F
<1>7. F = [n \in 0 .. N |-> IF n = 0 THEN Entry ELSE SweepStep(h, F[n - 1])]
  BY <1>1, <1>6
<1> HIDE DEF IsSolution
<1>8. F[0] = Entry
  BY <1>7
<1>9. \A n \in 1 .. N : F[n] = SweepStep(h, F[n - 1])
  BY <1>7
<1>10. F \in [0 .. N -> Loop]
  <2> DEFINE T == {n \in 0 .. N : F[n] \in Loop}
  <2>1. 0 \in T
    BY <1>2, <1>8
  <2>2. ASSUME NEW n \in 1 .. N, n - 1 \in T PROVE n \in T
    <3>1. SweepStep(h, F[n - 1]) \in Loop /\ n \in 0 .. N
      BY <2>2, SweepStepType
    <3>2. QED
      BY <1>9, <3>1
  <2> HIDE DEF T
  <2>3. 0 .. N \subseteq T
    BY <2>1, <2>2, UpTo
  <2>4. F = [n \in 0 .. N |-> F[n]]
    BY <1>7
  <2>5. QED
    BY <2>3, <2>4 DEF T
<1>11. QED
  BY <1>1, <1>8, <1>9, <1>10 DEF F

(***************************************************************************)
(* The loop invariant of release_extra_empty_slabs_locked().               *)
(***************************************************************************)
Swept(h, w) ==
  /\ IsInjective(w.slabs)
  /\ w.i <= Len(w.slabs) + 1
  /\ ToSet(w.slabs) \subseteq ToSet(slabs_)
  /\ \A s \in ToSet(slabs_) \ ToSet(w.slabs) : is_empty(h, s)
  /\ ToSet(w.slabs) # ToSet(slabs_) => w.kept # NoSlab
  /\ w.kept # NoSlab =>
       is_empty(h, w.kept) /\ \E j \in 1 .. (w.i - 1) : w.slabs[j] = w.kept
  /\ \A j \in 1 .. (w.i - 1) : is_empty(h, w.slabs[j]) => w.slabs[j] = w.kept
  /\ w.current = IF current_ \in ToSet(slabs_) \ ToSet(w.slabs)
                 THEN NoSlab ELSE current_

(***************************************************************************)
(* An iteration of release_extra_empty_slabs_locked keeps the loop         *)
(* invariant and leaves one slab less to look at.                          *)
(***************************************************************************)
LEMMA SweepStepSwept ==
  ASSUME NEW h, NEW w \in Loop, Swept(h, w), w.i <= Len(w.slabs)
  PROVE  /\ Swept(h, SweepStep(h, w))
         /\ Len(SweepStep(h, w).slabs) - SweepStep(h, w).i = Len(w.slabs) - w.i - 1
<1> DEFINE L == Len(w.slabs)
           slab == w.slabs[w.i]
           v == SwapPop(w.slabs, w.i)
           x == SweepStep(h, w)
<1>1. /\ w.slabs \in Seq(Slab) /\ w.i \in 1 .. L /\ L \in Nat
      /\ w.slabs \in [1 .. L -> Slab] /\ DOMAIN w.slabs = 1 .. L
  BY LenProperties DEF Loop
<1>2. slab \in Slab /\ slab \in ToSet(w.slabs) /\ slab # NoSlab
  BY <1>1, SlabsAssumption DEF ToSet
<1>3. CASE ~is_empty(h, slab)
  <2>1. x = [w EXCEPT !.i = @ + 1]
    BY <1>1, <1>3 DEF SweepStep
  <2>2. x.slabs = w.slabs /\ x.i = w.i + 1 /\ x.kept = w.kept /\ x.current = w.current
    BY <2>1 DEF Loop
  <2> HIDE DEF x
  <2>3. \A j \in 1 .. (x.i - 1) : is_empty(h, w.slabs[j]) => w.slabs[j] = w.kept
    <3>1. \A j \in 1 .. (x.i - 1) : j \in 1 .. (w.i - 1) \/ j = w.i
      BY <1>1, <2>2
    <3>2. QED
      BY <1>3, <3>1 DEF Swept
  <2>4. w.kept # NoSlab =>
          is_empty(h, w.kept) /\ \E j \in 1 .. (x.i - 1) : w.slabs[j] = w.kept
    <3>1. \A j \in 1 .. (w.i - 1) : j \in 1 .. (x.i - 1)
      BY <1>1, <2>2
    <3>2. QED
      BY <3>1 DEF Swept
  <2>5. Swept(h, x)
    BY <1>1, <2>2, <2>3, <2>4 DEF Swept
  <2>6. QED
    BY <1>1, <2>2, <2>5 DEF x
<1>4. CASE is_empty(h, slab) /\ w.kept = NoSlab
  <2>1. x = [w EXCEPT !.i = @ + 1, !.kept = slab]
    BY <1>1, <1>4 DEF SweepStep
  <2>2. x.slabs = w.slabs /\ x.i = w.i + 1 /\ x.kept = slab /\ x.current = w.current
    <3> HIDE DEF x, slab
    <3>1. QED
      BY <2>1 DEF Loop
  <2> HIDE DEF x
  <2>3. \A j \in 1 .. (x.i - 1) : is_empty(h, w.slabs[j]) => w.slabs[j] = slab
    <3>1. \A j \in 1 .. (x.i - 1) : j \in 1 .. (w.i - 1) \/ j = w.i
      BY <1>1, <2>2
    <3>2. \A j \in 1 .. (w.i - 1) : w.slabs[j] # NoSlab
      BY <1>1, SlabsAssumption
    <3>3. QED
      BY <1>4, <3>1, <3>2 DEF Swept
  <2>4. is_empty(h, slab) /\ \E j \in 1 .. (x.i - 1) : w.slabs[j] = slab
    BY <1>1, <1>4, <2>2
  <2>5. Swept(h, x)
    BY <1>1, <1>2, <2>2, <2>3, <2>4 DEF Swept
  <2>6. QED
    BY <1>1, <2>2, <2>5 DEF x
<1>5. CASE is_empty(h, slab) /\ w.kept # NoSlab
  <2>1. x = [w EXCEPT !.slabs = v, !.current = IF @ = slab THEN NoSlab ELSE @]
    BY <1>1, <1>5 DEF SweepStep
  <2>2. /\ x.slabs = v /\ x.i = w.i /\ x.kept = w.kept
        /\ x.current = IF w.current = slab THEN NoSlab ELSE w.current
    <3> HIDE DEF x, slab, v
    <3>1. QED
      BY <2>1 DEF Loop
  <2>3. /\ v \in Seq(Slab)
        /\ Len(v) = L - 1
        /\ IsInjective(v)
        /\ ToSet(v) = ToSet(w.slabs) \ {slab}
        /\ \A j \in 1 .. (w.i - 1) : v[j] = w.slabs[j]
    BY <1>1, SwapPopFacts DEF Swept
  <2> HIDE DEF x, v
  <2>4. w.kept # slab
    <3>1. PICK j \in 1 .. (w.i - 1) : w.slabs[j] = w.kept
      BY <1>5 DEF Swept
    <3>2. j # w.i /\ j \in 1 .. L
      BY <1>1
    <3>3. QED
      BY <1>1, <3>1, <3>2 DEF Swept, IsInjective
  <2>5. x.current = IF current_ \in ToSet(slabs_) \ ToSet(v) THEN NoSlab ELSE current_
    BY <1>2, <2>2, <2>3 DEF Swept
  <2>6. /\ x.i <= Len(v) + 1
        /\ \A j \in 1 .. (w.i - 1) : is_empty(h, v[j]) => v[j] = w.kept
        /\ \E j \in 1 .. (w.i - 1) : v[j] = w.kept
    BY <1>1, <1>5, <2>2, <2>3 DEF Swept
  <2>7. \A s \in ToSet(slabs_) \ ToSet(v) : is_empty(h, s)
    BY <1>5, <2>3 DEF Swept
  <2>8. Swept(h, x)
    <3>1. ToSet(v) \subseteq ToSet(slabs_) /\ is_empty(h, w.kept)
      BY <1>5, <2>3 DEF Swept
    <3>2. QED
      BY <1>5, <2>2, <2>3, <2>5, <2>6, <2>7, <3>1 DEF Swept
  <2>9. QED
    BY <1>1, <2>2, <2>3, <2>8 DEF x
<1>6. QED
  BY <1>3, <1>4, <1>5

(***************************************************************************)
(* What the whole loop leaves: it keeps one empty slab, unmaps the others, *)
(* and keeps current_ unless that is one of them.                          *)
(***************************************************************************)
LEMMA SweepFacts ==
  ASSUME TypeOK, IsInjective(slabs_), NEW h
  PROVE  LET w == Sweep(h)
             Empty == {s \in ToSet(slabs_) : is_empty(h, s)}
         IN  /\ w.slabs \in Seq(Slab)
             /\ IsInjective(w.slabs)
             /\ ToSet(w.slabs) = ToSet(slabs_) \ (Empty \ {w.kept})
             /\ w.kept \in Empty \cup {NoSlab}
             /\ Empty # {} => w.kept \in Empty
             /\ w.current = IF current_ \in Empty \ {w.kept} THEN NoSlab ELSE current_
<1> DEFINE w == Sweep(h)
           Empty == {s \in ToSet(slabs_) : is_empty(h, s)}
           W == Sweeps(h)
<1>1. PICK N \in Nat : N = Len(slabs_)
  BY LenProperties DEF TypeOK
<1>2. /\ slabs_ \in Seq(Slab) /\ DOMAIN slabs_ = 1 .. N
      /\ \A j \in 1 .. N : slabs_[j] \in Slab
  BY <1>1, LenProperties DEF TypeOK
<1>3. NoSlab \notin Slab /\ ToSet(slabs_) \subseteq Slab
  BY <1>2, SlabsAssumption DEF ToSet
<1>4. /\ W \in [0 .. N -> Loop]
      /\ W[0] = Entry
      /\ \A n \in 1 .. N : W[n] = SweepStep(h, W[n - 1])
  BY <1>1, SweepsUnfold
<1>5. w = W[N]
  BY <1>1 DEF Sweep
<1> HIDE DEF w, W
<1>6. Swept(h, Entry) /\ Len(Entry.slabs) - Entry.i = N - 1
  <2>1. /\ Entry.slabs = slabs_ /\ Entry.i = 1
        /\ Entry.kept = NoSlab /\ Entry.current = current_
    BY DEF Entry
  <2>2. \A j \in 1 .. (Entry.i - 1) : FALSE
    BY <2>1
  <2>3. QED
    BY <1>1, <2>1, <2>2 DEF Swept
<1>7. \A n \in 0 .. N : Swept(h, W[n]) /\ Len(W[n].slabs) - W[n].i = N - 1 - n
  <2> DEFINE T == {n \in 0 .. N : Swept(h, W[n]) /\ Len(W[n].slabs) - W[n].i = N - 1 - n}
  <2>1. 0 \in T
    BY <1>4, <1>6
  <2>2. ASSUME NEW n \in 1 .. N, n - 1 \in T PROVE n \in T
    <3>1. PICK x \in Loop : x = W[n - 1]
      BY <1>4
    <3>2. Swept(h, x) /\ Len(x.slabs) - x.i = N - 1 - (n - 1)
      BY <2>2, <3>1
    <3>3. x.i \in Nat /\ Len(x.slabs) \in Nat
      BY LenProperties DEF Loop
    <3>4. x.i <= Len(x.slabs)
      BY <3>2, <3>3
    <3>5. PICK y \in Loop : y = SweepStep(h, x)
      BY SweepStepType
    <3>6. Swept(h, y) /\ Len(y.slabs) - y.i = Len(x.slabs) - x.i - 1
      BY <3>2, <3>4, <3>5, SweepStepSwept
    <3>7. W[n] = y
      BY <1>4, <3>1, <3>5
    <3>8. Len(y.slabs) - y.i = N - 1 - n
      BY <3>2, <3>3, <3>6
    <3>9. QED
      BY <3>6, <3>7, <3>8
  <2> HIDE DEF T
  <2>3. 0 .. N \subseteq T
    BY <2>1, <2>2, UpTo
  <2>4. QED
    BY <2>3 DEF T
<1>8. w \in Loop /\ Swept(h, w) /\ w.i = Len(w.slabs) + 1
  <2>1. w \in Loop /\ Swept(h, w) /\ Len(w.slabs) - w.i = N - 1 - N
    BY <1>4, <1>5, <1>7
  <2>2. w.i \in Nat /\ Len(w.slabs) \in Nat
    BY <2>1, LenProperties DEF Loop
  <2>3. QED
    BY <2>1, <2>2
<1>9. PICK v \in Seq(Slab) : v = w.slabs
  BY <1>8 DEF Loop
<1>10. DOMAIN v = 1 .. Len(v) /\ Len(v) \in Nat
  BY LenProperties
<1>11. 1 .. (w.i - 1) = 1 .. Len(v)
  BY <1>8, <1>9, <1>10
<1>12. /\ IsInjective(v)
       /\ ToSet(v) \subseteq ToSet(slabs_)
       /\ \A s \in ToSet(slabs_) \ ToSet(v) : is_empty(h, s)
       /\ ToSet(v) # ToSet(slabs_) => w.kept # NoSlab
       /\ w.kept # NoSlab => is_empty(h, w.kept) /\ w.kept \in ToSet(v)
       /\ \A s \in ToSet(v) : is_empty(h, s) => s = w.kept
       /\ w.current = IF current_ \in ToSet(slabs_) \ ToSet(v) THEN NoSlab ELSE current_
  BY <1>8, <1>9, <1>10, <1>11 DEF Swept, ToSet
<1>13. ToSet(slabs_) \ ToSet(v) = Empty \ {w.kept}
  BY <1>3, <1>12
<1>14. w.kept \in Empty \cup {NoSlab}
  BY <1>12
<1>15. Empty # {} => w.kept \in Empty
  <2>1. ASSUME NEW s \in Empty, w.kept = NoSlab PROVE FALSE
    BY <1>3, <1>12, <2>1
  <2>2. QED
    BY <1>14, <2>1
<1>16. ToSet(v) = ToSet(slabs_) \ (Empty \ {w.kept})
  BY <1>12, <1>13
<1>17. QED
  BY <1>9, <1>12, <1>13, <1>14, <1>15, <1>16 DEF w

-----------------------------------------------------------------------------
(* The free list and the counter of a slab. *)

HeaderShape == [free_list : Seq(Index), free_count : Int]

Headers == [Slab -> HeaderShape]

\* The blocks of s that are not out.
Unused(s, o) == {i \in Index : <<s, i>> \notin o}

\* FreeListsSound of headers h, when slabs M are mapped and blocks o out.
Sound(h, M, o) ==
  \A s \in M :
    /\ h[s].free_count = Len(h[s].free_list)
    /\ IsInjective(h[s].free_list)
    /\ ToSet(h[s].free_list) = {i \in Index : <<s, i>> \notin o}

(***************************************************************************)
(* A free list that repeats no block is as long as it has blocks.          *)
(***************************************************************************)
LEMMA LengthOfFreeList ==
  ASSUME NEW L \in Seq(Index), IsInjective(L)
  PROVE  /\ Len(L) \in 0 .. Capacity
         /\ ToSet(L) \subseteq Index
         /\ Len(L) = Capacity <=> ToSet(L) = Index
         /\ Len(L) > 0 <=> ToSet(L) # {}
<1> DEFINE n == Len(L)
<1>1. n \in Nat /\ L \in [1 .. n -> Index] /\ DOMAIN L = 1 .. n
  BY LenProperties
<1>2. Capacity \in Nat \ {0}
  BY SlabsAssumption
<1>3. IsFiniteSet(1 .. n) /\ Cardinality(1 .. n) = n
  <2> HIDE DEF n
  <2>1. /\ IsFiniteSet(1 .. n)
        /\ Cardinality(1 .. n) = IF 1 > n THEN 0 ELSE n - 1 + 1
    BY <1>1, FS_Interval
  <2>2. QED
    BY <1>1, <2>1
<1>4. IsFiniteSet(Index) /\ Cardinality(Index) = Capacity
  <2>1. /\ IsFiniteSet(1 .. Capacity)
        /\ Cardinality(1 .. Capacity) = IF 1 > Capacity THEN 0 ELSE Capacity - 1 + 1
    BY <1>2, FS_Interval
  <2>2. QED
    BY <1>2, <2>1 DEF Index
<1>5. ToSet(L) \subseteq Index
  BY <1>1 DEF ToSet
<1>6. n > 0 <=> ToSet(L) # {}
  BY <1>1 DEF ToSet
<1>7. L \in Injection(1 .. n, Index)
  BY <1>1 DEF Injection
<1>8. L \in Bijection(1 .. n, ToSet(L))
  BY <1>1 DEF Bijection, Injection, Surjection, ToSet, IsInjective
<1> HIDE DEF n
<1>9. Cardinality(1 .. n) <= Cardinality(Index)
  BY <1>4, <1>7, FS_Injection
<1>10. Cardinality(ToSet(L)) = n
  <2>1. ExistsBijection(1 .. n, ToSet(L))
    BY <1>8 DEF ExistsBijection
  <2>2. QED
    BY <1>3, <2>1, FS_Bijection
<1>11. n = Capacity => ToSet(L) = Index
  <2>1. Cardinality(Index) = Cardinality(ToSet(L)) => Index = ToSet(L)
    BY <1>4, <1>5, FS_Subset
  <2>2. QED
    BY <1>4, <1>10, <2>1
<1>12. n \in 0 .. Capacity
  BY <1>1, <1>2, <1>3, <1>4, <1>9
<1>13. ToSet(L) = Index => n = Capacity
  BY <1>4, <1>10
<1>14. QED
  BY <1>5, <1>6, <1>11, <1>12, <1>13 DEF n

(***************************************************************************)
(* What has_free() and is_empty() say of a mapped slab.                    *)
(***************************************************************************)
LEMMA CounterTellsTheList ==
  ASSUME NEW h \in [Slab -> HeaderShape], NEW M, M \subseteq Slab, NEW o,
         Sound(h, M, o), NEW s \in M
  PROVE  /\ h[s] \in Header
         /\ has_free(h, s) <=> Unused(s, o) # {}
         /\ is_empty(h, s) <=> Unused(s, o) = Index
         /\ has_free(h, s) <=> h[s].free_list # <<>>
<1> DEFINE L == h[s].free_list
<1>1. /\ h[s] \in HeaderShape /\ L \in Seq(Index) /\ IsInjective(L)
      /\ h[s].free_count = Len(L)
      /\ ToSet(L) = {i \in Index : <<s, i>> \notin o}
  BY DEF Sound, HeaderShape
<1>2. /\ Len(L) \in 0 .. Capacity
      /\ Len(L) = Capacity <=> ToSet(L) = Index
      /\ Len(L) > 0 <=> ToSet(L) # {}
  BY <1>1, LengthOfFreeList
<1>3. Len(L) > 0 <=> L # <<>>
  BY <1>1, <1>2, EmptySeq
<1>4. h[s] = [free_list |-> h[s].free_list, free_count |-> h[s].free_count]
  BY <1>1 DEF HeaderShape
<1>5. h[s] \in Header
  BY <1>1, <1>2, <1>4 DEF Header
<1> HIDE DEF L
<1>6. QED
  BY <1>1, <1>2, <1>3, <1>5 DEF has_free, is_empty, L, Unused

\* The headers after allocate_block() of s.
Popped(h, s) == [h EXCEPT ![s] = [free_list  |-> Tail(@.free_list),
                                  free_count |-> @.free_count - 1]]

(***************************************************************************)
(* allocate_block() hands out one block that was free.                     *)
(***************************************************************************)
LEMMA PopSound ==
  ASSUME NEW h \in [Slab -> HeaderShape], NEW M, M \subseteq Slab, NEW o,
         Sound(h, M, o), NEW s \in M, has_free(h, s)
  PROVE  /\ Popped(h, s) \in [Slab -> HeaderShape]
         /\ Head(h[s].free_list) \in Index
         /\ <<s, Head(h[s].free_list)>> \notin o
         /\ Sound(Popped(h, s), M, o \cup {<<s, Head(h[s].free_list)>>})
<1> DEFINE g == Popped(h, s)
           L == h[s].free_list
           n == Len(L)
           T == Tail(L)
           c == h[s].free_count
<1>1. /\ h[s] \in HeaderShape /\ L \in Seq(Index) /\ IsInjective(L)
      /\ c = n /\ c \in Int /\ s \in Slab
      /\ ToSet(L) = {i \in Index : <<s, i>> \notin o}
  BY DEF Sound, HeaderShape
<1>2. L # <<>>
  BY CounterTellsTheList
<1>3. /\ n \in Nat /\ DOMAIN L = 1 .. n /\ L \in [1 .. n -> Index] /\ n # 0
  BY <1>1, <1>2, LenProperties, EmptySeq
<1>4. /\ Head(L) \in Index /\ T \in Seq(Index)
      /\ Len(T) = n - 1
      /\ \A i \in 1 .. (n - 1) : T[i] = L[i + 1]
  BY <1>1, <1>2, HeadTailProperties
<1>5. Head(L) = L[1]
  BY <1>1, <1>2
<1>6. DOMAIN T = 1 .. (n - 1)
  BY <1>4, LenProperties
<1>7. g = [h EXCEPT ![s] = [free_list |-> T, free_count |-> c - 1]]
  BY DEF Popped
<1> DEFINE r == [free_list |-> T, free_count |-> c - 1]
<1>8. r \in HeaderShape
  BY <1>1, <1>4 DEF HeaderShape
<1>9. /\ g \in [Slab -> HeaderShape]
      /\ g[s].free_list = T /\ g[s].free_count = c - 1
      /\ \A u \in Slab \ {s} : g[u] = h[u]
  <2> HIDE DEF g
  <2>1. QED
    BY <1>1, <1>7, <1>8
<1> HIDE DEF g, L, n, T, c
<1>10. IsInjective(T)
  <2>1. \A i, j \in 1 .. n : L[i] = L[j] => i = j
    BY <1>1, <1>3 DEF IsInjective
  <2>2. QED
    BY <1>3, <1>4, <1>6, <2>1 DEF IsInjective
<1>11. ToSet(T) = ToSet(L) \ {Head(L)}
  <2>1. ASSUME NEW a \in ToSet(T) PROVE a \in ToSet(L) \ {Head(L)}
    <3>1. PICK i \in 1 .. (n - 1) : a = T[i]
      BY <1>6 DEF ToSet
    <3>2. i + 1 \in 1 .. n /\ i + 1 # 1 /\ 1 \in 1 .. n
      BY <1>3
    <3>3. QED
      BY <1>1, <1>3, <1>4, <1>5, <3>1, <3>2 DEF ToSet, IsInjective
  <2>2. ASSUME NEW a \in ToSet(L) \ {Head(L)} PROVE a \in ToSet(T)
    <3>1. PICK i \in 1 .. n : a = L[i] /\ i # 1
      BY <1>3, <1>5 DEF ToSet
    <3>2. i - 1 \in 1 .. (n - 1) /\ (i - 1) + 1 = i
      BY <1>3, <3>1
    <3>3. T[i - 1] = a
      BY <1>4, <3>1, <3>2
    <3>4. QED
      BY <1>6, <3>2, <3>3 DEF ToSet
  <2>3. QED
    BY <2>1, <2>2
<1>12. <<s, Head(L)>> \notin o
  <2>1. Head(L) \in ToSet(L)
    BY <1>3, <1>5 DEF ToSet
  <2>2. QED
    BY <1>1, <2>1
<1>13. Sound(g, M, o \cup {<<s, Head(L)>>})
  <2> SUFFICES ASSUME NEW u \in M
               PROVE  /\ g[u].free_count = Len(g[u].free_list)
                      /\ IsInjective(g[u].free_list)
                      /\ ToSet(g[u].free_list) =
                           {i \in Index : <<u, i>> \notin o \cup {<<s, Head(L)>>}}
    BY DEF Sound
  <2>1. CASE u = s
    <3>1. ToSet(T) = {i \in Index : <<s, i>> \notin o \cup {<<s, Head(L)>>}}
      BY <1>1, <1>11
    <3>2. QED
      BY <1>1, <1>4, <1>9, <1>10, <2>1, <3>1
  <2>2. CASE u # s
    <3>1. g[u] = h[u]
      BY <1>9, <2>2
    <3>2. QED
      BY <2>2, <3>1 DEF Sound
  <2>3. QED
    BY <2>1, <2>2
<1>14. QED
  BY <1>4, <1>9, <1>12, <1>13 DEF L, g

(***************************************************************************)
(* Slab::init() lists every block of the slab once.                        *)
(***************************************************************************)
LEMMA InitSlabSound ==
  ASSUME NEW h \in [Slab -> HeaderShape], NEW M, M \subseteq Slab,
         NEW o, o \subseteq M \X Index,
         Sound(h, M, o), NEW s \in Slab \ M
  PROVE  /\ InitSlab(h, s) \in [Slab -> HeaderShape]
         /\ Sound(InitSlab(h, s), M \cup {s}, o)
         /\ \A u \in Slab \ {s} : InitSlab(h, s)[u] = h[u]
<1> DEFINE L == [i \in Index |-> Capacity + 1 - i]
           g == InitSlab(h, s)
<1>1. Capacity \in Nat \ {0} /\ Index = 1 .. Capacity
  BY SlabsAssumption DEF Index
<1>2. \A i \in Index : Capacity + 1 - i \in Index
  BY <1>1
<1>3. L \in [1 .. Capacity -> Index] /\ \A i \in Index : L[i] = Capacity + 1 - i
  BY <1>1, <1>2
<1> HIDE DEF L
<1>4. L \in Seq(Index) /\ DOMAIN L = Index
  BY <1>1, <1>3, SeqDef
<1>5. Len(L) = Capacity
  BY <1>1, <1>3, <1>4
<1>6. IsInjective(L)
  BY <1>1, <1>3, <1>4 DEF IsInjective
<1>7. ToSet(L) = Index
  BY <1>4, <1>5, <1>6, LengthOfFreeList
<1> DEFINE r == [free_list |-> L, free_count |-> Capacity]
<1>8. r \in HeaderShape
  BY <1>1, <1>4 DEF HeaderShape
<1>9. g = [h EXCEPT ![s] = r]
  BY DEF InitSlab, L
<1>10. /\ g \in [Slab -> HeaderShape]
       /\ g[s].free_list = L /\ g[s].free_count = Capacity
       /\ \A u \in Slab \ {s} : g[u] = h[u]
  BY <1>8, <1>9
<1> HIDE DEF g
<1>11. Sound(g, M \cup {s}, o)
  <2> SUFFICES ASSUME NEW u \in M \cup {s}
               PROVE  /\ g[u].free_count = Len(g[u].free_list)
                      /\ IsInjective(g[u].free_list)
                      /\ ToSet(g[u].free_list) = {i \in Index : <<u, i>> \notin o}
    BY DEF Sound
  <2>1. CASE u = s
    <3>1. {i \in Index : <<s, i>> \notin o} = Index
      OBVIOUS
    <3>2. QED
      BY <1>5, <1>6, <1>7, <1>10, <2>1, <3>1
  <2>2. CASE u # s
    <3>1. g[u] = h[u]
      BY <1>10, <2>2
    <3>2. QED
      BY <2>2, <3>1 DEF Sound
  <2>3. QED
    BY <2>1, <2>2
<1>12. QED
  BY <1>10, <1>11 DEF g

(***************************************************************************)
(* free_block() of a block that is out.                                    *)
(***************************************************************************)
LEMMA PushSound ==
  ASSUME NEW h \in [Slab -> HeaderShape], NEW M, M \subseteq Slab,
         NEW o, o \subseteq M \X Index,
         Sound(h, M, o), NEW b \in o
  PROVE  Sound(FreeBlock(h, b), M, o \ {b})
<1> PICK s \in M, k \in Index : b = <<s, k>>
  OBVIOUS
<1> DEFINE L == h[s].free_list
           c == h[s].free_count
           n == Len(L)
           T == <<k>> \o L
           g == FreeBlock(h, b)
<1>1. /\ h[s] \in HeaderShape /\ L \in Seq(Index) /\ IsInjective(L)
      /\ c = n /\ c \in Int /\ s \in Slab
      /\ ToSet(L) = {i \in Index : <<s, i>> \notin o}
  BY DEF Sound, HeaderShape
<1>2. n \in Nat /\ DOMAIN L = 1 .. n
  BY <1>1, LenProperties
<1>3. <<k>> \in Seq(Index) /\ Len(<<k>>) = 1
  OBVIOUS
<1>4. /\ T \in Seq(Index) /\ Len(T) = 1 + n
      /\ \A i \in 1 .. (1 + n) : T[i] = IF i <= 1 THEN <<k>>[i] ELSE L[i - 1]
  BY <1>1, <1>3, ConcatProperties
<1>5. DOMAIN T = 1 .. (1 + n)
  BY <1>4, LenProperties
<1>6. \A i \in 1 .. (1 + n) : T[i] = IF i = 1 THEN k ELSE L[i - 1]
  BY <1>2, <1>4
<1> HIDE DEF L, n, T, c
<1>7. g = [h EXCEPT ![s] = [free_list |-> T, free_count |-> c + 1]]
  BY DEF FreeBlock, SlabOf, T, L, c
<1>8. \A x : [h EXCEPT ![s] = x][s] = x /\ \A u \in Slab \ {s} : [h EXCEPT ![s] = x][u] = h[u]
  BY <1>1
<1> HIDE DEF g
<1>9. /\ g[s].free_list = T /\ g[s].free_count = c + 1
      /\ \A u \in Slab \ {s} : g[u] = h[u]
  BY <1>7, <1>8
<1>10. ToSet(T) = ToSet(L) \cup {k}
  <2>1. ASSUME NEW a \in ToSet(T) PROVE a \in ToSet(L) \cup {k}
    <3>1. PICK i \in 1 .. (1 + n) : a = T[i]
      BY <1>5 DEF ToSet
    <3>2. i = 1 \/ i - 1 \in 1 .. n
      BY <1>2
    <3>3. QED
      BY <1>2, <1>6, <3>1, <3>2 DEF ToSet
  <2>2. ASSUME NEW a \in ToSet(L) PROVE a \in ToSet(T)
    <3>1. PICK i \in 1 .. n : a = L[i]
      BY <1>2 DEF ToSet
    <3>2. i + 1 \in 1 .. (1 + n) /\ i + 1 # 1 /\ (i + 1) - 1 = i
      BY <1>2
    <3>3. T[i + 1] = a
      BY <1>6, <3>1, <3>2
    <3>4. QED
      BY <1>5, <3>2, <3>3 DEF ToSet
  <2>3. k \in ToSet(T)
    <3>1. 1 \in 1 .. (1 + n)
      BY <1>2
    <3>2. T[1] = k
      BY <1>6, <3>1
    <3>3. QED
      BY <1>5, <3>1, <3>2 DEF ToSet
  <2>4. QED
    BY <2>1, <2>2, <2>3
<1>11. IsInjective(T)
  <2>1. \A i, j \in 1 .. n : L[i] = L[j] => i = j
    BY <1>1, <1>2 DEF IsInjective
  <2>2. \A i \in 1 .. n : L[i] # k
    BY <1>1, <1>2 DEF ToSet
  <2>3. ASSUME NEW i \in 1 .. (1 + n), NEW j \in 1 .. (1 + n), T[i] = T[j]
        PROVE  i = j
    <3>1. /\ i = 1 \/ i - 1 \in 1 .. n
          /\ j = 1 \/ j - 1 \in 1 .. n
      BY <1>2
    <3>2. QED
      BY <1>2, <1>6, <2>1, <2>2, <2>3, <3>1
  <2>4. QED
    BY <1>5, <2>3 DEF IsInjective
<1>12. Sound(g, M, o \ {b})
  <2> SUFFICES ASSUME NEW u \in M
               PROVE  /\ g[u].free_count = Len(g[u].free_list)
                      /\ IsInjective(g[u].free_list)
                      /\ ToSet(g[u].free_list) = {i \in Index : <<u, i>> \notin o \ {b}}
    BY DEF Sound
  <2>1. CASE u = s
    <3>1. ToSet(T) = {i \in Index : <<s, i>> \notin o \ {b}}
      BY <1>1, <1>10
    <3>2. Len(T) = c + 1
      BY <1>1, <1>2, <1>4
    <3>3. QED
      BY <1>9, <1>11, <2>1, <3>1, <3>2
  <2>2. CASE u # s
    <3>1. g[u] = h[u]
      BY <1>9, <2>2
    <3>2. QED
      BY <2>2, <3>1 DEF Sound
  <2>3. QED
    BY <2>1, <2>2
<1>13. QED
  BY <1>12 DEF g

(***************************************************************************)
(* free_block() keeps the shape of the headers, whatever the list holds.   *)
(***************************************************************************)
LEMMA PushType ==
  ASSUME NEW h \in [Slab -> HeaderShape], NEW b \in Block
  PROVE  FreeBlock(h, b) \in [Slab -> HeaderShape]
<1> PICK s \in Slab, k \in Index : b = <<s, k>>
  BY DEF Block
<1> DEFINE L == h[s].free_list
           c == h[s].free_count
           T == <<k>> \o L
<1>1. L \in Seq(Index) /\ c \in Int
  BY DEF HeaderShape
<1>2. <<k>> \in Seq(Index)
  OBVIOUS
<1>3. T \in Seq(Index)
  BY <1>1, <1>2, ConcatProperties
<1> HIDE DEF L, c, T
<1>4. FreeBlock(h, b) = [h EXCEPT ![s] = [free_list |-> T, free_count |-> c + 1]]
  BY DEF FreeBlock, SlabOf, T, L, c
<1>5. [free_list |-> T, free_count |-> c + 1] \in HeaderShape
  BY <1>1, <1>3 DEF HeaderShape
<1>6. QED
  BY <1>4, <1>5

(***************************************************************************)
(* Freeing one block after another is a recursion, and has a solution.     *)
(***************************************************************************)
LEMMA PushesHaveASolution ==
  ASSUME NEW N \in Nat, NEW c \in [1 .. N -> Block], NEW x \in Headers
  PROVE  \E f \in [0 .. N -> Headers] :
           /\ f[0] = x
           /\ \A n \in 1 .. N : f[n] = FreeBlock(f[n - 1], c[n])
<1> DEFINE D == [p \in Headers \X (1 .. N) |-> FreeBlock(p[1], c[p[2]])]
<1>1. \A g \in Headers, n \in 1 .. N : FreeBlock(g, c[n]) \in Headers
  BY PushType DEF Headers
<1>2. D \in [Headers \X (1 .. N) -> Headers]
  BY <1>1
<1>3. \A g \in Headers, n \in 1 .. N : D[<<g, n>>] = FreeBlock(g, c[n])
  OBVIOUS
<1> HIDE DEF D
<1>4. PICK f : IsRecursion(Headers, x, N, D, f)
  BY <1>2, RecursionHasSolution
<1>5. f \in [0 .. N -> Headers]
  BY <1>4 DEF IsRecursion
<1>6. \A n \in 1 .. N : n - 1 \in 0 .. N
  OBVIOUS
<1>7. \A n \in 1 .. N : f[n] = FreeBlock(f[n - 1], c[n])
  BY <1>3, <1>4, <1>5, <1>6 DEF IsRecursion
<1>8. QED
  BY <1>4, <1>5, <1>7 DEF IsRecursion

(***************************************************************************)
(* FreeChain is what its definition says: the recursion has a solution.    *)
(***************************************************************************)
LEMMA FreeChainUnfold ==
  ASSUME TypeOK, NEW chain \in Seq(Block)
  PROVE  /\ FreeChain(chain) \in [0 .. Len(chain) -> Headers]
         /\ FreeChain(chain)[0] = header
         /\ \A n \in 1 .. Len(chain) :
              FreeChain(chain)[n] = FreeBlock(FreeChain(chain)[n - 1], chain[n])
<1> DEFINE F == FreeChain(chain)
           IsSolution(g) ==
             g = [n \in 0 .. Len(chain) |->
                    IF n = 0 THEN header ELSE FreeBlock(g[n - 1], chain[n])]
<1>1. PICK N \in Nat, c \in Seq(Block) :
        N = Len(chain) /\ c = chain /\ c \in [1 .. N -> Block]
  BY LenProperties
<1>2. header \in Headers
  BY DEF TypeOK, Header, HeaderShape, Headers
<1>3. PICK f \in [0 .. N -> Headers] :
        f[0] = header /\ \A n \in 1 .. N : f[n] = FreeBlock(f[n - 1], c[n])
  BY <1>1, <1>2, PushesHaveASolution
<1>4. f = [n \in 0 .. N |-> IF n = 0 THEN header ELSE FreeBlock(f[n - 1], c[n])]
  BY <1>3
<1>5. IsSolution(f)
  BY <1>1, <1>4
<1>6. IsSolution(F)
  <2>1. F = CHOOSE g : IsSolution(g)
    BY DEF FreeChain
  <2> HIDE DEF IsSolution
  <2>2. QED
    BY <1>5, <2>1
<1> HIDE DEF F
<1>7. F = [n \in 0 .. N |-> IF n = 0 THEN header ELSE FreeBlock(F[n - 1], c[n])]
  BY <1>1, <1>6
<1> HIDE DEF IsSolution
<1>8. F[0] = header
  BY <1>7
<1>9. \A n \in 1 .. N : F[n] = FreeBlock(F[n - 1], c[n])
  BY <1>7
<1>10. F \in [0 .. N -> Headers]
  <2> DEFINE T == {n \in 0 .. N : F[n] \in Headers}
  <2>1. 0 \in T
    BY <1>2, <1>8
  <2>2. ASSUME NEW n \in 1 .. N, n - 1 \in T PROVE n \in T
    <3>1. c[n] \in Block /\ F[n - 1] \in Headers /\ n \in 0 .. N
      BY <1>1, <2>2
    <3>2. FreeBlock(F[n - 1], c[n]) \in Headers
      BY <3>1, PushType DEF Headers
    <3>3. QED
      BY <1>9, <3>1, <3>2
  <2> HIDE DEF T
  <2>3. 0 .. N \subseteq T
    BY <2>1, <2>2, UpTo
  <2>4. F = [n \in 0 .. N |-> F[n]]
    BY <1>7
  <2>5. QED
    BY <2>3, <2>4 DEF T
<1>11. QED
  BY <1>1, <1>8, <1>9, <1>10 DEF F

(***************************************************************************)
(* Freeing a chain block by block is freeing the set of its blocks; a slab *)
(* is seen empty on the way exactly if the chain empties the slab of one   *)
(* of its blocks.                                                          *)
(***************************************************************************)
LEMMA FreeChainSound ==
  ASSUME TypeOK, out \subseteq mapped \X Index, Sound(header, mapped, out),
         NEW chain \in Seq(out), IsInjective(chain), Len(chain) # 0
  PROVE  /\ FreeChain(chain)[Len(chain)] \in [Slab -> HeaderShape]
         /\ Sound(FreeChain(chain)[Len(chain)], mapped, out \ ToSet(chain))
         /\ \A u \in Slab \ mapped : FreeChain(chain)[Len(chain)][u] = header[u]
         /\ (\E n \in 1 .. Len(chain) :
               is_empty(FreeChain(chain)[n], SlabOf(chain[n])))
            <=> \E b \in ToSet(chain) :
                  is_empty(FreeChain(chain)[Len(chain)], SlabOf(b))
<1> DEFINE N == Len(chain)
           S == [Slab -> HeaderShape]
           F == FreeChain(chain)
           Freed(n) == {chain[i] : i \in 1 .. n}
<1>1. /\ N \in Nat \ {0} /\ DOMAIN chain = 1 .. N
      /\ \A n \in 1 .. N : chain[n] \in out
  BY LenProperties
<1>2. chain \in Seq(Block)
  <2>1. out \subseteq Block
    BY DEF TypeOK
  <2>2. QED
    BY <2>1, SeqMonotonic
<1>3. /\ F \in [0 .. N -> S]
      /\ F[0] = header
      /\ \A n \in 1 .. N : F[n] = FreeBlock(F[n - 1], chain[n])
  BY <1>2, FreeChainUnfold DEF Headers
<1>4. \A i, j \in 1 .. N : chain[i] = chain[j] => i = j
  BY <1>1 DEF IsInjective
<1>5. mapped \subseteq Slab /\ out \subseteq mapped \X Index
  BY DEF TypeOK
<1> HIDE DEF N, F, S
<1> DEFINE Rest(g) == \A u \in Slab \ mapped : g[u] = header[u]
<1>6. \A n \in 0 .. N : Sound(F[n], mapped, out \ Freed(n)) /\ Rest(F[n])
  <2> DEFINE T == {n \in 0 .. N : Sound(F[n], mapped, out \ Freed(n)) /\ Rest(F[n])}
  <2>1. 0 \in T
    <3>1. Freed(0) = {}
      BY <1>1
    <3>2. out \ {} = out
      OBVIOUS
    <3> HIDE DEF Freed
    <3>3. Rest(F[0]) /\ Sound(F[0], mapped, out \ Freed(0))
      BY <1>3, <3>1, <3>2
    <3>4. QED
      BY <1>1, <3>3
  <2>2. ASSUME NEW n \in 1 .. N, n - 1 \in T PROVE n \in T
    <3>1. n - 1 \in 0 .. N /\ n \in 0 .. N /\ n \in Nat /\ n # 0
      BY <1>1
    <3>2. F[n - 1] \in S /\ Sound(F[n - 1], mapped, out \ Freed(n - 1)) /\ Rest(F[n - 1])
      BY <1>3, <2>2, <3>1
    <3>3. chain[n] \in out \ Freed(n - 1)
      <4>1. \A i \in 1 .. (n - 1) : i \in 1 .. N /\ i # n
        BY <1>1, <3>1
      <4>2. QED
        BY <1>1, <1>4, <4>1
    <3>4. (out \ Freed(n - 1)) \ {chain[n]} = out \ Freed(n)
      <4>1. 1 .. n = (1 .. (n - 1)) \cup {n}
        BY <3>1
      <4>2. Freed(n) = Freed(n - 1) \cup {chain[n]}
        BY <4>1
      <4> HIDE DEF Freed
      <4>3. QED
        BY <4>2
    <3> HIDE DEF Freed
    <3>5. /\ Sound(FreeBlock(F[n - 1], chain[n]), mapped, (out \ Freed(n - 1)) \ {chain[n]})
          /\ Rest(FreeBlock(F[n - 1], chain[n]))
      <4>1. PICK o : o = out \ Freed(n - 1)
        OBVIOUS
      <4>2. PICK g \in [Slab -> HeaderShape], b \in o : g = F[n - 1] /\ b = chain[n]
        BY <3>2, <3>3, <4>1 DEF S
      <4>3. o \subseteq mapped \X Index /\ mapped \subseteq Slab /\ Sound(g, mapped, o)
        BY <1>5, <3>2, <4>1, <4>2
      <4>4. /\ Sound(FreeBlock(g, b), mapped, o \ {b})
            /\ \A u \in Slab \ mapped : FreeBlock(g, b)[u] = g[u]
        <5>1. Sound(FreeBlock(g, b), mapped, o \ {b})
          BY <4>3, PushSound
        <5>2. SlabOf(b) \in mapped /\ DOMAIN g = Slab
          BY <4>3 DEF SlabOf
        <5>3. \A u \in Slab \ mapped : FreeBlock(g, b)[u] = g[u]
          BY <5>2 DEF FreeBlock
        <5>4. QED
          BY <5>1, <5>3
      <4>5. QED
        BY <3>2, <4>1, <4>2, <4>4
    <3>6. QED
      BY <1>3, <3>1, <3>4, <3>5
  <2> HIDE DEF T
  <2>3. 0 .. N \subseteq T
    BY <1>1, <2>1, <2>2, UpTo
  <2>4. QED
    BY <2>3 DEF T
<1>7. \A n \in 0 .. N : Freed(n) \subseteq Freed(N) /\ Freed(N) = ToSet(chain)
  BY <1>1 DEF ToSet
<1>8. ASSUME NEW n \in 0 .. N, NEW s \in mapped
      PROVE  is_empty(F[n], s) <=> \A i \in Index : <<s, i>> \notin out \ Freed(n)
  <2>1. F[n] \in [Slab -> HeaderShape] /\ Sound(F[n], mapped, out \ Freed(n))
    BY <1>3, <1>6 DEF S
  <2> HIDE DEF Freed
  <2>2. is_empty(F[n], s) <=> Unused(s, out \ Freed(n)) = Index
    BY <1>5, <2>1, CounterTellsTheList
  <2>3. QED
    BY <2>2 DEF Unused
<1>9. N \in 0 .. N /\ 1 .. N \subseteq 0 .. N
  BY <1>1
<1>10. ASSUME NEW n \in 1 .. N, is_empty(F[n], SlabOf(chain[n]))
       PROVE  \E b \in ToSet(chain) : is_empty(F[N], SlabOf(b))
  <2>1. chain[n] \in ToSet(chain) /\ SlabOf(chain[n]) \in mapped
    BY <1>1, <1>5 DEF ToSet, SlabOf
  <2>2. is_empty(F[N], SlabOf(chain[n]))
    <3> HIDE DEF Freed
    <3>1. \A i \in Index : <<SlabOf(chain[n]), i>> \notin out \ Freed(n)
      BY <1>8, <1>9, <1>10, <2>1
    <3>2. \A i \in Index : <<SlabOf(chain[n]), i>> \notin out \ Freed(N)
      BY <1>7, <1>9, <3>1
    <3>3. QED
      BY <1>8, <1>9, <2>1, <3>2
  <2>3. QED
    BY <2>1, <2>2
<1>11. ASSUME NEW b \in ToSet(chain), is_empty(F[N], SlabOf(b))
       PROVE  \E n \in 1 .. N : is_empty(F[n], SlabOf(chain[n]))
  <2> DEFINE s == SlabOf(b)
  <2>1. PICK m \in 1 .. N : chain[m] = b
    BY <1>1 DEF ToSet
  <2>2. s \in mapped
    BY <1>1, <1>5, <2>1 DEF SlabOf
  <2> HIDE DEF s
  \* The last block of s in the chain completes it.
  <2>3. \A n \in 0 .. N : (\E i \in 1 .. n : SlabOf(chain[i]) = s) =>
          \E j \in 1 .. n : SlabOf(chain[j]) = s /\ \A i \in (j + 1) .. n : SlabOf(chain[i]) # s
    <3> DEFINE T == {n \in 0 .. N : (\E i \in 1 .. n : SlabOf(chain[i]) = s) =>
                       \E j \in 1 .. n : /\ SlabOf(chain[j]) = s
                                         /\ \A i \in (j + 1) .. n : SlabOf(chain[i]) # s}
    <3>1. 0 \in T
      BY <1>1
    <3>2. ASSUME NEW n \in 1 .. N, n - 1 \in T PROVE n \in T
      <4>1. n \in Nat /\ n \in 0 .. N /\ 1 .. n = (1 .. (n - 1)) \cup {n}
        BY <1>1
      <4>2. CASE SlabOf(chain[n]) = s
        <5>1. n \in 1 .. n /\ (n + 1) .. n = {}
          BY <1>1
        <5>2. QED
          BY <4>1, <4>2, <5>1
      <4>3. CASE SlabOf(chain[n]) # s
        <5> SUFFICES ASSUME \E i \in 1 .. n : SlabOf(chain[i]) = s
                     PROVE  \E j \in 1 .. n : /\ SlabOf(chain[j]) = s
                                              /\ \A i \in (j + 1) .. n : SlabOf(chain[i]) # s
          BY <4>1
        <5>1. \E i \in 1 .. (n - 1) : SlabOf(chain[i]) = s
          BY <4>1, <4>3
        <5>2. PICK j \in 1 .. (n - 1) :
                SlabOf(chain[j]) = s /\ \A i \in (j + 1) .. (n - 1) : SlabOf(chain[i]) # s
          BY <3>2, <5>1
        <5>3. (j + 1) .. n = ((j + 1) .. (n - 1)) \cup {n} /\ j \in 1 .. n
          BY <4>1
        <5>4. QED
          BY <4>3, <5>2, <5>3
      <4>4. QED
        BY <4>2, <4>3
    <3> HIDE DEF T
    <3>3. 0 .. N \subseteq T
      BY <1>1, <3>1, <3>2, UpTo
    <3>4. QED
      BY <3>3 DEF T
  <2>4. PICK n \in 1 .. N : SlabOf(chain[n]) = s /\ \A i \in (n + 1) .. N : SlabOf(chain[i]) # s
    <3>1. \E i \in 1 .. N : SlabOf(chain[i]) = s
      BY <2>1 DEF s
    <3>2. QED
      BY <1>9, <2>3, <3>1
  <2>5. \A i \in Index : <<s, i>> \notin out \ Freed(n)
    <3>1. \A i \in Index : <<s, i>> \notin out \ Freed(N)
      <4> HIDE DEF Freed
      <4>1. QED
        BY <1>8, <1>9, <1>11, <2>2 DEF s
    <3>2. ASSUME NEW i \in Index, <<s, i>> \in Freed(N) PROVE <<s, i>> \in Freed(n)
      <4>1. PICK k \in 1 .. N : chain[k] = <<s, i>>
        BY <3>2
      <4>2. SlabOf(chain[k]) = s
        BY <4>1 DEF SlabOf
      <4>3. k \notin (n + 1) .. N
        BY <2>4, <4>2
      <4>4. k \in 1 .. n
        BY <1>1, <4>3
      <4>5. QED
        BY <4>1, <4>4
    <3> HIDE DEF Freed
    <3>3. QED
      BY <3>1, <3>2
  <2>6. is_empty(F[n], s)
    <3> HIDE DEF Freed
    <3>1. QED
      BY <1>8, <1>9, <2>2, <2>5
  <2>7. QED
    BY <2>4, <2>6
<1>12. F[N] \in S /\ Sound(F[N], mapped, out \ ToSet(chain)) /\ Rest(F[N])
  <2> HIDE DEF Freed
  <2>1. QED
    BY <1>3, <1>6, <1>7, <1>9
<1>13. QED
  BY <1>10, <1>11, <1>12 DEF N, F, S

-----------------------------------------------------------------------------
(* The inductive invariant and the pool it describes. *)

\* The pool of a class with slabs M mapped, vector v and blocks o out.
View(M, v, c, o) ==
  [mapped |-> M, slabs |-> ToSet(v), current |-> c, free |-> (M \X Index) \ o]

OutIsMapped == out \subseteq mapped \X Index

SInv ==
  /\ TypeOK
  /\ FreeListsSound
  /\ NoDanglingSlab
  /\ OutIsMapped

(***************************************************************************)
(* The invariant, said with Sound.                                         *)
(***************************************************************************)
LEMMA SoundIsFreeListsSound ==
  /\ FreeListsSound <=> Sound(header, mapped, out)
  /\ FreeListsSound' <=> Sound(header', mapped', out')
BY DEF FreeListsSound, Sound

(***************************************************************************)
(* The invariant in the terms of the lemmas, before and after a step.      *)
(***************************************************************************)
LEMMA StateFacts ==
  ASSUME SInv
  PROVE  /\ slabs_ \in Seq(Slab) /\ IsInjective(slabs_)
         /\ ToSet(slabs_) \subseteq mapped /\ mapped \subseteq Slab
         /\ NoSlab \notin Slab
         /\ capacity_ \in Nat
         /\ current_ \in mapped \cup {NoSlab}
         /\ header \in [Slab -> Header]
         /\ header \in [Slab -> HeaderShape]
         /\ Sound(header, mapped, out)
         /\ out \subseteq mapped \X Index
<1>1. TypeOK /\ FreeListsSound /\ NoDanglingSlab /\ OutIsMapped
  BY DEF SInv
<1>2. NoSlab \notin Slab
  BY SlabsAssumption
<1>3. slabs_ \in Seq(Slab) /\ DOMAIN slabs_ = 1 .. Len(slabs_)
  BY <1>1, LenProperties DEF TypeOK
<1>4. ToSet(slabs_) \subseteq Slab
  BY <1>3, ElementOfSeq DEF ToSet
<1>5. ToSet(slabs_) \subseteq mapped
  BY <1>1, <1>2, <1>4 DEF NoDanglingSlab
<1>6. header \in [Slab -> Header] /\ header \in [Slab -> HeaderShape]
  BY <1>1 DEF TypeOK, Header, HeaderShape
<1>7. Sound(header, mapped, out)
  BY <1>1, SoundIsFreeListsSound
<1>8. QED
  BY <1>1, <1>2, <1>3, <1>5, <1>6, <1>7 DEF TypeOK, NoDanglingSlab, OutIsMapped

(***************************************************************************)
(* What to show of a step to have the invariant after it.                  *)
(***************************************************************************)
LEMMA NextStateFacts ==
  ASSUME slabs_' \in Seq(Slab), IsInjective(slabs_'),
         ToSet(slabs_') \subseteq mapped', mapped' \subseteq Slab,
         capacity_' \in Nat,
         current_' \in mapped' \cup {NoSlab},
         header' \in [Slab -> HeaderShape],
         Sound(header', mapped', out'),
         \A s \in Slab \ mapped' : header'[s] \in Header,
         out' \subseteq mapped' \X Index,
         alive' \in BOOLEAN
  PROVE  SInv'
<1>1. \A s \in mapped' : header'[s] \in Header
  BY CounterTellsTheList
<1>2. header' \in [Slab -> Header]
  BY <1>1
<1>3. out' \subseteq Block
  BY DEF Block
<1>4. TypeOK'
  BY <1>2, <1>3 DEF TypeOK
<1>5. FreeListsSound'
  BY SoundIsFreeListsSound
<1>6. NoDanglingSlab'
  BY DEF NoDanglingSlab
<1>7. QED
  BY <1>4, <1>5, <1>6 DEF SInv, OutIsMapped

(***************************************************************************)
(* The abstract pool: a mapped block is free or out.                       *)
(***************************************************************************)
LEMMA AbstractPoolIsView ==
  ASSUME NEW h, NEW M, NEW v, NEW c, NEW o, M \subseteq Slab, Sound(h, M, o)
  PROVE  [mapped  |-> M,
          slabs   |-> ToSet(v),
          current |-> c,
          free    |-> {b \in Block : /\ SlabOf(b) \in M
                                     /\ b[2] \in ToSet(h[SlabOf(b)].free_list)}]
         = View(M, v, c, o)
<1>1. {b \in Block : /\ SlabOf(b) \in M
                     /\ b[2] \in ToSet(h[SlabOf(b)].free_list)} = (M \X Index) \ o
  <2>1. ASSUME NEW b \in Block, SlabOf(b) \in M
        PROVE  b[2] \in ToSet(h[SlabOf(b)].free_list) <=> b \notin o
    <3>1. PICK s \in Slab, i \in Index : b = <<s, i>>
      BY DEF Block
    <3>2. SlabOf(b) = s /\ b[2] = i
      BY <3>1 DEF SlabOf
    <3>3. ToSet(h[s].free_list) = {j \in Index : <<s, j>> \notin o}
      BY <2>1, <3>2 DEF Sound
    <3>4. QED
      BY <3>1, <3>2, <3>3
  <2>2. \A b : b \in M \X Index <=> b \in Block /\ SlabOf(b) \in M
    BY DEF Block, SlabOf
  <2>3. QED
    BY <2>1, <2>2
<1>2. QED
  BY <1>1 DEF View

(***************************************************************************)
(* The abstract pool of a state, and of the state after a step.            *)
(***************************************************************************)
LEMMA AbstractPoolNow == SInv => AbstractPool = View(mapped, slabs_, current_, out)
<1>1. SUFFICES ASSUME SInv PROVE AbstractPool = View(mapped, slabs_, current_, out)
  OBVIOUS
<1>2. mapped \subseteq Slab
  BY <1>1 DEF SInv, TypeOK
<1>3. Sound(header, mapped, out)
  BY <1>1, SoundIsFreeListsSound DEF SInv
<1>4. QED
  BY <1>2, <1>3, AbstractPoolIsView DEF AbstractPool

LEMMA AbstractPoolNext == SInv' => AbstractPool' = View(mapped', slabs_', current_', out')
<1>1. SUFFICES ASSUME SInv' PROVE AbstractPool' = View(mapped', slabs_', current_', out')
  OBVIOUS
<1>2. mapped' \subseteq Slab
  BY <1>1 DEF SInv, TypeOK
<1>3. Sound(header', mapped', out')
  BY <1>1, SoundIsFreeListsSound DEF SInv
<1>4. QED
  BY <1>2, <1>3, AbstractPoolIsView DEF AbstractPool

(***************************************************************************)
(* has_free() and is_empty() are HasFree and IsEmpty of the pool.          *)
(***************************************************************************)
LEMMA CounterTellsThePool ==
  ASSUME NEW h \in [Slab -> HeaderShape], NEW M, M \subseteq Slab, NEW o,
         Sound(h, M, o), NEW s \in M, NEW P, P.free = (M \X Index) \ o
  PROVE  /\ has_free(h, s) <=> HasFree(P, s)
         /\ is_empty(h, s) <=> IsEmpty(P, s)
<1>1. /\ has_free(h, s) <=> Unused(s, o) # {}
      /\ is_empty(h, s) <=> Unused(s, o) = Index
  BY CounterTellsTheList
<1>2. HasFree(P, s) => Unused(s, o) # {}
  <2>1. ASSUME NEW b \in P.free, SlabOf(b) = s PROVE b[2] \in Unused(s, o)
    <3>1. PICK u \in M, i \in Index : b = <<u, i>> /\ b \notin o
      OBVIOUS
    <3>2. QED
      BY <2>1, <3>1 DEF SlabOf, Unused
  <2>2. QED
    BY <2>1 DEF HasFree
<1>3. Unused(s, o) # {} => HasFree(P, s)
  <2>1. ASSUME NEW i \in Unused(s, o) PROVE HasFree(P, s)
    <3>1. <<s, i>> \in P.free /\ SlabOf(<<s, i>>) = s
      BY DEF SlabOf, Unused
    <3>2. QED
      BY <3>1 DEF HasFree
  <2>2. QED
    BY <2>1
<1>4. IsEmpty(P, s) <=> Unused(s, o) = Index
  BY DEF IsEmpty, BlocksOf, Unused
<1>5. QED
  BY <1>1, <1>2, <1>3, <1>4

(***************************************************************************)
(* The instance of Slabs inside Abstract has the operators of Slabs.       *)
(***************************************************************************)
LEMMA ClassOperators ==
  /\ Abstract!NewPool = NewPool
  /\ Abstract!Index = Index
  /\ \A s : Abstract!BlocksOf(s) = BlocksOf(s)
  /\ \A P : Abstract!Available(P) = Available(P)
  /\ \A P, b : Abstract!Take(P, b) = Take(P, b)
  /\ \A P, s : Abstract!MapSlab(P, s) = MapSlab(P, s)
  /\ \A P, s : Abstract!AddSlab(P, s) = AddSlab(P, s)
  /\ \A P, B : Abstract!DeallocateBatch(P, B) = DeallocateBatch(P, B)
  /\ \A P : Abstract!Unlist(P) = Unlist(P)
<1>1. Abstract!Index = Index /\ Abstract!NewPool = NewPool
  BY DEF Abstract!Index, Index, Abstract!NewPool, NewPool
<1>2. /\ \A b : Abstract!SlabOf(b) = SlabOf(b)
      /\ \A s : Abstract!BlocksOf(s) = BlocksOf(s)
  BY <1>1 DEF Abstract!SlabOf, SlabOf, Abstract!BlocksOf, BlocksOf
<1>3. \A P, s : /\ Abstract!HasFree(P, s) <=> HasFree(P, s)
                /\ Abstract!IsEmpty(P, s) <=> IsEmpty(P, s)
  BY <1>2 DEF Abstract!HasFree, HasFree, Abstract!IsEmpty, IsEmpty
<1>4. \A P : Abstract!ServingSlabs(P) = ServingSlabs(P)
  BY <1>3 DEF Abstract!ServingSlabs, ServingSlabs
<1>5. \A P : Abstract!Available(P) = Available(P)
  BY <1>2, <1>4 DEF Abstract!Available, Available
<1>6. \A P, b : Abstract!Take(P, b) = Take(P, b)
  BY <1>2 DEF Abstract!Take, Take
<1>7. \A P, s : Abstract!MapSlab(P, s) = MapSlab(P, s)
  BY <1>2 DEF Abstract!MapSlab, MapSlab
<1>8. \A P, s : Abstract!AddSlab(P, s) = AddSlab(P, s)
  BY <1>7 DEF Abstract!AddSlab, AddSlab
<1>9. \A P : Abstract!EmptySlabs(P) = EmptySlabs(P)
  BY <1>3 DEF Abstract!EmptySlabs, EmptySlabs
<1>10. \A P, keep : Abstract!KeepOnly(P, keep) = KeepOnly(P, keep)
  BY <1>2, <1>3, <1>9 DEF Abstract!KeepOnly, KeepOnly
<1>11. \A P : Abstract!ReleaseExtraEmptySlabs(P) = ReleaseExtraEmptySlabs(P)
  BY <1>9, <1>10 DEF Abstract!ReleaseExtraEmptySlabs, ReleaseExtraEmptySlabs
<1>12. \A P, B : Abstract!DeallocateBatch(P, B) = DeallocateBatch(P, B)
  BY <1>2, <1>3, <1>11 DEF Abstract!DeallocateBatch, DeallocateBatch
<1>13. \A P : Abstract!Unlist(P) = Unlist(P)
  BY <1>2 DEF Abstract!Unlist, Unlist
<1>14. QED
  BY <1>1, <1>2, <1>5, <1>6, <1>7, <1>8, <1>12, <1>13

(***************************************************************************)
(* The pool of a class with its pointers in mapped slabs is well formed.   *)
(***************************************************************************)
LEMMA ViewWellFormed ==
  ASSUME NEW M, NEW v, NEW c, NEW o,
         M \subseteq Slab, ToSet(v) \subseteq M, c \in M \cup {NoSlab}
  PROVE  /\ WellFormed(View(M, v, c, o))
         /\ View(M, v, c, o) \in Pool
         /\ View(M, v, c, o).mapped = M
         /\ View(M, v, c, o).slabs = ToSet(v)
         /\ View(M, v, c, o).current = c
         /\ View(M, v, c, o).free = (M \X Index) \ o
<1> DEFINE f == (M \X Index) \ o
           P == View(M, v, c, o)
<1>1. P.mapped = M /\ P.slabs = ToSet(v) /\ P.current = c /\ P.free = f
  BY DEF View
<1>2. f \subseteq M \X Index /\ f \subseteq Block
  BY DEF Block
<1> HIDE DEF f
<1>3. P \in Pool
  BY <1>2 DEF View, Pool, f
<1> HIDE DEF P
<1>4. WellFormed(P)
  BY <1>1, <1>2, <1>3 DEF WellFormed
<1>5. QED
  BY <1>1, <1>3, <1>4 DEF P, f

(***************************************************************************)
(* Pools with equal members are equal.                                     *)
(***************************************************************************)
LEMMA SamePool ==
  ASSUME NEW P \in Pool, NEW Q \in Pool,
         P.mapped = Q.mapped, P.slabs = Q.slabs, P.current = Q.current, P.free = Q.free
  PROVE  P = Q
BY DEF Pool

(***************************************************************************)
(* Where current_ points after an allocation or a new slab.                *)
(***************************************************************************)
LEMMA CurrentAfter ==
  ASSUME NEW P \in Pool
  PROVE  /\ \A b : Take(P, b).current = SlabOf(b)
         /\ \A s : MapSlab(P, s).current = s
BY DEF Pool, Take, MapSlab

-----------------------------------------------------------------------------
(* Each method keeps the invariant and is a step of SlabPool. *)

(***************************************************************************)
(* A new SizeClass is a new SlabPool.                                      *)
(***************************************************************************)
LEMMA StartsAbstract == Init => SInv /\ Abstract!Init
<1> SUFFICES ASSUME Init PROVE SInv /\ Abstract!Init
  OBVIOUS
<1>1. /\ slabs_ = <<>> /\ capacity_ = 0 /\ current_ = NoSlab
      /\ header = [s \in Slab |-> NoHeader] /\ mapped = {} /\ out = {} /\ alive = TRUE
  BY DEF Init
<1>2. NoHeader \in Header
  BY SlabsAssumption DEF NoHeader, Header
<1>3. TypeOK
  BY <1>1, <1>2 DEF TypeOK
<1>4. FreeListsSound /\ OutIsMapped
  BY <1>1 DEF FreeListsSound, OutIsMapped
<1>5. ToSet(slabs_) = {} /\ IsInjective(slabs_)
  BY <1>1 DEF ToSet, IsInjective
<1>6. NoDanglingSlab
  BY <1>1, <1>5 DEF NoDanglingSlab
<1>7. SInv
  BY <1>3, <1>4, <1>6 DEF SInv
<1>8. AbstractPool = NewPool
  BY <1>1, <1>5, <1>7, AbstractPoolNow DEF View, NewPool
<1>9. QED
  BY <1>1, <1>7, <1>8, ClassOperators DEF Abstract!Init

(***************************************************************************)
(* The first index that the scan of slabs_ hits exists.                    *)
(***************************************************************************)
LEMMA MinOfIndices ==
  ASSUME NEW S, S \subseteq Nat, S # {}
  PROVE  Min(S) \in S
<1> DEFINE R == OpToRel(<, Nat)
<1>1. PICK x \in S : \A y \in S : <<y, x>> \notin R
  <2> HIDE DEF R
  <2>1. IsWellFoundedOn(R, Nat)
    BY NatLessThanWellFounded DEF R
  <2>2. QED
    BY <2>1, WFMin
<1>2. ASSUME NEW y \in S PROVE x <= y
  <2>1. x \in Nat /\ y \in Nat
    OBVIOUS
  <2>2. y < x => <<y, x>> \in R
    BY <2>1 DEF R, OpToRel
  <2>3. ~(y < x)
    BY <1>1, <2>2
  <2>4. QED
    BY <2>1, <2>3
<1>3. QED
  BY <1>2 DEF Min

(***************************************************************************)
(* Where allocate_existing() looks: what it finds may serve, and when it   *)
(* finds nothing no slab it looks at has a free block.                     *)
(***************************************************************************)
LEMMA WhatScanFinds ==
  ASSUME SInv, NEW P, P = View(mapped, slabs_, current_, out),
         NEW s, s = IF CurrentServes THEN current_ ELSE Scan
  PROVE  /\ s # NoSlab => s \in mapped /\ has_free(header, s) /\ s \in ServingSlabs(P)
         /\ NothingFree => Available(P) = {}
<1> DEFINE hit == {i \in DOMAIN slabs_ : has_free(header, slabs_[i])}
<1>1. /\ slabs_ \in Seq(Slab) /\ ToSet(slabs_) \subseteq mapped /\ mapped \subseteq Slab
      /\ NoSlab \notin Slab /\ current_ \in mapped \cup {NoSlab}
      /\ header \in [Slab -> HeaderShape] /\ Sound(header, mapped, out)
  BY StateFacts
<1>2. /\ P.free = (mapped \X Index) \ out
      /\ P.slabs = ToSet(slabs_) /\ P.current = current_
  BY DEF View
<1>3. \A u \in mapped : has_free(header, u) <=> HasFree(P, u)
  <2> TAKE u \in mapped
  <2>1. QED
    BY <1>1, <1>2, CounterTellsThePool
<1>4. CASE CurrentServes
  <2>1. current_ \in mapped /\ has_free(header, current_)
    BY <1>1, <1>4 DEF CurrentServes
  <2>2. ServingSlabs(P) = {current_}
    BY <1>1, <1>2, <1>3, <2>1 DEF ServingSlabs
  <2>3. QED
    BY <1>4, <2>1, <2>2 DEF NothingFree
<1>5. CASE ~CurrentServes
  <2>1. s = Scan
    BY <1>5
  <2>2. ~(P.current # NoSlab /\ HasFree(P, P.current))
    BY <1>1, <1>2, <1>3, <1>5 DEF CurrentServes
  <2>3. ServingSlabs(P) = {u \in ToSet(slabs_) : HasFree(P, u)}
    BY <1>2, <2>2 DEF ServingSlabs
  <2>4. Scan = IF hit = {} THEN NoSlab ELSE slabs_[Min(hit)]
    BY DEF Scan
  <2>5. ASSUME hit # {} PROVE Scan \in ToSet(slabs_) /\ has_free(header, Scan)
    <3>1. hit \subseteq Nat
      BY <1>1, LenProperties
    <3> HIDE DEF hit
    <3>2. Min(hit) \in hit
      BY <2>5, <3>1, MinOfIndices
    <3>3. Scan = slabs_[Min(hit)]
      BY <2>4, <2>5
    <3>4. QED
      BY <3>2, <3>3 DEF hit, ToSet
  <2>6. ASSUME s # NoSlab PROVE s \in mapped /\ has_free(header, s) /\ s \in ServingSlabs(P)
    <3>1. hit # {}
      BY <2>1, <2>4, <2>6
    <3> HIDE DEF hit
    <3>2. s \in ToSet(slabs_) /\ has_free(header, s)
      BY <2>1, <2>5, <3>1
    <3>3. QED
      BY <1>1, <1>3, <2>3, <3>2
  <2>7. ASSUME NothingFree PROVE Available(P) = {}
    <3>1. hit = {}
      <4>1. SUFFICES ASSUME hit # {} PROVE FALSE
        OBVIOUS
      <4>2. Scan = NoSlab
        BY <2>7 DEF NothingFree
      <4> HIDE DEF hit
      <4>3. Scan \in Slab
        BY <1>1, <2>5, <4>1
      <4>4. QED
        BY <1>1, <4>2, <4>3
    <3>2. \A u \in ToSet(slabs_) : ~has_free(header, u)
      BY <3>1 DEF ToSet
    <3>3. ServingSlabs(P) = {}
      BY <1>1, <1>3, <2>3, <3>2
    <3>4. QED
      BY <3>3 DEF Available
  <2>8. QED
    BY <2>6, <2>7
<1>6. QED
  BY <1>4, <1>5

(***************************************************************************)
(* Popping a block of one slab leaves the other headers alone.             *)
(***************************************************************************)
LEMMA PopLeavesOthers ==
  ASSUME NEW h, DOMAIN h = Slab, NEW s, NEW u \in Slab, u # s
  PROVE  Popped(h, s)[u] = h[u]
BY DEF Popped

(***************************************************************************)
(* allocate_existing(): the slab it serves from is one SlabPool allows,    *)
(* and its first free block is one of the available ones.                  *)
(***************************************************************************)
LEMMA ExistingImplements ==
  ASSUME SInv, AllocateExisting
  PROVE  SInv' /\ Abstract!AllocateExisting
<1>1. PICK s : /\ s = IF CurrentServes THEN current_ ELSE Scan
               /\ s # NoSlab /\ alive /\ current_' = s
               /\ AllocateBlock(header, s)
               /\ UNCHANGED <<slabs_, capacity_, mapped, alive>>
  BY DEF AllocateExisting
<1>2. PICK P : P = View(mapped, slabs_, current_, out)
  OBVIOUS
<1>3. s \in mapped /\ has_free(header, s) /\ s \in ServingSlabs(P)
  BY <1>1, <1>2, WhatScanFinds
<1>4. /\ slabs_ \in Seq(Slab) /\ IsInjective(slabs_)
      /\ ToSet(slabs_) \subseteq mapped /\ mapped \subseteq Slab
      /\ capacity_ \in Nat
      /\ header \in [Slab -> Header] /\ header \in [Slab -> HeaderShape]
      /\ Sound(header, mapped, out) /\ out \subseteq mapped \X Index
  BY StateFacts
<1>5. PICK b : b = <<s, Head(header[s].free_list)>>
  OBVIOUS
<1>6. /\ header' = Popped(header, s)
      /\ out' = out \cup {b}
  BY <1>1, <1>5 DEF AllocateBlock, Popped
<1>7. /\ header' \in [Slab -> HeaderShape]
      /\ Head(header[s].free_list) \in Index
      /\ b \notin out
      /\ Sound(header', mapped, out \cup {b})
      /\ \A u \in Slab \ {s} : header'[u] = header[u]
  <2>1. /\ Popped(header, s) \in [Slab -> HeaderShape]
        /\ Head(header[s].free_list) \in Index
        /\ <<s, Head(header[s].free_list)>> \notin out
        /\ Sound(Popped(header, s), mapped, out \cup {<<s, Head(header[s].free_list)>>})
    BY <1>3, <1>4, PopSound
  <2>2. \A u \in Slab \ {s} : Popped(header, s)[u] = header[u]
    BY <1>4, PopLeavesOthers
  <2>3. QED
    BY <1>5, <1>6, <2>1, <2>2
<1>8. b \in mapped \X Index /\ SlabOf(b) = s
  BY <1>3, <1>5, <1>7 DEF SlabOf
<1>9. SInv'
  <2>1. \A u \in Slab \ mapped : header'[u] \in Header
    BY <1>3, <1>4, <1>7
  <2>2. out' \subseteq mapped \X Index
    BY <1>4, <1>6, <1>8
  <2>3. alive' \in BOOLEAN
    BY <1>1 DEF SInv, TypeOK
  <2>4. QED
    BY <1>1, <1>3, <1>4, <1>6, <1>7, <2>1, <2>2, <2>3, NextStateFacts
<1>10. WellFormed(P) /\ P \in Pool /\ b \in P.free /\ P.free = (mapped \X Index) \ out
       /\ P.mapped = mapped /\ P.slabs = ToSet(slabs_)
  BY <1>2, <1>4, <1>7, <1>8, StateFacts, ViewWellFormed
<1>a. AbstractPool' = Take(P, b)
  <2>1. PICK Q : Q = View(mapped, slabs_, s, out \cup {b})
    OBVIOUS
  <2>2. AbstractPool' = Q
    BY <1>1, <1>6, <1>9, <2>1, AbstractPoolNext
  <2>3. /\ Q \in Pool /\ Q.mapped = mapped /\ Q.slabs = ToSet(slabs_) /\ Q.current = s
        /\ Q.free = (mapped \X Index) \ (out \cup {b})
    BY <1>3, <1>4, <2>1, ViewWellFormed
  <2>4. /\ Take(P, b) \in Pool /\ Take(P, b).mapped = mapped
        /\ Take(P, b).slabs = ToSet(slabs_)
        /\ Take(P, b).free = ((mapped \X Index) \ out) \ {b}
    BY <1>10, TakeFacts DEF WellFormed
  <2>5. Take(P, b).current = s
    BY <1>8, <1>10, CurrentAfter
  <2>6. ((mapped \X Index) \ out) \ {b} = (mapped \X Index) \ (out \cup {b})
    OBVIOUS
  <2>7. QED
    BY <2>2, <2>3, <2>4, <2>5, <2>6, SamePool
<1>11. b \in Available(P)
  BY <1>3, <1>8, <1>10 DEF Available
<1>12. AbstractPool = P
  BY <1>2, AbstractPoolNow
<1>13. QED
  BY <1>1, <1>6, <1>9, <1>a, <1>11, <1>12, ClassOperators DEF Abstract!AllocateExisting

(***************************************************************************)
(* A slab that mmap has just given and init() has filled can serve.        *)
(***************************************************************************)
LEMMA FreshSlab ==
  ASSUME SInv, NEW s \in Slab \ mapped, NEW g, g = InitSlab(header, s)
  PROVE  /\ g \in [Slab -> HeaderShape]
         /\ Sound(g, mapped \cup {s}, out)
         /\ has_free(g, s)
         /\ \A u \in Slab \ {s} : g[u] = header[u]
<1>1. /\ mapped \subseteq Slab /\ header \in [Slab -> HeaderShape]
      /\ Sound(header, mapped, out) /\ out \subseteq mapped \X Index
  BY StateFacts
<1>2. /\ g \in [Slab -> HeaderShape]
      /\ Sound(g, mapped \cup {s}, out)
      /\ \A u \in Slab \ {s} : g[u] = header[u]
  BY <1>1, InitSlabSound
<1>3. has_free(g, s)
  <2>1. 1 \in Index /\ <<s, 1>> \notin out
    BY <1>1, SlabsAssumption DEF Index
  <2>2. Unused(s, out) # {}
    BY <2>1 DEF Unused
  <2>3. mapped \cup {s} \subseteq Slab /\ s \in mapped \cup {s}
    BY <1>1
  <2>4. QED
    BY <1>2, <2>2, <2>3, CounterTellsTheList
<1>4. QED
  BY <1>2, <1>3

(***************************************************************************)
(* allocate_new_slab(): no slab could serve, and the new one does.         *)
(***************************************************************************)
LEMMA NewSlabImplements ==
  ASSUME SInv, AllocateNewSlab
  PROVE  SInv' /\ Abstract!AllocateNewSlab
<1>1. PICK s \in Slab \ mapped :
        /\ mapped' = mapped \cup {s}
        /\ current_' = s
        /\ slabs_' = Append(slabs_, s)
        /\ AllocateBlock(InitSlab(header, s), s)
  BY DEF AllocateNewSlab
<1>2. alive /\ NothingFree /\ UNCHANGED alive
  BY DEF AllocateNewSlab
<1>3. capacity_' \in Nat
  <2>1. capacity_ \in Nat
    BY StateFacts
  <2>2. QED
    BY <2>1 DEF AllocateNewSlab
<1>4. /\ slabs_ \in Seq(Slab) /\ IsInjective(slabs_)
      /\ ToSet(slabs_) \subseteq mapped /\ mapped \subseteq Slab
      /\ header \in [Slab -> Header]
      /\ out \subseteq mapped \X Index
  BY StateFacts
<1>5. PICK g : g = InitSlab(header, s)
  OBVIOUS
<1>6. /\ g \in [Slab -> HeaderShape]
      /\ Sound(g, mapped', out)
      /\ has_free(g, s)
      /\ \A u \in Slab \ {s} : g[u] = header[u]
  BY <1>1, <1>5, FreshSlab
<1>7. PICK b : b = <<s, Head(g[s].free_list)>>
  OBVIOUS
<1>8. /\ header' = Popped(g, s)
      /\ out' = out \cup {b}
  BY <1>1, <1>5, <1>7 DEF AllocateBlock, Popped
<1>9. mapped' \subseteq Slab /\ s \in mapped'
  BY <1>1, <1>4
<1>10. /\ header' \in [Slab -> HeaderShape]
       /\ Head(g[s].free_list) \in Index
       /\ b \notin out
       /\ Sound(header', mapped', out \cup {b})
       /\ \A u \in Slab \ {s} : header'[u] = g[u]
  <2>1. /\ Popped(g, s) \in [Slab -> HeaderShape]
        /\ Head(g[s].free_list) \in Index
        /\ <<s, Head(g[s].free_list)>> \notin out
        /\ Sound(Popped(g, s), mapped', out \cup {<<s, Head(g[s].free_list)>>})
    BY <1>6, <1>9, PopSound
  <2>2. \A u \in Slab \ {s} : Popped(g, s)[u] = g[u]
    BY <1>6, PopLeavesOthers
  <2>3. QED
    BY <1>7, <1>8, <2>1, <2>2
<1>11. b \in BlocksOf(s) /\ b \in mapped' \X Index /\ SlabOf(b) = s
  BY <1>7, <1>9, <1>10 DEF BlocksOf, SlabOf
<1>12. /\ slabs_' \in Seq(Slab) /\ IsInjective(slabs_')
       /\ ToSet(slabs_') = ToSet(slabs_) \cup {s}
  <2>1. PICK n \in Nat : n = Len(slabs_)
    BY <1>4, LenProperties
  <2>2. DOMAIN slabs_ = 1 .. n
    BY <1>4, <2>1, LenProperties
  <2>3. PICK v \in Seq(Slab) : v = slabs_'
    BY <1>1, <1>4, AppendProperties
  <2>4. /\ Len(v) = n + 1
        /\ \A i \in 1 .. n : v[i] = slabs_[i]
        /\ v[n + 1] = s
    BY <1>1, <1>4, <2>1, <2>3, AppendProperties
  <2>5. DOMAIN v = 1 .. (n + 1)
    BY <2>4, LenProperties
  <2>6. 1 .. (n + 1) = (1 .. n) \cup {n + 1}
    OBVIOUS
  <2>7. ToSet(v) = ToSet(slabs_) \cup {s}
    BY <2>2, <2>4, <2>5, <2>6 DEF ToSet
  <2>8. \A i \in 1 .. n : slabs_[i] # s
    BY <1>1, <1>4, <2>2 DEF ToSet
  <2>9. \A i, j \in 1 .. n : slabs_[i] = slabs_[j] => i = j
    BY <1>4, <2>2 DEF IsInjective
  <2>10. IsInjective(v)
    BY <2>4, <2>5, <2>6, <2>8, <2>9 DEF IsInjective
  <2>11. QED
    BY <2>3, <2>7, <2>10
<1>13. SInv'
  <2>1. \A u \in Slab \ mapped' : header'[u] \in Header
    BY <1>1, <1>4, <1>6, <1>10
  <2>2. out' \subseteq mapped' \X Index
    BY <1>1, <1>4, <1>8, <1>11
  <2>3. ToSet(slabs_') \subseteq mapped' /\ current_' \in mapped' \cup {NoSlab}
    BY <1>1, <1>4, <1>12
  <2>4. alive' \in BOOLEAN
    BY <1>2 DEF SInv, TypeOK
  <2>5. QED
    BY <1>3, <1>8, <1>9, <1>10, <1>12, <2>1, <2>2, <2>3, <2>4, NextStateFacts
<1>14. PICK P : P = View(mapped, slabs_, current_, out) /\ AbstractPool = P
  BY AbstractPoolNow
<1>a. /\ WellFormed(P) /\ P \in Pool /\ P.free = (mapped \X Index) \ out
      /\ P.mapped = mapped /\ P.slabs = ToSet(slabs_)
  BY <1>4, <1>14, StateFacts, ViewWellFormed
<1>15. AbstractPool' = Take(AddSlab(P, s), b)
  <2>1. PICK Q : Q = View(mapped', slabs_', s, out \cup {b})
    OBVIOUS
  <2>2. AbstractPool' = Q
    BY <1>1, <1>8, <1>13, <2>1, AbstractPoolNext
  <2>3. /\ ToSet(slabs_') \subseteq mapped' /\ s \in mapped' \cup {NoSlab}
    BY <1>1, <1>4, <1>12
  <2>4. /\ Q \in Pool /\ Q.mapped = mapped' /\ Q.slabs = ToSet(slabs_') /\ Q.current = s
        /\ Q.free = (mapped' \X Index) \ (out \cup {b})
    BY <1>9, <2>1, <2>3, ViewWellFormed
  <2>5. PICK R : R = AddSlab(P, s)
    OBVIOUS
  <2>6. /\ WellFormed(R) /\ R \in Pool
        /\ R.mapped = mapped \cup {s} /\ R.slabs = ToSet(slabs_) \cup {s}
        /\ R.free = ((mapped \X Index) \ out) \cup BlocksOf(s)
    BY <1>a, <2>5, AddSlabFacts DEF WellFormed
  <2>7. b \in R.free
    BY <1>11, <2>6
  <2>8. /\ Take(R, b) \in Pool /\ Take(R, b).mapped = mapped \cup {s}
        /\ Take(R, b).slabs = ToSet(slabs_) \cup {s}
        /\ Take(R, b).free = (((mapped \X Index) \ out) \cup BlocksOf(s)) \ {b}
    BY <2>6, <2>7, TakeFacts DEF WellFormed
  <2>9. Take(R, b).current = s
    BY <1>11, <2>6, CurrentAfter
  <2>10. (((mapped \X Index) \ out) \cup BlocksOf(s)) \ {b}
           = ((mapped \cup {s}) \X Index) \ (out \cup {b})
    BY <1>1, <1>4 DEF BlocksOf
  <2>11. PICK T : T = Take(R, b)
    OBVIOUS
  <2>12. Q.free = T.free
    BY <1>1, <2>4, <2>8, <2>10, <2>11
  <2>13. Q.mapped = T.mapped /\ Q.slabs = T.slabs /\ Q.current = T.current
    BY <1>1, <1>12, <2>4, <2>8, <2>9, <2>11
  <2>14. Q = T
    BY <2>4, <2>8, <2>11, <2>12, <2>13, SamePool
  <2>15. QED
    BY <2>2, <2>5, <2>11, <2>14
<1>16. Available(P) = {} /\ s \notin P.mapped
  <2>1. Available(P) = {}
    BY <1>2, <1>14, WhatScanFinds
  <2>2. QED
    BY <1>1, <1>14, <2>1 DEF View
<1>17. QED
  <2>1. \E u \in Slab \ AbstractPool.mapped : \E c \in BlocksOf(u) :
          /\ AbstractPool' = Take(AddSlab(AbstractPool, u), c)
          /\ out' = out \cup {c}
    BY <1>8, <1>11, <1>14, <1>15, <1>16
  <2>2. QED
    BY <1>2, <1>13, <1>14, <1>16, <2>1, ClassOperators DEF Abstract!AllocateNewSlab

(***************************************************************************)
(* allocate_new_slab() when push_back throws: mapped, current, unlisted.   *)
(***************************************************************************)
LEMMA PushBackFailsImplements ==
  ASSUME SInv, PushBackFails
  PROVE  SInv' /\ Abstract!PushBackFails
<1>1. PICK s \in Slab \ mapped :
        /\ mapped' = mapped \cup {s}
        /\ current_' = s
        /\ header' = InitSlab(header, s)
  BY DEF PushBackFails
<1>2. alive /\ NothingFree /\ UNCHANGED <<slabs_, capacity_, out, alive>>
  BY DEF PushBackFails
<1>3. /\ slabs_ \in Seq(Slab) /\ IsInjective(slabs_)
      /\ ToSet(slabs_) \subseteq mapped /\ mapped \subseteq Slab
      /\ capacity_ \in Nat
      /\ header \in [Slab -> Header]
      /\ out \subseteq mapped \X Index
  BY StateFacts
<1>4. /\ header' \in [Slab -> HeaderShape]
      /\ Sound(header', mapped', out)
      /\ \A u \in Slab \ {s} : header'[u] = header[u]
  BY <1>1, FreshSlab
<1>5. SInv'
  <2>1. \A u \in Slab \ mapped' : header'[u] \in Header
    BY <1>1, <1>3, <1>4
  <2>2. out' \subseteq mapped' \X Index
    BY <1>1, <1>2, <1>3
  <2>3. /\ ToSet(slabs_') \subseteq mapped' /\ current_' \in mapped' \cup {NoSlab}
        /\ mapped' \subseteq Slab
    BY <1>1, <1>2, <1>3
  <2>4. alive' \in BOOLEAN
    BY <1>2 DEF SInv, TypeOK
  <2>5. QED
    BY <1>2, <1>3, <1>4, <2>1, <2>2, <2>3, <2>4, NextStateFacts
<1>6. PICK P : P = View(mapped, slabs_, current_, out) /\ AbstractPool = P
  BY AbstractPoolNow
<1>a. /\ WellFormed(P) /\ P \in Pool /\ P.free = (mapped \X Index) \ out
      /\ P.mapped = mapped /\ P.slabs = ToSet(slabs_)
  BY <1>3, <1>6, StateFacts, ViewWellFormed
<1>7. AbstractPool' = MapSlab(P, s)
  <2>1. PICK Q : Q = View(mapped', slabs_, s, out)
    OBVIOUS
  <2>2. AbstractPool' = Q
    BY <1>1, <1>2, <1>5, <2>1, AbstractPoolNext
  <2>3. /\ ToSet(slabs_) \subseteq mapped' /\ s \in mapped' \cup {NoSlab}
        /\ mapped' \subseteq Slab
    BY <1>1, <1>3
  <2>4. /\ Q \in Pool /\ Q.mapped = mapped' /\ Q.slabs = ToSet(slabs_) /\ Q.current = s
        /\ Q.free = (mapped' \X Index) \ out
    BY <2>1, <2>3, ViewWellFormed
  <2>5. /\ MapSlab(P, s) \in Pool /\ MapSlab(P, s).mapped = mapped \cup {s}
        /\ MapSlab(P, s).slabs = ToSet(slabs_)
        /\ MapSlab(P, s).free = ((mapped \X Index) \ out) \cup BlocksOf(s)
    BY <1>a, MapSlabFacts DEF WellFormed
  <2>6. MapSlab(P, s).current = s
    BY <1>a, CurrentAfter
  <2>7. ((mapped \X Index) \ out) \cup BlocksOf(s) = ((mapped \cup {s}) \X Index) \ out
    BY <1>1, <1>3 DEF BlocksOf
  <2>8. PICK T : T = MapSlab(P, s)
    OBVIOUS
  <2>9. Q.free = T.free /\ Q.mapped = T.mapped /\ Q.slabs = T.slabs /\ Q.current = T.current
    BY <1>1, <2>4, <2>5, <2>6, <2>7, <2>8
  <2>10. Q = T
    BY <2>4, <2>5, <2>8, <2>9, SamePool
  <2>11. QED
    BY <2>2, <2>8, <2>10
<1>8. Available(P) = {} /\ s \notin P.mapped
  <2>1. Available(P) = {}
    BY <1>2, <1>6, WhatScanFinds
  <2>2. QED
    BY <1>1, <1>6, <2>1 DEF View
<1>9. QED
  BY <1>2, <1>5, <1>6, <1>7, <1>8, ClassOperators DEF Abstract!PushBackFails

(***************************************************************************)
(* What release_extra_empty_slabs_locked leaves is what SlabPool says a    *)
(* sweep may leave.                                                        *)
(***************************************************************************)
LEMMA SweepImplements ==
  ASSUME SInv, NEW h \in [Slab -> HeaderShape], NEW o, o \subseteq out,
         Sound(h, mapped, o), \A u \in Slab \ mapped : h[u] = header[u],
         ReleaseExtraEmptySlabsLocked(h), out' = o, UNCHANGED <<capacity_, alive>>,
         NEW Q, Q = View(mapped, slabs_, current_, o)
  PROVE  SInv' /\ AbstractPool' \in ReleaseExtraEmptySlabs(Q)
<1> DEFINE Empty == {s \in ToSet(slabs_) : is_empty(h, s)}
<1>1. /\ slabs_ \in Seq(Slab) /\ IsInjective(slabs_)
      /\ ToSet(slabs_) \subseteq mapped /\ mapped \subseteq Slab
      /\ NoSlab \notin Slab
      /\ capacity_ \in Nat
      /\ current_ \in mapped \cup {NoSlab}
      /\ header \in [Slab -> Header]
      /\ out \subseteq mapped \X Index
  BY StateFacts
<1>2. /\ WellFormed(Q) /\ Q.mapped = mapped /\ Q.slabs = ToSet(slabs_)
      /\ Q.current = current_ /\ Q.free = (mapped \X Index) \ o
  BY <1>1, ViewWellFormed
<1>3. PICK w : w = Sweep(h)
  OBVIOUS
<1>4. /\ w.slabs \in Seq(Slab) /\ IsInjective(w.slabs)
      /\ ToSet(w.slabs) = ToSet(slabs_) \ (Empty \ {w.kept})
      /\ w.kept \in Empty \cup {NoSlab}
      /\ Empty # {} => w.kept \in Empty
      /\ w.current = IF current_ \in Empty \ {w.kept} THEN NoSlab ELSE current_
  BY <1>1, <1>3, SweepFacts DEF SInv
<1>5. PICK gone : gone = ToSet(slabs_) \ ToSet(w.slabs)
  OBVIOUS
<1>6. PICK cur : cur = IF w.current \in ToSet(w.slabs) THEN w.current ELSE NoSlab
  OBVIOUS
<1>7. /\ slabs_' = w.slabs
      /\ mapped' = mapped \ gone
      /\ header' = [s \in Slab |-> IF s \in gone THEN NoHeader ELSE h[s]]
      /\ current_' = IF w.kept # NoSlab /\ (cur = NoSlab \/ ~has_free(h, cur))
                     THEN w.kept ELSE cur
  BY <1>3, <1>5, <1>6 DEF ReleaseExtraEmptySlabsLocked
<1>8. \A s \in mapped : /\ has_free(h, s) <=> HasFree(Q, s)
                        /\ is_empty(h, s) <=> IsEmpty(Q, s)
  <2> TAKE s \in mapped
  <2>1. QED
    BY <1>1, <1>2, CounterTellsThePool
<1>9. Empty = EmptySlabs(Q)
  BY <1>1, <1>2, <1>8 DEF EmptySlabs
<1>10. gone = Empty \ {w.kept} /\ ToSet(w.slabs) = ToSet(slabs_) \ gone
  <2>1. Empty \ {w.kept} \subseteq ToSet(slabs_)
    OBVIOUS
  <2> HIDE DEF Empty
  <2>2. QED
    BY <1>4, <1>5, <2>1
<1>11. cur = IF current_ \in ToSet(w.slabs) THEN current_ ELSE NoSlab
  <2>1. NoSlab \notin ToSet(w.slabs)
    BY <1>1, <1>10
  <2>2. CASE current_ \in gone
    BY <1>4, <1>6, <1>10, <2>1, <2>2
  <2>3. CASE current_ \notin gone
    BY <1>4, <1>6, <1>10, <2>3
  <2>4. QED
    BY <2>2, <2>3
<1>12. gone \subseteq mapped /\ w.kept \in mapped \cup {NoSlab}
       /\ (w.kept # NoSlab => w.kept \in ToSet(w.slabs))
  BY <1>1, <1>4, <1>5, <1>10
<1>13. \A s \in gone : BlocksOf(s) \cap o = {}
  <2>1. \A s \in gone : IsEmpty(Q, s)
    BY <1>9, <1>10 DEF EmptySlabs
  <2>2. QED
    BY <1>2, <2>1 DEF IsEmpty
<1>14. ToSet(w.slabs) \subseteq mapped'
  BY <1>1, <1>7, <1>10
<1>15. current_' \in mapped' \cup {NoSlab}
  BY <1>7, <1>11, <1>12, <1>14
<1>16. NoHeader \in HeaderShape /\ NoHeader \in Header
  BY SlabsAssumption DEF NoHeader, HeaderShape, Header
<1>17. header' \in [Slab -> HeaderShape]
  BY <1>7, <1>16
<1>18. \A s \in mapped' : header'[s] = h[s]
  BY <1>1, <1>7
<1>19. Sound(header', mapped', out')
  <2>1. \A s \in mapped' : s \in mapped
    BY <1>7
  <2>2. QED
    BY <1>18, <2>1 DEF Sound
<1>20. \A s \in Slab \ mapped' : header'[s] \in Header
  BY <1>1, <1>7, <1>16
<1>21. out' \subseteq mapped' \X Index
  BY <1>1, <1>7, <1>13 DEF BlocksOf
<1>22. SInv'
  <2>1. alive' \in BOOLEAN /\ mapped' \subseteq Slab /\ capacity_' \in Nat
    BY <1>1, <1>7 DEF SInv, TypeOK
  <2>2. slabs_' \in Seq(Slab) /\ IsInjective(slabs_') /\ ToSet(slabs_') \subseteq mapped'
    BY <1>4, <1>7, <1>14
  <2>3. QED
    BY <1>15, <1>17, <1>19, <1>20, <1>21, <2>1, <2>2, NextStateFacts
<1>23. PICK R : R = View(mapped', slabs_', current_', o)
  OBVIOUS
<1>24. AbstractPool' = R
  BY <1>22, <1>23, AbstractPoolNext
<1>25. R = KeepOnly(Q, w.kept)
  <2>1. PICK keep : keep = w.kept
    OBVIOUS
  <2>2. PICK left : left = Q.slabs \ gone
    OBVIOUS
  <2>3. PICK c : c = IF Q.current \in left THEN Q.current ELSE NoSlab
    OBVIOUS
  <2>4. KeepOnly(Q, keep) =
          [mapped  |-> Q.mapped \ gone,
           slabs   |-> left,
           current |-> IF keep # NoSlab /\ (c = NoSlab \/ ~HasFree(Q, c)) THEN keep ELSE c,
           free    |-> {b \in Q.free : SlabOf(b) \notin gone}]
    BY <1>9, <1>10, <2>1, <2>2, <2>3 DEF KeepOnly
  <2>5. left = ToSet(slabs_') /\ Q.mapped \ gone = mapped'
    BY <1>2, <1>7, <1>10, <2>2
  <2>6. c = cur
    BY <1>2, <1>7, <1>11, <2>3, <2>5
  <2>7. cur # NoSlab => cur \in mapped
    BY <1>1, <1>10, <1>11
  <2>8. (IF keep # NoSlab /\ (c = NoSlab \/ ~HasFree(Q, c)) THEN keep ELSE c) = current_'
    BY <1>7, <1>8, <2>1, <2>6, <2>7
  <2>9. {b \in Q.free : SlabOf(b) \notin gone} = (mapped' \X Index) \ o
    BY <1>2, <1>7 DEF SlabOf
  <2>10. QED
    BY <1>23, <2>1, <2>4, <2>5, <2>8, <2>9 DEF View
<1>26. KeepOnly(Q, w.kept) \in ReleaseExtraEmptySlabs(Q)
  <2>1. EmptySlabs(Q) = {} => w.kept = NoSlab
    BY <1>4, <1>9
  <2>2. EmptySlabs(Q) # {} => w.kept \in EmptySlabs(Q)
    BY <1>4, <1>9
  <2>3. QED
    BY <2>1, <2>2 DEF ReleaseExtraEmptySlabs
<1>27. QED
  BY <1>22, <1>24, <1>25, <1>26

(***************************************************************************)
(* deallocate() and deallocate_batch(), with a sweep or without.           *)
(***************************************************************************)
LEMMA DeallocateImplements ==
  ASSUME SInv, Deallocate
  PROVE  SInv' /\ Abstract!Deallocate
<1>1. PICK chain \in Chains : FreeAndSweep(chain) /\ out' = out \ ToSet(chain)
  BY DEF Deallocate
<1>2. alive /\ UNCHANGED <<capacity_, alive>>
  BY DEF Deallocate
<1>3. PICK n \in 1 .. MaxBatch : chain \in [1 .. n -> out] /\ IsInjective(chain)
  BY <1>1 DEF Chains, Injection
<1>4. n \in Nat \ {0}
  BY <1>3, SizeClassAssumption
<1>5. chain \in Seq(out) /\ Len(chain) = n /\ DOMAIN chain = 1 .. n
  BY <1>3, <1>4, SeqDef
<1>6. /\ slabs_ \in Seq(Slab) /\ IsInjective(slabs_)
      /\ ToSet(slabs_) \subseteq mapped /\ mapped \subseteq Slab
      /\ capacity_ \in Nat
      /\ current_ \in mapped \cup {NoSlab}
      /\ header \in [Slab -> Header]
      /\ Sound(header, mapped, out)
      /\ out \subseteq mapped \X Index
  BY StateFacts
<1>7. PICK B : B = ToSet(chain)
  OBVIOUS
<1>8. B \in (SUBSET out) \ {{}}
  <2>1. \A i \in 1 .. n : chain[i] \in out
    BY <1>3
  <2>2. 1 \in 1 .. n
    BY <1>4
  <2>3. QED
    BY <1>5, <1>7, <2>1, <2>2 DEF ToSet
<1>9. PICK h : h = FreeChain(chain)[Len(chain)]
  OBVIOUS
<1>10. PICK o : o = out \ B
  OBVIOUS
<1>11. /\ h \in [Slab -> HeaderShape]
       /\ Sound(h, mapped, o)
       /\ \A u \in Slab \ mapped : h[u] = header[u]
       /\ (\E i \in 1 .. Len(chain) : is_empty(FreeChain(chain)[i], SlabOf(chain[i])))
          <=> \E b \in B : is_empty(h, SlabOf(b))
  <2>1. TypeOK /\ Len(chain) # 0
    BY <1>4, <1>5 DEF SInv
  <2>2. QED
    BY <1>3, <1>5, <1>6, <1>7, <1>9, <1>10, <2>1, FreeChainSound
<1>12. PICK Q : Q = View(mapped, slabs_, current_, o)
  OBVIOUS
<1>13. /\ Q \in Pool /\ Q.mapped = mapped /\ Q.slabs = ToSet(slabs_)
       /\ Q.current = current_ /\ Q.free = (mapped \X Index) \ o
  BY <1>6, <1>12, ViewWellFormed
<1>14. PICK P : P = AbstractPool
  OBVIOUS
<1>15. P = View(mapped, slabs_, current_, out)
  BY <1>14, AbstractPoolNow
<1>16. [P EXCEPT !.free = @ \cup B] = Q
  <2>1. ((mapped \X Index) \ out) \cup B = (mapped \X Index) \ o
    BY <1>6, <1>8, <1>10
  <2>2. [View(mapped, slabs_, current_, out) EXCEPT !.free = @ \cup B] =
          [mapped |-> mapped, slabs |-> ToSet(slabs_), current |-> current_,
           free |-> ((mapped \X Index) \ out) \cup B]
    BY DEF View
  <2>3. QED
    BY <1>12, <1>15, <2>1, <2>2 DEF View
<1>17. \A b \in B : SlabOf(b) \in mapped
  BY <1>6, <1>8 DEF SlabOf
<1>18. ASSUME NEW s \in mapped PROVE is_empty(h, s) <=> IsEmpty(Q, s)
  BY <1>6, <1>11, <1>13, CounterTellsThePool
<1>19. CASE \E b \in B : is_empty(h, SlabOf(b))
  <2>1. ReleaseExtraEmptySlabsLocked(h)
    <3>1. \E i \in 1 .. Len(chain) : is_empty(FreeChain(chain)[i], SlabOf(chain[i]))
      BY <1>11, <1>19
    <3>2. QED
      BY <1>1, <1>9, <3>1 DEF FreeAndSweep
  <2>2. out' = o /\ o \subseteq out
    BY <1>1, <1>7, <1>10
  <2>3. SInv' /\ AbstractPool' \in ReleaseExtraEmptySlabs(Q)
    BY <1>2, <1>11, <1>12, <2>1, <2>2, SweepImplements
  <2>4. AbstractPool' \in DeallocateBatch(P, B)
    BY <1>16, <1>17, <1>18, <1>19, <2>3 DEF DeallocateBatch
  <2>5. QED
    BY <1>2, <1>8, <1>10, <1>14, <2>2, <2>3, <2>4, ClassOperators DEF Abstract!Deallocate
<1>20. CASE ~\E b \in B : is_empty(h, SlabOf(b))
  <2>1. header' = h /\ UNCHANGED <<slabs_, current_, mapped>>
    <3>1. ~\E i \in 1 .. Len(chain) : is_empty(FreeChain(chain)[i], SlabOf(chain[i]))
      BY <1>11, <1>20
    <3>2. QED
      BY <1>1, <1>9, <3>1 DEF FreeAndSweep
  <2>2. out' = o
    BY <1>1, <1>7, <1>10
  <2>3. SInv'
    <3>1. alive' \in BOOLEAN
      BY <1>2 DEF SInv, TypeOK
    <3>2. \A u \in Slab \ mapped' : header'[u] \in Header
      BY <1>6, <1>11, <2>1
    <3>3. out' \subseteq mapped' \X Index
      BY <1>6, <1>10, <2>1, <2>2
    <3>4. QED
      BY <1>2, <1>6, <1>11, <2>1, <2>2, <3>1, <3>2, <3>3, NextStateFacts
  <2>4. AbstractPool' = Q
    BY <1>12, <2>1, <2>2, <2>3, AbstractPoolNext
  <2>5. Q \in DeallocateBatch(P, B)
    BY <1>16, <1>17, <1>18, <1>20 DEF DeallocateBatch
  <2>6. QED
    BY <1>2, <1>8, <1>10, <1>14, <2>2, <2>3, <2>4, <2>5, ClassOperators DEF Abstract!Deallocate
<1>21. QED
  BY <1>19, <1>20

(***************************************************************************)
(* ~SizeClass() unmaps what slabs_ lists.                                  *)
(***************************************************************************)
LEMMA DestroyImplements ==
  ASSUME SInv, Destroy
  PROVE  SInv' /\ Abstract!Destroy
<1>1. /\ alive /\ out = {} /\ mapped' = mapped \ ToSet(slabs_)
      /\ slabs_' = <<>> /\ capacity_' = 0 /\ current_' = NoSlab
      /\ header' = [s \in Slab |-> IF s \in mapped' THEN header[s] ELSE NoHeader]
      /\ alive' = FALSE /\ out' = {}
  BY DEF Destroy
<1>2. /\ ToSet(slabs_) \subseteq mapped /\ mapped \subseteq Slab
      /\ header \in [Slab -> Header] /\ header \in [Slab -> HeaderShape]
      /\ Sound(header, mapped, out)
      /\ current_ \in mapped \cup {NoSlab}
  BY StateFacts
<1>3. /\ slabs_' \in Seq(Slab) /\ IsInjective(slabs_') /\ ToSet(slabs_') = {}
  BY <1>1 DEF IsInjective, ToSet
<1>4. NoHeader \in HeaderShape /\ NoHeader \in Header
  BY SlabsAssumption DEF NoHeader, HeaderShape, Header
<1>5. header' \in [Slab -> HeaderShape] /\ \A s \in Slab \ mapped' : header'[s] \in Header
  BY <1>1, <1>2, <1>4
<1>6. Sound(header', mapped', out')
  <2>1. \A s \in mapped' : s \in mapped /\ header'[s] = header[s]
    BY <1>1, <1>2
  <2>2. QED
    BY <1>1, <1>2, <2>1 DEF Sound
<1>7. SInv'
  <2>1. mapped' \subseteq Slab /\ out' \subseteq mapped' \X Index
    BY <1>1, <1>2
  <2>2. QED
    BY <1>1, <1>3, <1>5, <1>6, <2>1, NextStateFacts
<1>8. PICK P : P = AbstractPool /\ P = View(mapped, slabs_, current_, {})
  BY <1>1, AbstractPoolNow
<1>9. /\ P.mapped = mapped /\ P.slabs = ToSet(slabs_) /\ P.free = (mapped \X Index) \ {}
  BY <1>2, <1>8, ViewWellFormed
<1>10. Unlist(P) = View(mapped', slabs_', NoSlab, {})
  <2>1. {b \in P.free : SlabOf(b) \notin P.slabs} = (mapped' \X Index) \ {}
    BY <1>1, <1>9 DEF SlabOf
  <2>2. QED
    BY <1>1, <1>3, <1>9, <2>1 DEF Unlist, View
<1>11. AbstractPool' = Unlist(P)
  BY <1>1, <1>7, <1>10, AbstractPoolNext
<1>12. QED
  BY <1>1, <1>7, <1>8, <1>11, ClassOperators DEF Abstract!Destroy

(***************************************************************************)
(* Every step of a SizeClass keeps its invariant and is a step of          *)
(* SlabPool.                                                               *)
(***************************************************************************)
LEMMA StepImplements ==
  SInv /\ [Next]_vars => SInv' /\ [Abstract!Next]_Abstract!vars
<1> SUFFICES ASSUME SInv, [Next]_vars
             PROVE  SInv' /\ [Abstract!Next]_Abstract!vars
  OBVIOUS
<1>1. CASE AllocateExisting
  BY <1>1, ExistingImplements DEF Abstract!Next
<1>2. CASE AllocateNewSlab
  BY <1>2, NewSlabImplements DEF Abstract!Next
<1>3. CASE PushBackFails
  BY <1>3, PushBackFailsImplements DEF Abstract!Next
<1>4. CASE Deallocate
  BY <1>4, DeallocateImplements DEF Abstract!Next
<1>5. CASE Destroy
  BY <1>5, DestroyImplements DEF Abstract!Next
<1>6. CASE UNCHANGED vars
  <2>1. SInv'
    BY <1>6 DEF vars, SInv, TypeOK, FreeListsSound, NoDanglingSlab, OutIsMapped
  <2>2. UNCHANGED Abstract!vars
    BY <1>6 DEF vars, AbstractPool, Abstract!vars
  <2>3. QED
    BY <2>1, <2>2
<1>7. QED
  BY <1>1, <1>2, <1>3, <1>4, <1>5, <1>6 DEF Next

LEMMA SpecSInv == Spec => []SInv
<1>1. Init => SInv
  BY StartsAbstract
<1>2. SInv /\ [Next]_vars => SInv'
  BY StepImplements
<1>3. QED
  BY <1>1, <1>2, PTL DEF Spec

-----------------------------------------------------------------------------
(* The theorems. *)

(***************************************************************************)
(* A SizeClass keeps the shape of its vector and headers: no free_count    *)
(* leaves 0 .. Capacity, though deallocation counts up unchecked.          *)
(***************************************************************************)
THEOREM HeadersTypeCorrect == Spec => []TypeOK
<1>1. SInv => TypeOK
  BY DEF SInv
<1>2. QED
  BY <1>1, SpecSInv, PTL

(***************************************************************************)
(* In every mapped slab free_count is the length of the free list, and the *)
(* list holds each block that is not handed out, once: is_empty() and      *)
(* has_free() never lie, whatever the chain given to deallocate_batch.     *)
(***************************************************************************)
THEOREM FreeListsAlwaysSound == Spec => []FreeListsSound
<1>1. SInv => FreeListsSound
  BY DEF SInv
<1>2. QED
  BY <1>1, SpecSInv, PTL

(***************************************************************************)
(* slabs_ lists mapped slabs only, each once, and current_ is null or      *)
(* mapped, after any number of sweeps that swap and pop.                   *)
(***************************************************************************)
THEOREM NeverADanglingSlab == Spec => []NoDanglingSlab
<1>1. SInv => NoDanglingSlab
  BY DEF SInv
<1>2. QED
  BY <1>1, SpecSInv, PTL

(***************************************************************************)
(* A SizeClass with its vector order, LIFO lists and sweep is a SlabPool:  *)
(* what SlabPoolProofs proves of SlabPool holds of it.                     *)
(***************************************************************************)
THEOREM SizeClassImplementsSlabPool == Spec => ImplementsSlabPool
<1>1. Init => Abstract!Init
  BY StartsAbstract
<1>2. SInv /\ [Next]_vars => [Abstract!Next]_Abstract!vars
  BY StepImplements
<1>3. QED
  BY <1>1, <1>2, SpecSInv, PTL DEF Spec, ImplementsSlabPool, Abstract!Spec
=============================================================================
