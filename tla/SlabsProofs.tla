---------------------------- MODULE SlabsProofs ----------------------------
(***************************************************************************)
(* What the operators of Slabs.tla do to a pool, for any set of addresses  *)
(* and any capacity.  SlabPoolProofs.tla and NumaArenaProofs.tla rest on   *)
(* these lemmas.                                                           *)
(***************************************************************************)
EXTENDS Slabs, TLAPS

\* A pool whose pointers and free blocks lie in slabs that are mapped.
WellFormed(P) ==
  /\ P \in Pool
  /\ P.slabs \subseteq P.mapped
  /\ P.current \in P.mapped \cup {NoSlab}
  /\ P.free \subseteq P.mapped \X Index

(***************************************************************************)
(* A SizeClass starts with nothing mapped.                                 *)
(***************************************************************************)
LEMMA NewPoolWellFormed == WellFormed(NewPool)
BY DEF WellFormed, NewPool, Pool, Block

(***************************************************************************)
(* Allocating a block takes it off the free lists and changes no mapping.  *)
(***************************************************************************)
LEMMA TakeFacts ==
  ASSUME NEW P, WellFormed(P), NEW b \in P.free
  PROVE  /\ WellFormed(Take(P, b))
         /\ Take(P, b).mapped = P.mapped
         /\ Take(P, b).slabs = P.slabs
         /\ Take(P, b).free = P.free \ {b}
BY DEF WellFormed, Take, Pool, Block, SlabOf

(***************************************************************************)
(* Slab::create, listed in slabs_ or not, adds a slab whose blocks are all *)
(* free.                                                                   *)
(***************************************************************************)
LEMMA MapSlabFacts ==
  ASSUME NEW P, WellFormed(P), NEW s \in Slab
  PROVE  /\ WellFormed(MapSlab(P, s))
         /\ MapSlab(P, s).mapped = P.mapped \cup {s}
         /\ MapSlab(P, s).slabs = P.slabs
         /\ MapSlab(P, s).free = P.free \cup BlocksOf(s)
BY DEF WellFormed, MapSlab, Pool, Block, BlocksOf

LEMMA AddSlabFacts ==
  ASSUME NEW P, WellFormed(P), NEW s \in Slab
  PROVE  /\ WellFormed(AddSlab(P, s))
         /\ AddSlab(P, s).mapped = P.mapped \cup {s}
         /\ AddSlab(P, s).slabs = P.slabs \cup {s}
         /\ AddSlab(P, s).free = P.free \cup BlocksOf(s)
BY MapSlabFacts DEF WellFormed, AddSlab, MapSlab, Pool, Block, BlocksOf

(***************************************************************************)
(* The sweep of release_extra_empty_slabs_locked unmaps only slabs of      *)
(* slabs_ that are entirely free, and leaves at most the retained one.     *)
(***************************************************************************)
LEMMA KeepOnlyFacts ==
  ASSUME NEW P, WellFormed(P), NEW keep \in EmptySlabs(P) \cup {NoSlab}
  PROVE  /\ WellFormed(KeepOnly(P, keep))
         /\ KeepOnly(P, keep).mapped = P.mapped \ (EmptySlabs(P) \ {keep})
         /\ KeepOnly(P, keep).slabs = P.slabs \ (EmptySlabs(P) \ {keep})
         /\ KeepOnly(P, keep).free =
              {b \in P.free : SlabOf(b) \notin EmptySlabs(P) \ {keep}}
<1> DEFINE gone == EmptySlabs(P) \ {keep}
           left == P.slabs \ gone
           cur == IF P.current \in left THEN P.current ELSE NoSlab
           next == IF keep # NoSlab /\ (cur = NoSlab \/ ~HasFree(P, cur))
                   THEN keep ELSE cur
           Q == [mapped  |-> P.mapped \ gone,
                 slabs   |-> left,
                 current |-> next,
                 free    |-> {b \in P.free : SlabOf(b) \notin gone}]
<1>1. KeepOnly(P, keep) = Q
  BY DEF KeepOnly
<1>2. P.mapped \subseteq Slab /\ P.slabs \subseteq P.mapped
  BY DEF WellFormed, Pool
<1>3. EmptySlabs(P) \subseteq P.slabs
  BY DEF EmptySlabs
<1>4. next \in (P.mapped \ gone) \cup {NoSlab}
  BY <1>2, <1>3
<1>5. {b \in P.free : SlabOf(b) \notin gone} \subseteq (P.mapped \ gone) \X Index
  BY DEF WellFormed, SlabOf
<1>6. (P.mapped \ gone) \X Index \subseteq Block
  BY <1>2 DEF Block
<1>7. Q \in Pool
  BY <1>2, <1>4, <1>5, <1>6 DEF Pool
<1>8. QED
  BY <1>1, <1>2, <1>4, <1>5, <1>7 DEF WellFormed

(***************************************************************************)
(* deallocate and deallocate_batch: the batch joins the free lists, and a  *)
(* slab is unmapped only if all its blocks are there.                      *)
(***************************************************************************)
LEMMA DeallocateBatchFacts ==
  ASSUME NEW P, WellFormed(P),
         NEW B, B \subseteq P.mapped \X Index,
         NEW Q \in DeallocateBatch(P, B)
  PROVE  /\ WellFormed(Q)
         /\ Q.mapped \subseteq P.mapped
         /\ Q.slabs \subseteq P.slabs
         /\ Q.free = {b \in P.free \cup B : SlabOf(b) \in Q.mapped}
         /\ \A s \in P.mapped \ Q.mapped : BlocksOf(s) \subseteq P.free \cup B
<1> DEFINE R == [P EXCEPT !.free = @ \cup B]
<1>1. /\ WellFormed(R)
      /\ R.mapped = P.mapped
      /\ R.slabs = P.slabs
      /\ R.free = P.free \cup B
  BY DEF WellFormed, Pool, Block
<1>2. Q = R \/ \E keep \in EmptySlabs(R) \cup {NoSlab} : Q = KeepOnly(R, keep)
  BY DEF DeallocateBatch, ReleaseExtraEmptySlabs
<1> HIDE DEF R
<1>3. \A b \in R.free : SlabOf(b) \in R.mapped
  BY <1>1 DEF WellFormed, SlabOf
<1>4. CASE Q = R
  BY <1>1, <1>3, <1>4
<1>5. ASSUME NEW keep \in EmptySlabs(R) \cup {NoSlab}, Q = KeepOnly(R, keep)
      PROVE  /\ WellFormed(Q)
             /\ Q.mapped \subseteq P.mapped
             /\ Q.slabs \subseteq P.slabs
             /\ Q.free = {b \in P.free \cup B : SlabOf(b) \in Q.mapped}
             /\ \A s \in P.mapped \ Q.mapped : BlocksOf(s) \subseteq P.free \cup B
  <2> DEFINE gone == EmptySlabs(R) \ {keep}
  <2>1. /\ WellFormed(Q)
        /\ Q.mapped = P.mapped \ gone
        /\ Q.slabs = P.slabs \ gone
        /\ Q.free = {b \in P.free \cup B : SlabOf(b) \notin gone}
    BY <1>1, <1>5, KeepOnlyFacts
  <2>2. \A s \in gone : BlocksOf(s) \subseteq P.free \cup B
    BY <1>1 DEF EmptySlabs, IsEmpty
  <2>3. \A b \in P.free \cup B : SlabOf(b) \notin gone <=> SlabOf(b) \in Q.mapped
    BY <1>1, <1>3, <2>1
  <2>4. QED
    BY <2>1, <2>2, <2>3
<1>6. QED
  BY <1>2, <1>4, <1>5

(***************************************************************************)
(* Taking a block empties no slab.                                         *)
(***************************************************************************)
LEMMA TakeKeepsAtMostOne ==
  ASSUME NEW P, WellFormed(P), AtMostOneEmpty(P), NEW b \in P.free
  PROVE  AtMostOneEmpty(Take(P, b))
BY TakeFacts DEF AtMostOneEmpty, IsEmpty

(***************************************************************************)
(* Nor does a new slab, whether it serves its first block at once or was   *)
(* left out of slabs_.                                                     *)
(***************************************************************************)
LEMMA MapSlabKeepsAtMostOne ==
  ASSUME NEW P, WellFormed(P), AtMostOneEmpty(P), NEW s \in Slab \ P.mapped
  PROVE  AtMostOneEmpty(MapSlab(P, s))
<1>1. \A u \in P.slabs : IsEmpty(MapSlab(P, s), u) => IsEmpty(P, u)
  BY MapSlabFacts DEF WellFormed, IsEmpty, BlocksOf
<1>2. QED
  BY <1>1, MapSlabFacts DEF AtMostOneEmpty

LEMMA GrowKeepsAtMostOne ==
  ASSUME NEW P, WellFormed(P), AtMostOneEmpty(P), NEW s \in Slab \ P.mapped,
         NEW b \in BlocksOf(s)
  PROVE  AtMostOneEmpty(Take(AddSlab(P, s), b))
<1> DEFINE Q == Take(AddSlab(P, s), b)
<1>1. b \in AddSlab(P, s).free
  BY AddSlabFacts
<1>2. Q.slabs = P.slabs \cup {s} /\ Q.free = (P.free \cup BlocksOf(s)) \ {b}
  BY <1>1, AddSlabFacts, TakeFacts
<1>3. ~ IsEmpty(Q, s)
  BY <1>2 DEF IsEmpty
<1>4. \A u \in P.slabs : IsEmpty(Q, u) => IsEmpty(P, u)
  BY <1>2 DEF WellFormed, IsEmpty, BlocksOf
<1>5. QED
  BY <1>2, <1>3, <1>4 DEF AtMostOneEmpty

(***************************************************************************)
(* The sweep retains one empty slab, and a deallocation that empties none  *)
(* needs no sweep.                                                         *)
(***************************************************************************)
LEMMA DeallocateBatchKeepsAtMostOne ==
  ASSUME NEW P, WellFormed(P), AtMostOneEmpty(P),
         NEW B, B \subseteq P.mapped \X Index,
         NEW Q \in DeallocateBatch(P, B)
  PROVE  AtMostOneEmpty(Q)
<1> DEFINE R == [P EXCEPT !.free = @ \cup B]
<1>1. /\ WellFormed(R)
      /\ R.slabs = P.slabs
      /\ R.free = P.free \cup B
  BY DEF WellFormed, Pool, Block
<1>2. Q \in IF \E b \in B : IsEmpty(R, SlabOf(b))
            THEN ReleaseExtraEmptySlabs(R) ELSE {R}
  BY DEF DeallocateBatch
<1> HIDE DEF R
<1>3. CASE ~ \E b \in B : IsEmpty(R, SlabOf(b))
  <2>1. \A s : IsEmpty(R, s) => BlocksOf(s) \cap B = {}
    BY <1>3 DEF BlocksOf, SlabOf
  <2>2. \A s : IsEmpty(R, s) => IsEmpty(P, s)
    BY <1>1, <2>1 DEF IsEmpty
  <2>3. QED
    BY <1>1, <1>2, <1>3, <2>2 DEF AtMostOneEmpty
<1>4. CASE \E b \in B : IsEmpty(R, SlabOf(b))
  <2>1. PICK keep \in EmptySlabs(R) \cup {NoSlab} :
          /\ Q = KeepOnly(R, keep)
          /\ EmptySlabs(R) # {} => keep \in EmptySlabs(R)
    BY <1>2, <1>4 DEF ReleaseExtraEmptySlabs
  <2>2. Q.slabs = R.slabs \ (EmptySlabs(R) \ {keep}) /\ Q.free \subseteq R.free
    BY <1>1, <2>1, KeepOnlyFacts
  <2>3. \A s \in Q.slabs : IsEmpty(Q, s) => s = keep
    BY <2>2 DEF IsEmpty, EmptySlabs
  <2>4. QED
    BY <2>3 DEF AtMostOneEmpty
<1>5. QED
  BY <1>3, <1>4
=============================================================================
