--------------------------- MODULE SlabPoolProofs ---------------------------
(***************************************************************************)
(* One SizeClass, for any addresses and any capacity: what SlabPool.cfg    *)
(* checks on three slabs.                                                  *)
(***************************************************************************)
EXTENDS SlabPool, SlabsProofs

\* BlocksAccounted is inductive once the pool's own pointers are known to
\* stay inside the mapped slabs.
IInv ==
  /\ WellFormed(pool)
  /\ out \in SUBSET Block
  /\ alive \in BOOLEAN
  /\ BlocksAccounted
  /\ AtMostOneEmptySlab

LEMMA InitIInv == Init => IInv
<1> SUFFICES ASSUME Init PROVE IInv
  OBVIOUS
<1>1. WellFormed(pool)
  BY NewPoolWellFormed DEF Init
<1>2. BlocksAccounted /\ AtMostOneEmptySlab
  BY DEF Init, NewPool, BlocksAccounted, AtMostOneEmptySlab, AtMostOneEmpty
<1>3. QED
  BY <1>1, <1>2 DEF Init, IInv

LEMMA NextIInv == IInv /\ [Next]_vars => IInv'
<1> SUFFICES ASSUME IInv, [Next]_vars PROVE IInv'
  OBVIOUS
<1> USE DEF IInv
<1>1. CASE AllocateExisting
  <2>1. PICK b \in Available(pool) : pool' = Take(pool, b) /\ out' = out \cup {b}
    BY <1>1 DEF AllocateExisting
  <2>2. b \in pool.free /\ b \in Block
    BY DEF Available, WellFormed, Pool
  <2>3. /\ WellFormed(pool')
        /\ pool'.mapped = pool.mapped
        /\ pool'.free = pool.free \ {b}
    BY <2>1, <2>2, TakeFacts
  <2>4. AtMostOneEmptySlab'
    BY <2>1, <2>2, TakeKeepsAtMostOne DEF AtMostOneEmptySlab
  <2>5. BlocksAccounted'
    BY <2>1, <2>2, <2>3 DEF BlocksAccounted
  <2>6. QED
    BY <1>1, <2>1, <2>2, <2>3, <2>4, <2>5 DEF AllocateExisting
<1>2. CASE AllocateNewSlab
  <2> PICK s \in Slab \ pool.mapped : \E b \in BlocksOf(s) :
          pool' = Take(AddSlab(pool, s), b) /\ out' = out \cup {b}
    BY <1>2 DEF AllocateNewSlab
  <2>1. PICK b \in BlocksOf(s) :
          pool' = Take(AddSlab(pool, s), b) /\ out' = out \cup {b}
    OBVIOUS
  <2>2. /\ WellFormed(AddSlab(pool, s))
        /\ b \in AddSlab(pool, s).free
        /\ b \in Block
    BY AddSlabFacts DEF BlocksOf, Block
  <2>3. /\ WellFormed(pool')
        /\ pool'.mapped = pool.mapped \cup {s}
        /\ pool'.free = (pool.free \cup BlocksOf(s)) \ {b}
    BY <2>1, <2>2, AddSlabFacts, TakeFacts
  <2>4. AtMostOneEmptySlab'
    BY <2>1, GrowKeepsAtMostOne DEF AtMostOneEmptySlab
  <2>5. BlocksOf(s) \cap out = {}
    BY DEF BlocksOf, BlocksAccounted
  <2>6. BlocksAccounted'
    BY <2>1, <2>3, <2>5 DEF BlocksAccounted, BlocksOf
  <2>7. QED
    BY <1>2, <2>1, <2>2, <2>3, <2>4, <2>6 DEF AllocateNewSlab
<1>3. CASE PushBackFails
  <2>1. PICK s \in Slab \ pool.mapped : pool' = MapSlab(pool, s)
    BY <1>3 DEF PushBackFails
  <2>2. /\ WellFormed(pool')
        /\ pool'.mapped = pool.mapped \cup {s}
        /\ pool'.free = pool.free \cup BlocksOf(s)
    BY <2>1, MapSlabFacts
  <2>3. AtMostOneEmptySlab'
    BY <2>1, MapSlabKeepsAtMostOne DEF AtMostOneEmptySlab
  <2>4. BlocksAccounted'
    BY <1>3, <2>2 DEF PushBackFails, BlocksAccounted, BlocksOf
  <2>5. QED
    BY <1>3, <2>2, <2>3, <2>4 DEF PushBackFails
<1>4. CASE Deallocate
  <2>1. PICK B \in SUBSET out :
          pool' \in DeallocateBatch(pool, B) /\ out' = out \ B
    BY <1>4 DEF Deallocate
  <2>2. B \subseteq pool.mapped \X Index
    BY DEF BlocksAccounted
  <2>3. /\ WellFormed(pool')
        /\ pool'.mapped \subseteq pool.mapped
        /\ pool'.free = {b \in pool.free \cup B : SlabOf(b) \in pool'.mapped}
        /\ \A s \in pool.mapped \ pool'.mapped : BlocksOf(s) \subseteq pool.free \cup B
    BY <2>1, <2>2, DeallocateBatchFacts
  <2>4. AtMostOneEmptySlab'
    BY <2>1, <2>2, DeallocateBatchKeepsAtMostOne DEF AtMostOneEmptySlab
  <2>5. pool'.free \cap out' = {}
    BY <2>1, <2>3 DEF BlocksAccounted
  <2>6. ASSUME NEW b \in out' PROVE SlabOf(b) \in pool'.mapped
    <3>1. b \in pool.mapped \X Index /\ b \notin pool.free \cup B
      BY <2>1 DEF BlocksAccounted
    <3>2. SlabOf(b) \in pool.mapped /\ b \in BlocksOf(SlabOf(b))
      BY <3>1 DEF SlabOf, BlocksOf
    <3>3. QED
      BY <2>3, <3>1, <3>2
  <2>7. pool'.free \cup out' = pool'.mapped \X Index
    <3>1. ASSUME NEW b \in pool'.mapped \X Index PROVE b \in pool'.free \cup out'
      <4>1. b \in pool.free \cup out
        BY <2>3 DEF BlocksAccounted
      <4>2. QED
        BY <2>1, <2>3, <4>1 DEF SlabOf
    <3>2. ASSUME NEW b \in pool'.free \cup out' PROVE b \in pool'.mapped \X Index
      <4>1. b \in pool.mapped \X Index
        BY <2>1, <2>2, <2>3 DEF BlocksAccounted
      <4>2. QED
        BY <2>3, <2>6, <4>1 DEF SlabOf
    <3>3. QED
      BY <3>1, <3>2
  <2>8. QED
    BY <1>4, <2>1, <2>3, <2>4, <2>5, <2>7 DEF Deallocate, BlocksAccounted
<1>5. CASE Destroy
  <2>1. /\ pool' = Unlist(pool)
        /\ out = {} /\ out' = {}
        /\ alive' = FALSE
    BY <1>5 DEF Destroy
  <2>2. WellFormed(pool')
    BY <2>1 DEF Unlist, WellFormed, Pool, Block, SlabOf
  <2>3. BlocksAccounted'
    BY <2>1 DEF Unlist, BlocksAccounted, SlabOf
  <2>4. AtMostOneEmptySlab'
    BY <2>1 DEF Unlist, AtMostOneEmptySlab, AtMostOneEmpty
  <2>5. QED
    BY <2>1, <2>2, <2>3, <2>4
<1>6. CASE UNCHANGED vars
  BY <1>6 DEF vars, BlocksAccounted, AtMostOneEmptySlab
<1>7. QED
  BY <1>1, <1>2, <1>3, <1>4, <1>5, <1>6 DEF Next

LEMMA SpecIInv == Spec => []IInv
BY InitIInv, NextIInv, PTL DEF Spec

(***************************************************************************)
(* A SizeClass keeps the shape of its members.                             *)
(***************************************************************************)
THEOREM TypeCorrect == Spec => []TypeOK
<1>1. IInv => TypeOK
  BY DEF IInv, WellFormed, TypeOK
<1>2. QED
  BY <1>1, SpecIInv, PTL

(***************************************************************************)
(* However its methods are called, a SizeClass hands no block out twice,   *)
(* loses none of a slab it has mapped and unmaps no slab with a block out. *)
(***************************************************************************)
THEOREM BlocksAlwaysAccounted == Spec => []BlocksAccounted
<1>1. IInv => BlocksAccounted
  BY DEF IInv
<1>2. QED
  BY <1>1, SpecIInv, PTL

(***************************************************************************)
(* After any method of a SizeClass at most one slab of slabs_ is free.     *)
(***************************************************************************)
THEOREM OneEmptySlabAtMost == Spec => []AtMostOneEmptySlab
<1>1. IInv => AtMostOneEmptySlab
  BY DEF IInv
<1>2. QED
  BY <1>1, SpecIInv, PTL

(***************************************************************************)
(* current_ never points to a slab that was unmapped.                      *)
(***************************************************************************)
THEOREM CurrentAlwaysMapped == Spec => []CurrentIsMapped
<1>1. IInv => CurrentIsMapped
  BY DEF IInv, WellFormed, CurrentIsMapped
<1>2. QED
  BY <1>1, SpecIInv, PTL
=============================================================================
