------------------------------- MODULE Slabs -------------------------------
(***************************************************************************)
(* The slabs of one SizeClass, as a value: the record a SizeClass keeps    *)
(* under its mutex and the operators its methods are made of.              *)
(*                                                                         *)
(* A slab is known by its address, a block by its slab and its index in    *)
(* it.  The order of the vector slabs_ and of a slab's free list is left   *)
(* out here: where the code takes the first of several candidates these    *)
(* operators give the set of all of them.  SizeClass.tla has the orders    *)
(* and implements this.                                                    *)
(***************************************************************************)
EXTENDS Integers, FiniteSets

CONSTANTS
  Slab,      \* addresses at which mmap can place a slab
  Capacity,  \* blocks in a slab (SlabHeader::capacity)
  NoSlab     \* the null Slab*

ASSUME SlabsAssumption ==
  /\ Capacity \in Nat \ {0}
  /\ NoSlab \notin Slab
  /\ IsFiniteSet(Slab)

Index == 1 .. Capacity
Block == Slab \X Index
SlabOf(b) == b[1]

\* Mutant: the loop of Slab::init() runs once too often.
BlocksOfOneTooMany(s) == {s} \X (0 .. Capacity)

BlocksOf(s) == {s} \X Index

(***************************************************************************)
(*   mapped   slabs mapped for this class and not unmapped yet             *)
(*   slabs    the elements of slabs_                                       *)
(*   current  current_                                                     *)
(*   free     blocks on the free lists of the mapped slabs                 *)
(***************************************************************************)
Pool == [mapped  : SUBSET Slab,
         slabs   : SUBSET Slab,
         current : Slab \cup {NoSlab},
         free    : SUBSET Block]

NewPool == [mapped |-> {}, slabs |-> {}, current |-> NoSlab, free |-> {}]

HasFree(P, s) == \E b \in P.free : SlabOf(b) = s

\* Mutant: one block of the slab may still be handed out.
IsEmptyButOne(P, s) ==
  \E b \in BlocksOf(s) : BlocksOf(s) \ {b} \subseteq P.free

IsEmpty(P, s) == BlocksOf(s) \subseteq P.free

\* What deallocation leaves: one slab kept for reuse, the others unmapped.
AtMostOneEmpty(P) ==
  \A s, t \in P.slabs : IsEmpty(P, s) /\ IsEmpty(P, t) => s = t

-----------------------------------------------------------------------------
(* Allocation *)

\* The slabs allocate_existing() may serve from: current_ if it has a free
\* block, else whichever slab the scan of slabs_ meets first.
ServingSlabs(P) ==
  IF P.current # NoSlab /\ HasFree(P, P.current)
  THEN {P.current}
  ELSE {s \in P.slabs : HasFree(P, s)}

Available(P) == {b \in P.free : SlabOf(b) \in ServingSlabs(P)}

Take(P, b) == [P EXCEPT !.free = @ \ {b}, !.current = SlabOf(b)]

\* Slab::create assigned to current_, before slabs_.push_back(current_).
MapSlab(P, s) ==
  [P EXCEPT !.mapped = @ \cup {s}, !.current = s, !.free = @ \cup BlocksOf(s)]

AddSlab(P, s) == [MapSlab(P, s) EXCEPT !.slabs = @ \cup {s}]

-----------------------------------------------------------------------------
(* Deallocation *)

EmptySlabs(P) == {s \in P.slabs : IsEmpty(P, s)}

\* Mutant: current_ is not looked at while slabs are unmapped.
KeepOnlyAndCurrent(P, keep) ==
  LET gone == EmptySlabs(P) \ {keep}
  IN  [mapped  |-> P.mapped \ gone,
       slabs   |-> P.slabs \ gone,
       current |-> P.current,
       free    |-> {b \in P.free : SlabOf(b) \notin gone}]

\* release_extra_empty_slabs_locked() when the scan retains keep.
KeepOnly(P, keep) ==
  LET gone == EmptySlabs(P) \ {keep}
      left == P.slabs \ gone
      cur  == IF P.current \in left THEN P.current ELSE NoSlab
  IN  [mapped  |-> P.mapped \ gone,
       slabs   |-> left,
       current |-> IF keep # NoSlab /\ (cur = NoSlab \/ ~HasFree(P, cur))
                   THEN keep ELSE cur,
       free    |-> {b \in P.free : SlabOf(b) \notin gone}]

ReleaseExtraEmptySlabs(P) ==
  IF EmptySlabs(P) = {}
  THEN {KeepOnly(P, NoSlab)}
  ELSE {KeepOnly(P, keep) : keep \in EmptySlabs(P)}

\* Mutant: only the free of a single block looks for empty slabs.
DeallocateBatchUnswept(P, B) ==
  LET Q == [P EXCEPT !.free = @ \cup B]
  IN  IF \E b \in B : B = {b} /\ IsEmpty(Q, SlabOf(b))
      THEN ReleaseExtraEmptySlabs(Q)
      ELSE {Q}

\* deallocate_batch(B); deallocate(b) is the batch {b}.
DeallocateBatch(P, B) ==
  LET Q == [P EXCEPT !.free = @ \cup B]
  IN  IF \E b \in B : IsEmpty(Q, SlabOf(b))
      THEN ReleaseExtraEmptySlabs(Q)
      ELSE {Q}

\* ~SizeClass(): unmaps the slabs that slabs_ lists.
Unlist(P) ==
  [mapped  |-> P.mapped \ P.slabs,
   slabs   |-> {},
   current |-> NoSlab,
   free    |-> {b \in P.free : SlabOf(b) \notin P.slabs}]
=============================================================================
