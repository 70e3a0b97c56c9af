------------------------------ MODULE SlabPool ------------------------------
(***************************************************************************)
(* What one SizeClass promises its callers, seen through its mutex: every  *)
(* method is one step.  SizeClass.tla implements this specification, and   *)
(* every (node, class) pair of NumaArena.tla behaves as one.               *)
(***************************************************************************)
EXTENDS Slabs

VARIABLES
  pool,  \* the slabs (Slabs!Pool)
  out,   \* blocks handed out and not returned
  alive  \* FALSE once the destructor has run

vars == <<pool, out, alive>>

TypeOK ==
  /\ pool \in Pool
  /\ out \in SUBSET Block
  /\ alive \in BOOLEAN

Init ==
  /\ pool = NewPool
  /\ out = {}
  /\ alive = TRUE

-----------------------------------------------------------------------------

\* allocate(), allocate_existing() and allocate_new_slab() when a slab they
\* look at has a free block.
AllocateExisting ==
  /\ alive
  /\ \E b \in Available(pool) :
       /\ pool' = Take(pool, b)
       /\ out' = out \cup {b}
  /\ UNCHANGED alive

\* allocate() and allocate_new_slab() when none has.
AllocateNewSlab ==
  /\ alive
  /\ Available(pool) = {}
  /\ \E s \in Slab \ pool.mapped : \E b \in BlocksOf(s) :
       /\ pool' = Take(AddSlab(pool, s), b)
       /\ out' = out \cup {b}
  /\ UNCHANGED alive

\* The same, when the vector cannot grow: push_back throws after current_
\* was set, and the caller gets no block.
PushBackFails ==
  /\ alive
  /\ Available(pool) = {}
  /\ \E s \in Slab \ pool.mapped : pool' = MapSlab(pool, s)
  /\ UNCHANGED <<out, alive>>

\* deallocate() and deallocate_batch().
Deallocate ==
  /\ alive
  /\ \E B \in (SUBSET out) \ {{}} :
       /\ pool' \in DeallocateBatch(pool, B)
       /\ out' = out \ B
  /\ UNCHANGED alive

\* ~SizeClass(), once every block has come back.
Destroy ==
  /\ alive
  /\ out = {}
  /\ pool' = Unlist(pool)
  /\ alive' = FALSE
  /\ UNCHANGED out

Next ==
  \/ AllocateExisting
  \/ AllocateNewSlab
  \/ PushBackFails
  \/ Deallocate
  \/ Destroy

Spec == Init /\ [][Next]_vars

-----------------------------------------------------------------------------

(***************************************************************************)
(* A mapped slab's blocks are each on its free list or handed out, never   *)
(* both, and nothing is handed out of a slab that was unmapped: so no      *)
(* block is given twice and SizeClass::release_extra_empty_slabs_locked    *)
(* never unmaps a slab under a live block.                                 *)
(***************************************************************************)
BlocksAccounted ==
  /\ pool.free \cap out = {}
  /\ pool.free \cup out = pool.mapped \X Index

(***************************************************************************)
(* At rest at most one slab of slabs_ is entirely free: deallocate and     *)
(* deallocate_batch keep one for reuse and unmap the others.               *)
(***************************************************************************)
AtMostOneEmptySlab == AtMostOneEmpty(pool)

(***************************************************************************)
(* current_ never dangles: it is null or a slab that is still mapped, even *)
(* when a push_back that failed left it outside slabs_ and a later sweep   *)
(* of deallocate unmaps slabs.                                             *)
(***************************************************************************)
CurrentIsMapped == pool.current \in pool.mapped \cup {NoSlab}
=============================================================================
