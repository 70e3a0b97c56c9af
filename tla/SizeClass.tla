----------------------------- MODULE SizeClass -----------------------------
(***************************************************************************)
(* SizeClass and Slab (size_divide/small_object) as the code keeps them:   *)
(* the vector slabs_ in its order, the header of each slab with its LIFO   *)
(* free list and its free_count, current_, and the sweep of                *)
(* release_extra_empty_slabs_locked that swaps with the back and pops.     *)
(* Each method holds the class mutex throughout and is one step.           *)
(***************************************************************************)
EXTENDS Slabs, SequencesExt

CONSTANTS
  MaxBatch,        \* bound: longest chain given to deallocate_batch()
  PushBackMayFail  \* whether growing slabs_ may throw

ASSUME SizeClassAssumption ==
  MaxBatch \in Nat \ {0} /\ PushBackMayFail \in BOOLEAN

VARIABLES
  slabs_,    \* the vector, a sequence of slabs
  capacity_, \* slabs_.capacity()
  current_,  \* current_
  header,    \* header[s]: the free_list, head first, and the free_count of s
  mapped,    \* slabs mmap gave this class that are not unmapped
  out,       \* blocks handed out and not returned
  alive      \* FALSE once ~SizeClass() has run

vars == <<slabs_, capacity_, current_, header, mapped, out, alive>>

Header == [free_list : Seq(Index), free_count : 0 .. Capacity]

TypeOK ==
  /\ slabs_ \in Seq(Slab)
  /\ capacity_ \in Nat
  /\ current_ \in Slab \cup {NoSlab}
  /\ header \in [Slab -> Header]
  /\ mapped \in SUBSET Slab
  /\ out \in SUBSET Block
  /\ alive \in BOOLEAN

NoHeader == [free_list |-> <<>>, free_count |-> 0]

Init ==
  /\ slabs_ = <<>>
  /\ capacity_ = 0
  /\ current_ = NoSlab
  /\ header = [s \in Slab |-> NoHeader]
  /\ mapped = {}
  /\ out = {}
  /\ alive = TRUE

-----------------------------------------------------------------------------
(* Slab *)

has_free(h, s) == h[s].free_count > 0
is_empty(h, s) == h[s].free_count = Capacity

\* Mutant: the loop of init() runs once too often.
InitSlabOneTooMany(h, s) ==
  [h EXCEPT ![s] = [free_list  |-> [i \in 1 .. Capacity + 1 |-> Capacity + 2 - i],
                    free_count |-> Capacity]]

\* init() pushes block after block, so the last one heads the list.
InitSlab(h, s) ==
  [h EXCEPT ![s] = [free_list  |-> [i \in Index |-> Capacity + 1 - i],
                    free_count |-> Capacity]]

\* allocate_block() of slab s, whose list is not empty.
AllocateBlock(h, s) ==
  /\ header' = [h EXCEPT ![s] = [free_list  |-> Tail(@.free_list),
                                 free_count |-> @.free_count - 1]]
  /\ out' = out \cup {<<s, Head(h[s].free_list)>>}

\* Mutant: free_count is not incremented.
FreeBlockUncounted(h, b) ==
  [h EXCEPT ![SlabOf(b)].free_list = <<b[2]>> \o @]

FreeBlock(h, b) ==
  [h EXCEPT ![SlabOf(b)] = [free_list  |-> <<b[2]>> \o @.free_list,
                            free_count |-> @.free_count + 1]]

-----------------------------------------------------------------------------
(* Allocation *)

CurrentServes == current_ # NoSlab /\ has_free(header, current_)

\* The first slab of slabs_ with a free block, if any.
Scan ==
  LET hit == {i \in DOMAIN slabs_ : has_free(header, slabs_[i])}
  IN  IF hit = {} THEN NoSlab ELSE slabs_[Min(hit)]

AllocateExisting ==
  LET s == IF CurrentServes THEN current_ ELSE Scan
  IN  /\ alive
      /\ s # NoSlab
      /\ current_' = s
      /\ AllocateBlock(header, s)
      /\ UNCHANGED <<slabs_, capacity_, mapped, alive>>

NothingFree == ~CurrentServes /\ Scan = NoSlab

MustGrow == Len(slabs_) = capacity_

\* Slab::create, slabs_.push_back(current_), current_->allocate_block().
AllocateNewSlab ==
  /\ alive
  /\ NothingFree
  /\ \E s \in Slab \ mapped :
       /\ mapped' = mapped \cup {s}
       /\ current_' = s
       /\ slabs_' = Append(slabs_, s)
       /\ AllocateBlock(InitSlab(header, s), s)
  /\ capacity_' = IF ~MustGrow THEN capacity_
                  ELSE IF capacity_ = 0 THEN 1 ELSE 2 * capacity_
  /\ UNCHANGED alive

\* As above, but NodeLocalAllocator throws when slabs_ has to grow.
PushBackFails ==
  /\ alive
  /\ PushBackMayFail
  /\ NothingFree
  /\ MustGrow
  /\ \E s \in Slab \ mapped :
       /\ mapped' = mapped \cup {s}
       /\ current_' = s
       /\ header' = InitSlab(header, s)
  /\ UNCHANGED <<slabs_, capacity_, out, alive>>

-----------------------------------------------------------------------------
(* Deallocation *)

SwapPop(v, i) == Front([v EXCEPT ![i] = Last(v)])

\* One iteration of the loop of release_extra_empty_slabs_locked(), if i is
\* still below slabs_.size().
SweepStep(h, w) ==
  IF w.i > Len(w.slabs) THEN w
  ELSE LET slab == w.slabs[w.i]
       IN  IF ~is_empty(h, slab) THEN [w EXCEPT !.i = @ + 1]
           ELSE IF w.kept = NoSlab THEN [w EXCEPT !.i = @ + 1, !.kept = slab]
           ELSE [w EXCEPT !.slabs = SwapPop(@, w.i),
                          !.current = IF @ = slab THEN NoSlab ELSE @]

\* What the loop has done after each iteration.  Every one advances i or
\* shortens the vector, so there are as many as slabs.
Sweeps(h) ==
  LET w[n \in 0 .. Len(slabs_)] ==
        IF n = 0
        THEN [slabs |-> slabs_, i |-> 1, kept |-> NoSlab, current |-> current_]
        ELSE SweepStep(h, w[n - 1])
  IN  w

Sweep(h) == Sweeps(h)[Len(slabs_)]

\* Mutant: current_ may stay on a slab the sweep unmapped.
ReleaseExtraKeepsCurrent(h) ==
  LET swept == Sweep(h)
      gone  == ToSet(slabs_) \ ToSet(swept.slabs)
  IN  /\ slabs_' = swept.slabs
      /\ mapped' = mapped \ gone
      /\ header' = [s \in Slab |-> IF s \in gone THEN NoHeader ELSE h[s]]
      /\ UNCHANGED current_

ReleaseExtraEmptySlabsLocked(h) ==
  LET swept == Sweep(h)
      gone  == ToSet(slabs_) \ ToSet(swept.slabs)
      cur   == IF swept.current \in ToSet(swept.slabs)
               THEN swept.current ELSE NoSlab
  IN  /\ slabs_' = swept.slabs
      /\ mapped' = mapped \ gone
      /\ header' = [s \in Slab |-> IF s \in gone THEN NoHeader ELSE h[s]]
      /\ current_' = IF /\ swept.kept # NoSlab
                        /\ cur = NoSlab \/ ~has_free(h, cur)
                     THEN swept.kept ELSE cur

\* The headers after each block of the chain has been freed, in its order.
FreeChain(chain) ==
  LET h[n \in 0 .. Len(chain)] ==
        IF n = 0 THEN header ELSE FreeBlock(h[n - 1], chain[n])
  IN  h

\* Mutant: saw_empty_slab is what the last block of the chain shows.
FreeAndSweepLastOnly(chain) ==
  LET h == FreeChain(chain)[Len(chain)]
  IN  IF is_empty(h, SlabOf(Last(chain)))
      THEN ReleaseExtraEmptySlabsLocked(h)
      ELSE /\ header' = h
           /\ UNCHANGED <<slabs_, current_, mapped>>

\* deallocate_batch(chain); deallocate(b) is the chain <<b>>.
FreeAndSweep(chain) ==
  LET h == FreeChain(chain)
      saw_empty_slab ==
        \E n \in 1 .. Len(chain) : is_empty(h[n], SlabOf(chain[n]))
  IN  IF saw_empty_slab
      THEN ReleaseExtraEmptySlabsLocked(h[Len(chain)])
      ELSE /\ header' = h[Len(chain)]
           /\ UNCHANGED <<slabs_, current_, mapped>>

Chains == UNION {Injection(1 .. n, out) : n \in 1 .. MaxBatch}

Deallocate ==
  /\ alive
  /\ \E chain \in Chains :
       /\ FreeAndSweep(chain)
       /\ out' = out \ ToSet(chain)
  /\ UNCHANGED <<capacity_, alive>>

Destroy ==
  /\ alive
  /\ out = {}
  /\ mapped' = mapped \ ToSet(slabs_)
  /\ slabs_' = <<>>
  /\ capacity_' = 0
  /\ current_' = NoSlab
  /\ header' = [s \in Slab |-> IF s \in mapped' THEN header[s] ELSE NoHeader]
  /\ alive' = FALSE
  /\ UNCHANGED out

Next ==
  \/ AllocateExisting
  \/ AllocateNewSlab
  \/ PushBackFails
  \/ Deallocate
  \/ Destroy

Spec == Init /\ [][Next]_vars

-----------------------------------------------------------------------------

(***************************************************************************)
(* Slab::free_count is the length of the free list it describes, and the   *)
(* list of a mapped slab holds exactly the blocks of that slab which are   *)
(* not handed out, each once: is_empty() and has_free(), which look at the *)
(* counter only, tell the truth about the list allocate_block() pops.      *)
(***************************************************************************)
FreeListsSound ==
  \A s \in mapped :
    LET list == header[s].free_list
    IN  /\ header[s].free_count = Len(list)
        /\ IsInjective(list)
        /\ ToSet(list) = {i \in Index : <<s, i>> \notin out}

(***************************************************************************)
(* What slabs_ lists is mapped, without repetition: no method walks over a *)
(* slab that a swap-and-pop of release_extra_empty_slabs_locked unmapped,  *)
(* and current_ is null or mapped.                                         *)
(***************************************************************************)
NoDanglingSlab ==
  /\ IsInjective(slabs_)
  /\ ToSet(slabs_) \cup {current_} \subseteq mapped \cup {NoSlab}

(***************************************************************************)
(* The abstract class: slabs_ as a set, the free lists as a set of blocks. *)
(***************************************************************************)
AbstractPool ==
  [mapped  |-> mapped,
   slabs   |-> ToSet(slabs_),
   current |-> current_,
   free    |-> {b \in Block : /\ SlabOf(b) \in mapped
                              /\ b[2] \in ToSet(header[SlabOf(b)].free_list)}]

Abstract == INSTANCE SlabPool WITH pool <- AbstractPool

(***************************************************************************)
(* Every method of SizeClass, with its vector order, LIFO lists and sweep, *)
(* does what SlabPool says a class may do.                                 *)
(***************************************************************************)
ImplementsSlabPool == Abstract!Spec

(***************************************************************************)
(* "Owns all slabs for one small-object size class"                        *)
(* (small_object_allocator.hpp:96): when the destructor has run, no slab   *)
(* the class mapped is still mapped.                                       *)
(***************************************************************************)
OwnsAllSlabs == ~alive => mapped = {}

(***************************************************************************)
(* "If the slab becomes fully empty and another empty slab is already      *)
(* kept, removes this slab" (small_object_allocator.hpp:124-125): a single *)
(* deallocate never unmaps a slab other than the one the block came from.  *)
(***************************************************************************)
RemovesThisSlab ==
  [][\A b \in out : alive /\ alive' /\ out' = out \ {b}
       => mapped \ mapped' \subseteq {SlabOf(b)}]_vars
=============================================================================
