----------------------------- MODULE NumaArena -----------------------------
(***************************************************************************)
(* The small-object side of the NumaArenas the ArenaManager owns, one per  *)
(* node, called by several threads.  A call is cut where the code gives up *)
(* a mutex: a class's methods are steps on its Pool (Slabs.tla), a foreign *)
(* bin is pushed to and detached from under the bin's own mutex, and       *)
(* foreign_bytes_ is an atomic read and updated apart from both.  No two   *)
(* mutexes are ever held together, so the end of a step is always the end  *)
(* of a critical section.                                                  *)
(*                                                                         *)
(* foreign_bytes_ is read relaxed: a stale value is the value of an        *)
(* earlier moment, which is the schedule where that step came earlier.     *)
(***************************************************************************)
EXTENDS Slabs

CONSTANTS
  Node,            \* NUMA nodes, one arena each
  Class,           \* size classes
  Thread,          \* threads that call the arenas
  ClassSize,       \* kClassSizes
  MaxCachedBytes,  \* max_cached_bytes_for_class
  ForeignFreelist, \* foreign_freelist_enabled_
  NoKey            \* the header of a block that no caller and no bin holds

Key == Node \X Class  \* an arena and one of its size classes

NodeOf(k) == k[1]
SizeOf(k) == ClassSize[k[2]]

ASSUME NumaArenaAssumption ==
  /\ ClassSize \in [Class -> Nat \ {0}]
  /\ MaxCachedBytes \in [Class -> Nat]
  /\ \A c \in Class : ClassSize[c] <= MaxCachedBytes[c]
  /\ ForeignFreelist \in BOOLEAN
  /\ NoKey \notin Key

High(k) == MaxCachedBytes[k[2]]  \* foreign_high_watermark
Low(k)  == High(k) \div 2        \* foreign_low_watermark

VARIABLES
  pool,         \* pool[k]: the slabs of the SizeClass k
  bin,          \* bin[k]: the blocks of foreign_bins_ for k
  foreignBytes, \* foreignBytes[n]: foreign_bytes_ of the arena of n
  hdr,          \* node_id and size_class in a block's header
  out,          \* blocks the callers have
  pc,           \* where each thread is
  at,           \* the arena and class its call works on
  batch         \* the blocks its call is bringing back

vars == <<pool, bin, foreignBytes, hdr, out, pc, at, batch>>

Pc == {"idle",
       "direct",                       \* allocate_by_class_index(class_index)
       "existing", "drain", "drainSub", \* ... with the drain callback
       "drainFree", "retry", "newSlab",
       "free",                         \* small_.deallocate
       "enqueue", "overflowSub", "overflowFree"}

TypeOK ==
  /\ pool \in [Key -> Pool]
  /\ bin \in [Key -> SUBSET Block]
  /\ foreignBytes \in [Node -> Int]
  /\ hdr \in [Block -> Key \cup {NoKey}]
  /\ out \in SUBSET Block
  /\ pc \in [Thread -> Pc]
  /\ at \in [Thread -> Key \cup {NoKey}]
  /\ \A t \in Thread : at[t] = NoKey <=> pc[t] = "idle"
  /\ batch \in [Thread -> SUBSET Block]

Init ==
  /\ pool = [k \in Key |-> NewPool]
  /\ bin = [k \in Key |-> {}]
  /\ foreignBytes = [n \in Node |-> 0]
  /\ hdr = [b \in Block |-> NoKey]
  /\ out = {}
  /\ pc = [t \in Thread |-> "idle"]
  /\ at = [t \in Thread |-> NoKey]
  /\ batch = [t \in Thread |-> {}]

Mapped == UNION {pool[k].mapped : k \in Key}

GoTo(t, label) == pc' = [pc EXCEPT ![t] = label]

Return(t) ==
  /\ GoTo(t, "idle")
  /\ at' = [at EXCEPT ![t] = NoKey]

-----------------------------------------------------------------------------
(* NumaArena::allocate *)

\* Picks the path with a look at foreign_bytes_.
CallAllocate(t, k) ==
  /\ pc[t] = "idle"
  /\ at' = [at EXCEPT ![t] = k]
  /\ GoTo(t, IF ~ForeignFreelist \/ foreignBytes[NodeOf(k)] = 0
             THEN "direct" ELSE "existing")
  /\ UNCHANGED <<pool, bin, foreignBytes, hdr, out, batch>>

\* A block leaves the class: its header is filled in and the call returns.
HandOut(t, P, b) ==
  /\ pool' = [pool EXCEPT ![at[t]] = Take(P, b)]
  /\ hdr' = [hdr EXCEPT ![b] = at[t]]
  /\ out' = out \cup {b}
  /\ Return(t)
  /\ UNCHANGED <<bin, foreignBytes, batch>>

\* allocate(), allocate_existing() or allocate_new_slab() finds a block.
TakeExisting(t) ==
  /\ pc[t] \in {"direct", "existing", "retry", "newSlab"}
  /\ \E b \in Available(pool[at[t]]) : HandOut(t, pool[at[t]], b)

\* Mutant: the bin is never drained.
MissUndrained(t) ==
  /\ pc[t] \in {"existing", "retry"}
  /\ Available(pool[at[t]]) = {}
  /\ GoTo(t, "newSlab")
  /\ UNCHANGED <<pool, bin, foreignBytes, hdr, out, at, batch>>

\* allocate_existing() returns nullptr.
Miss(t) ==
  /\ pc[t] \in {"existing", "retry"}
  /\ Available(pool[at[t]]) = {}
  /\ GoTo(t, IF pc[t] = "existing" THEN "drain" ELSE "newSlab")
  /\ UNCHANGED <<pool, bin, foreignBytes, hdr, out, at, batch>>

\* Mutant: allocate_new_slab() does not look at the slabs again.
MustGrowUnchecked(t) == pc[t] \in {"direct", "newSlab"}

MustGrow(t) ==
  /\ pc[t] \in {"direct", "newSlab"}
  /\ Available(pool[at[t]]) = {}

\* allocate() or allocate_new_slab() maps a slab.
Grow(t) ==
  /\ MustGrow(t)
  /\ \E s \in Slab \ Mapped : \E b \in BlocksOf(s) :
       HandOut(t, AddSlab(pool[at[t]], s), b)

\* mmap or mbind fails: std::bad_alloc before anything changed.
MapFails(t) ==
  /\ MustGrow(t)
  /\ Return(t)
  /\ UNCHANGED <<pool, bin, foreignBytes, hdr, out, batch>>

\* slabs_.push_back throws with the slab already in current_.
PushBackFails(t) ==
  /\ MustGrow(t)
  /\ \E s \in Slab \ Mapped :
       pool' = [pool EXCEPT ![at[t]] = MapSlab(@, s)]
  /\ Return(t)
  /\ UNCHANGED <<bin, foreignBytes, hdr, out, batch>>

-----------------------------------------------------------------------------
(* The drain callback, and the batches of drain_foreign_bin and            *)
(* enqueue_foreign_small.                                                  *)

\* Mutant: the slow path drains until it finds a block.
DrainAgain(t) ==
  /\ pc[t] = "drain"
  /\ batch' = [batch EXCEPT ![t] = bin[at[t]]]
  /\ bin' = [bin EXCEPT ![at[t]] = {}]
  /\ GoTo(t, IF bin[at[t]] = {} THEN "existing" ELSE "drainSub")
  /\ UNCHANGED <<pool, foreignBytes, hdr, out, at>>

\* Mutant: detach_all_foreign_locked leaves the list in the bin.
DrainUndetached(t) ==
  /\ pc[t] = "drain"
  /\ batch' = [batch EXCEPT ![t] = bin[at[t]]]
  /\ GoTo(t, IF bin[at[t]] = {} THEN "retry" ELSE "drainSub")
  /\ UNCHANGED <<pool, bin, foreignBytes, hdr, out, at>>

\* drain_foreign_bin detaches the bin; an empty batch changes nothing more.
Drain(t) ==
  /\ pc[t] = "drain"
  /\ batch' = [batch EXCEPT ![t] = bin[at[t]]]
  /\ bin' = [bin EXCEPT ![at[t]] = {}]
  /\ GoTo(t, IF bin[at[t]] = {} THEN "retry" ELSE "drainSub")
  /\ UNCHANGED <<pool, foreignBytes, hdr, out, at>>

\* Mutant: the batch is counted as one block.
SubForeignOnce(t) ==
  /\ pc[t] \in {"drainSub", "overflowSub"}
  /\ foreignBytes' = [foreignBytes EXCEPT ![NodeOf(at[t])] = @ - SizeOf(at[t])]
  /\ GoTo(t, IF pc[t] = "drainSub" THEN "drainFree" ELSE "overflowFree")
  /\ UNCHANGED <<pool, bin, hdr, out, at, batch>>

\* foreign_bytes_.fetch_sub(batch.bytes), after the bin's mutex.
SubForeign(t) ==
  /\ pc[t] \in {"drainSub", "overflowSub"}
  /\ foreignBytes' = [foreignBytes EXCEPT ![NodeOf(at[t])] =
                        @ - Cardinality(batch[t]) * SizeOf(at[t])]
  /\ GoTo(t, IF pc[t] = "drainSub" THEN "drainFree" ELSE "overflowFree")
  /\ UNCHANGED <<pool, bin, hdr, out, at, batch>>

\* SizeClass::deallocate_batch, or deallocate of one block.
FreeBatch(t) ==
  /\ pool' \in {[pool EXCEPT ![at[t]] = P] :
                  P \in DeallocateBatch(pool[at[t]], batch[t])}
  /\ hdr' = [b \in Block |-> IF b \in batch[t] THEN NoKey ELSE hdr[b]]
  /\ batch' = [batch EXCEPT ![t] = {}]
  /\ UNCHANGED <<bin, foreignBytes, out>>

FreeDrained(t) ==
  /\ pc[t] = "drainFree"
  /\ FreeBatch(t)
  /\ GoTo(t, "retry")
  /\ UNCHANGED at

Free(t) ==
  /\ pc[t] \in {"free", "overflowFree"}
  /\ FreeBatch(t)
  /\ Return(t)

-----------------------------------------------------------------------------
(* NumaArena::deallocate on the arena of node n *)

\* Mutant: a foreign block is freed in the arena deallocate() was called on.
CallDeallocateHere(t, n, b) ==
  /\ pc[t] = "idle"
  /\ out' = out \ {b}
  /\ batch' = [batch EXCEPT ![t] = {b}]
  /\ at' = [at EXCEPT ![t] = <<n, hdr[b][2]>>]
  /\ GoTo(t, "free")
  /\ UNCHANGED <<pool, bin, foreignBytes, hdr>>

\* Reads the header to route the block to its owner.
CallDeallocate(t, n, b) ==
  /\ pc[t] = "idle"
  /\ out' = out \ {b}
  /\ batch' = [batch EXCEPT ![t] = {b}]
  /\ at' = [at EXCEPT ![t] = hdr[b]]
  /\ GoTo(t, IF NodeOf(hdr[b]) # n /\ ForeignFreelist
             THEN "enqueue" ELSE "free")
  /\ UNCHANGED <<pool, bin, foreignBytes, hdr>>

\* Mutant: the loop runs while the bin is below the low watermark.
OverflowBatchesReversed(k, B) == {{}}

\* The batches detach_foreign_until_low_locked may leave with: as few
\* blocks as bring the bin to the low watermark.
OverflowBatches(k, B) ==
  {D \in SUBSET B :
     /\ (Cardinality(B) - Cardinality(D)) * SizeOf(k) <= Low(k)
     /\ (Cardinality(B) - Cardinality(D) + 1) * SizeOf(k) > Low(k)}

\* The push, under the bin's mutex; foreign_bytes_.fetch_add is inside.
Enqueue(t) ==
  LET k == at[t]
      B == bin[k] \cup batch[t]
  IN  /\ pc[t] = "enqueue"
      /\ foreignBytes' = [foreignBytes EXCEPT ![NodeOf(k)] = @ + SizeOf(k)]
      /\ IF Cardinality(B) * SizeOf(k) > High(k)
         THEN /\ \E D \in OverflowBatches(k, B) :
                   /\ bin' = [bin EXCEPT ![k] = B \ D]
                   /\ batch' = [batch EXCEPT ![t] = D]
              /\ GoTo(t, "overflowSub")
              /\ UNCHANGED at
         ELSE /\ bin' = [bin EXCEPT ![k] = B]
              /\ batch' = [batch EXCEPT ![t] = {}]
              /\ Return(t)
      /\ UNCHANGED <<pool, hdr, out>>

-----------------------------------------------------------------------------

\* What a thread inside a call does next.
Step(t) ==
  \/ TakeExisting(t)
  \/ Miss(t)
  \/ Grow(t)
  \/ MapFails(t)
  \/ PushBackFails(t)
  \/ Drain(t)
  \/ SubForeign(t)
  \/ FreeDrained(t)
  \/ Free(t)
  \/ Enqueue(t)

Next ==
  \E t \in Thread :
    \/ \E k \in Key : CallAllocate(t, k)
    \/ \E n \in Node, b \in out : CallDeallocate(t, n, b)
    \/ Step(t)

Spec == Init /\ [][Next]_vars

\* A thread inside a call is scheduled; nobody has to make a call.
Fairness == \A t \in Thread : WF_vars(Step(t))

FairSpec == Spec /\ Fairness

-----------------------------------------------------------------------------

\* Blocks some caller, bin or call has.
Held ==
  out \cup (UNION {bin[k] : k \in Key}) \cup (UNION {batch[t] : t \in Thread})

\* Those cut from the slabs of k.
OutOf(k) == {b \in Held : SlabOf(b) \in pool[k].mapped}

(***************************************************************************)
(* Every block of a mapped slab is on that slab's free list or held, never *)
(* both, and two classes never share a slab, whatever order allocations,   *)
(* foreign frees, drains and overflows of NumaArena interleave in: no      *)
(* block is given twice, none is lost, and no slab is unmapped under a     *)
(* block that is held.                                                     *)
(***************************************************************************)
BlocksConserved ==
  /\ \A k, j \in Key : k # j => pool[k].mapped \cap pool[j].mapped = {}
  /\ \A k \in Key : pool[k].free \cap Held = {}
  /\ \A k \in Key : pool[k].mapped \X Index = pool[k].free \cup OutOf(k)

(***************************************************************************)
(* A held block is in one place only: with a caller, in a foreign bin or   *)
(* in the batch of one call.  The intrusive links of bins and batches run  *)
(* through the user memory of the blocks, so a block in two of them would  *)
(* tie two lists together.                                                 *)
(***************************************************************************)
HeldOnce ==
  /\ \A k \in Key : bin[k] \cap out = {}
  /\ \A t \in Thread : batch[t] \cap out = {}
  /\ \A t \in Thread, k \in Key : batch[t] \cap bin[k] = {}
  /\ \A t, u \in Thread : t # u => batch[t] \cap batch[u] = {}

(***************************************************************************)
(* The header of a held block names the arena and the class whose slab it  *)
(* was cut from, and a block in a bin or on its way back is where its      *)
(* header says: NumaArena::deallocate routes by the header alone.          *)
(***************************************************************************)
RoutesHome ==
  /\ \A b \in Held : hdr[b] \in Key /\ SlabOf(b) \in pool[hdr[b]].mapped
  /\ \A k \in Key : \A b \in bin[k] : hdr[b] = k
  /\ \A t \in Thread : \A b \in batch[t] : hdr[b] = at[t]

(***************************************************************************)
(* Every class keeps at most one entirely free slab, also when a batch     *)
(* drained by one thread and frees by others empty slabs together: idle    *)
(* memory does not pile up in release_extra_empty_slabs_locked.            *)
(***************************************************************************)
AtMostOneEmptySlab == \A k \in Key : AtMostOneEmpty(pool[k])

\* The bytes of the blocks B, which belong to class k: a block and a place in it.
Bytes(k, B) == B \X (1 .. SizeOf(k))

\* Those of the blocks that foreign_bytes_ of the arena of n stands for.
BinBytes(n) == UNION {Bytes(k, bin[k]) : k \in {k \in Key : NodeOf(k) = n}}

Subtracting(n) ==
  {t \in Thread : pc[t] \in {"drainSub", "overflowSub"} /\ NodeOf(at[t]) = n}

BatchBytes(n) == UNION {Bytes(at[t], batch[t]) : t \in Subtracting(n)}

(***************************************************************************)
(* foreign_bytes_ is the bytes in the arena's bins and those of the        *)
(* batches detached from them whose fetch_sub has not run yet: it never    *)
(* goes below zero, and it is zero only when no block waits in a bin, on   *)
(* which allocate() relies to skip the drain.                              *)
(***************************************************************************)
ForeignBytesAccounted ==
  \A n \in Node : foreignBytes[n] = Cardinality(BinBytes(n) \cup BatchBytes(n))

(***************************************************************************)
(* A foreign bin at rest never holds more than its high watermark: the     *)
(* free that goes over it takes the bin down before it gives up the mutex. *)
(***************************************************************************)
BinsBounded ==
  \A k \in Key : Cardinality(bin[k]) * SizeOf(k) <= High(k)

(***************************************************************************)
(* A call of allocate() or deallocate() returns: the drain, the overflow   *)
(* and the second look at the slabs are no cycle in which frees and        *)
(* allocations of other threads could keep a thread for ever.              *)
(***************************************************************************)
CallsReturn == \A t \in Thread : pc[t] # "idle" ~> pc[t] = "idle"

-----------------------------------------------------------------------------

(***************************************************************************)
(* One class of one arena, as its callers see it: a block that waits in a  *)
(* bin or in a batch has not come back yet.                                *)
(***************************************************************************)
ClassOf(k) ==
  INSTANCE SlabPool WITH
    pool <- pool[k],
    out <- OutOf(k),
    alive <- TRUE

(***************************************************************************)
(* Each SizeClass of each arena, shared by the threads through bins,       *)
(* batches and drains, is used the way SlabPool prescribes.                *)
(***************************************************************************)
ImplementsSlabPools ==
  /\ \A k \in Key : ClassOf(k)!Init
  /\ [][\A k \in Key : [ClassOf(k)!Next]_(ClassOf(k)!vars)]_vars
=============================================================================
