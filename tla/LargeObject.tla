----------------------------- MODULE LargeObject -----------------------------
(***************************************************************************)
(* The LargeObjectAllocators of the arenas, one per node, called by        *)
(* several threads: each maps spans for large blocks and keeps some of the *)
(* freed ones in bins, one bin for each configured size.  cache_mutex_ is  *)
(* held while the bins are searched or added to; mmap and munmap are       *)
(* called outside it, so an operation that goes to the system is two       *)
(* steps.  Sizes are in pages and a request includes header and alignment. *)
(*                                                                         *)
(* A bin is a set: the code takes the span that came last, here any.       *)
(***************************************************************************)
EXTENDS Integers, FiniteSets

CONSTANTS
  Span,           \* addresses at which mmap can place a span
  Node,           \* NUMA nodes
  NoNode,         \* no node
  Thread,         \* threads that call the allocators
  Request,        \* sizes that callers ask for
  NumLargeBins,   \* kNumLargeBins
  LargeBinSizes,  \* kLargeBinSizes
  MaxSpansPerLargeBin, \* kMaxSpansPerLargeBin
  LargeBinSearchLimit, \* kLargeBinSearchLimit
  MaxCachedSpans, \* max_cached_spans_
  MaxCachedBytes  \* max_cached_bytes_

Bin == 1 .. NumLargeBins

ASSUME LargeObjectAssumption ==
  /\ NoNode \notin Node
  /\ Request \subseteq Nat \ {0}
  /\ NumLargeBins \in Nat \ {0}
  /\ LargeBinSizes \in [Bin -> Nat \ {0}]
  /\ \A i, j \in Bin : i < j => LargeBinSizes[i] < LargeBinSizes[j]
  /\ {MaxSpansPerLargeBin, LargeBinSearchLimit, MaxCachedSpans, MaxCachedBytes}
       \subseteq Nat

VARIABLES
  mapped,      \* spans mmap gave and munmap did not take back
  total,       \* the length of a mapped span
  bound,       \* the node its memory is bound to
  live,        \* spans under a block that a caller has
  need,        \* the size asked for the block
  header,      \* node_id in its header
  bins,        \* bins[n][i]: the cached spans of size i in the allocator of n
  cachedSpans, \* cached_spans_
  cachedBytes, \* cached_bytes_
  alive,       \* FALSE once the allocator is destroyed
  pc,          \* where each thread is
  at,          \* the node of the allocator it has called
  want,        \* the size it is about to map a span for
  span         \* the spans it is about to unmap: none or one

blocks == <<live, need, header>>
caches == <<bins, cachedSpans, cachedBytes>>
calls  == <<pc, at, want, span>>
vars   == <<mapped, total, bound, blocks, caches, alive, calls>>

TypeOK ==
  /\ mapped \in SUBSET Span
  /\ total \in [Span -> Nat]
  /\ bound \in [Span -> Node \cup {NoNode}]
  /\ live \in SUBSET Span
  /\ need \in [Span -> Nat]
  /\ header \in [Span -> Node \cup {NoNode}]
  /\ bins \in [Node -> [Bin -> SUBSET Span]]
  /\ cachedSpans \in [Node -> Int]
  /\ cachedBytes \in [Node -> Int]
  /\ alive \in [Node -> BOOLEAN]
  /\ pc \in [Thread -> {"idle", "map", "unmap"}]
  /\ at \in [Thread -> Node \cup {NoNode}]
  /\ \A t \in Thread : at[t] = NoNode <=> pc[t] = "idle"
  /\ want \in [Thread -> Nat]
  /\ span \in [Thread -> SUBSET Span]

Init ==
  /\ mapped = {}
  /\ total = [s \in Span |-> 0]
  /\ bound = [s \in Span |-> NoNode]
  /\ live = {}
  /\ need = [s \in Span |-> 0]
  /\ header = [s \in Span |-> NoNode]
  /\ bins = [n \in Node |-> [i \in Bin |-> {}]]
  /\ cachedSpans = [n \in Node |-> 0]
  /\ cachedBytes = [n \in Node |-> 0]
  /\ alive = [n \in Node |-> TRUE]
  /\ pc = [t \in Thread |-> "idle"]
  /\ at = [t \in Thread |-> NoNode]
  /\ want = [t \in Thread |-> 0]
  /\ span = [t \in Thread |-> {}]

CachedIn(n) == UNION {bins[n][i] : i \in Bin}

First(I) == {i \in I : \A j \in I : i <= j}

-----------------------------------------------------------------------------
(* LargeObjectConfig *)

\* Mutant: a class serves one page more than it has.
ClassSizesOneTooSmall(r) ==
  LET fits == {i \in Bin : r <= LargeBinSizes[i] + 1}
  IN  IF fits = {} THEN {r} ELSE {LargeBinSizes[i] : i \in First(fits)}

\* class_size_for: the only element is the smallest class that fits, or the
\* size itself if none does.
ClassSizes(r) ==
  LET fits == {i \in Bin : r <= LargeBinSizes[i]}
  IN  IF fits = {} THEN {r} ELSE {LargeBinSizes[i] : i \in First(fits)}

\* bin_index_for: no element stands for npos.
BinsFor(size) == {i \in Bin : LargeBinSizes[i] = size}

\* The bins acquire_span looks into for a size.
Searched(size) ==
  {i \in Bin : \E b \in BinsFor(size) : i \in b .. (b + LargeBinSearchLimit)}

-----------------------------------------------------------------------------
(* allocate *)

\* allocate_from_span: a block of size r of the allocator of n in span s.
Place(s, n, r) ==
  /\ live' = live \cup {s}
  /\ need' = [need EXCEPT ![s] = r]
  /\ header' = [header EXCEPT ![s] = n]

\* Mutant: the span stays in its bin.
TakeCachedUnpopped(t, n, r) ==
  /\ pc[t] = "idle"
  /\ alive[n]
  /\ \E size \in ClassSizes(r) :
     \E i \in First({j \in Searched(size) : bins[n][j] # {}}) :
     \E s \in bins[n][i] : Place(s, n, r)
  /\ UNCHANGED <<mapped, total, bound, caches, alive, calls>>

\* Mutant: the size of the request is taken from the counter.
TakeCachedMiscounted(t, n, r) ==
  /\ pc[t] = "idle"
  /\ alive[n]
  /\ \E size \in ClassSizes(r) :
     \E i \in First({j \in Searched(size) : bins[n][j] # {}}) :
     \E s \in bins[n][i] :
       /\ bins' = [bins EXCEPT ![n][i] = @ \ {s}]
       /\ cachedSpans' = [cachedSpans EXCEPT ![n] = @ - 1]
       /\ cachedBytes' = [cachedBytes EXCEPT ![n] = @ - size]
       /\ Place(s, n, r)
  /\ UNCHANGED <<mapped, total, bound, alive, calls>>

\* acquire_span finds a cached span.
TakeCached(t, n, r) ==
  /\ pc[t] = "idle"
  /\ alive[n]
  /\ \E size \in ClassSizes(r) :
     \E i \in First({j \in Searched(size) : bins[n][j] # {}}) :
     \E s \in bins[n][i] :
       /\ bins' = [bins EXCEPT ![n][i] = @ \ {s}]
       /\ cachedSpans' = [cachedSpans EXCEPT ![n] = @ - 1]
       /\ cachedBytes' = [cachedBytes EXCEPT ![n] = @ - total[s]]
       /\ Place(s, n, r)
  /\ UNCHANGED <<mapped, total, bound, alive, calls>>

\* It finds none.
Miss(t, n, r) ==
  /\ pc[t] = "idle"
  /\ alive[n]
  /\ \A size \in ClassSizes(r) : \A i \in Searched(size) : bins[n][i] = {}
  /\ pc' = [pc EXCEPT ![t] = "map"]
  /\ at' = [at EXCEPT ![t] = n]
  /\ want' = [want EXCEPT ![t] = r]
  /\ UNCHANGED <<mapped, total, bound, blocks, caches, alive, span>>

\* Mutant: the call is not left.
ReturnEntered(t) ==
  /\ pc' = [pc EXCEPT ![t] = "idle"]
  /\ UNCHANGED at

Return(t) ==
  /\ pc' = [pc EXCEPT ![t] = "idle"]
  /\ at' = [at EXCEPT ![t] = NoNode]

\* alloc_on_node, outside the mutex.
Map(t) ==
  /\ pc[t] = "map"
  /\ \E size \in ClassSizes(want[t]), s \in Span \ mapped :
       /\ mapped' = mapped \cup {s}
       /\ total' = [total EXCEPT ![s] = size]
       /\ bound' = [bound EXCEPT ![s] = at[t]]
       /\ Place(s, at[t], want[t])
  /\ want' = [want EXCEPT ![t] = 0]
  /\ Return(t)
  /\ UNCHANGED <<caches, alive, span>>

MapFails(t) ==
  /\ pc[t] = "map"
  /\ want' = [want EXCEPT ![t] = 0]
  /\ Return(t)
  /\ UNCHANGED <<mapped, total, bound, blocks, caches, alive, span>>

-----------------------------------------------------------------------------
(* deallocate *)

\* Bin i of n takes span s.
Cacheable(n, i, s) ==
  /\ i \in BinsFor(total[s])
  /\ Cardinality(bins[n][i]) < MaxSpansPerLargeBin
  /\ cachedSpans[n] < MaxCachedSpans
  /\ cachedBytes[n] + total[s] <= MaxCachedBytes

Forget(s) ==
  /\ live' = live \ {s}
  /\ need' = [need EXCEPT ![s] = 0]
  /\ header' = [header EXCEPT ![s] = NoNode]

\* Mutant: the span enters the cache of whichever arena was called.
ReleaseToCacheAnywhere(t, s) ==
  /\ pc[t] = "idle"
  /\ \E n \in Node, i \in Bin :
       /\ Cacheable(n, i, s)
       /\ bins' = [bins EXCEPT ![n][i] = @ \cup {s}]
       /\ cachedSpans' = [cachedSpans EXCEPT ![n] = @ + 1]
       /\ cachedBytes' = [cachedBytes EXCEPT ![n] = @ + total[s]]
  /\ Forget(s)
  /\ UNCHANGED <<mapped, total, bound, alive, calls>>

\* The arena the header names is the one that takes the block back.
ReleaseToCache(t, s) ==
  /\ pc[t] = "idle"
  /\ \E i \in Bin :
       LET n == header[s]
       IN  /\ Cacheable(n, i, s)
           /\ bins' = [bins EXCEPT ![n][i] = @ \cup {s}]
           /\ cachedSpans' = [cachedSpans EXCEPT ![n] = @ + 1]
           /\ cachedBytes' = [cachedBytes EXCEPT ![n] = @ + total[s]]
  /\ Forget(s)
  /\ UNCHANGED <<mapped, total, bound, alive, calls>>

\* release_to_cache refuses the span.
Refuse(t, s) ==
  /\ pc[t] = "idle"
  /\ \A i \in Bin : ~Cacheable(header[s], i, s)
  /\ pc' = [pc EXCEPT ![t] = "unmap"]
  /\ at' = [at EXCEPT ![t] = header[s]]
  /\ span' = [span EXCEPT ![t] = {s}]
  /\ Forget(s)
  /\ UNCHANGED <<mapped, total, bound, caches, alive, want>>

\* munmap of the spans in S.
Release(S) ==
  /\ mapped' = mapped \ S
  /\ total' = [s \in Span |-> IF s \in S THEN 0 ELSE total[s]]
  /\ bound' = [s \in Span |-> IF s \in S THEN NoNode ELSE bound[s]]

\* VirtualMemory::release, outside the mutex.
Unmap(t) ==
  /\ pc[t] = "unmap"
  /\ Release(span[t])
  /\ span' = [span EXCEPT ![t] = {}]
  /\ Return(t)
  /\ UNCHANGED <<blocks, caches, alive, want>>

-----------------------------------------------------------------------------

\* ~LargeObjectAllocator, when no call is in it and no block of it in use.
Quiet(n) ==
  /\ alive[n]
  /\ \A t \in Thread : at[t] # n
  /\ \A s \in live : header[s] # n

\* Mutant: only the spans of the first bin are unmapped.
DestroyFirstBin(n) ==
  /\ Quiet(n)
  /\ Release(bins[n][1])
  /\ bins' = [bins EXCEPT ![n] = [i \in Bin |-> {}]]
  /\ cachedSpans' = [cachedSpans EXCEPT ![n] = 0]
  /\ cachedBytes' = [cachedBytes EXCEPT ![n] = 0]
  /\ alive' = [alive EXCEPT ![n] = FALSE]
  /\ UNCHANGED <<blocks, calls>>

Destroy(n) ==
  /\ Quiet(n)
  /\ Release(CachedIn(n))
  /\ bins' = [bins EXCEPT ![n] = [i \in Bin |-> {}]]
  /\ cachedSpans' = [cachedSpans EXCEPT ![n] = 0]
  /\ cachedBytes' = [cachedBytes EXCEPT ![n] = 0]
  /\ alive' = [alive EXCEPT ![n] = FALSE]
  /\ UNCHANGED <<blocks, calls>>

Next ==
  \/ \E t \in Thread :
       \/ \E n \in Node, r \in Request : TakeCached(t, n, r) \/ Miss(t, n, r)
       \/ Map(t)
       \/ MapFails(t)
       \/ \E s \in live : ReleaseToCache(t, s) \/ Refuse(t, s)
       \/ Unmap(t)
  \/ \E n \in Node : Destroy(n)

Spec == Init /\ [][Next]_vars

-----------------------------------------------------------------------------

(***************************************************************************)
(* A mapped span is under one block, in one bin of one allocator or with   *)
(* one thread that unmaps it, and those are all the spans there are: a     *)
(* span is never under two blocks, in a bin while a block uses it, or      *)
(* unmapped while somebody else can reach it, and none is lost.            *)
(***************************************************************************)
SpansConserved ==
  /\ mapped = live \cup (UNION {CachedIn(n) : n \in Node})
                   \cup (UNION {span[t] : t \in Thread})
  /\ \A n \in Node : CachedIn(n) \cap live = {}
  /\ \A t \in Thread : span[t] \cap live = {}
  /\ \A t \in Thread, n \in Node : span[t] \cap CachedIn(n) = {}
  /\ \A n, m \in Node, i, j \in Bin :
       <<n, i>> # <<m, j>> => bins[n][i] \cap bins[m][j] = {}
  /\ \A t, u \in Thread : t # u => span[t] \cap span[u] = {}

(***************************************************************************)
(* A span that was bound to a node is cached and handed out by the         *)
(* allocator of that node only, and lies in the bin of its own length,     *)
(* also after it served a smaller request out of a larger bin and          *)
(* whichever thread and arena freed it.                                    *)
(***************************************************************************)
SpansAtHome ==
  /\ \A n \in Node, i \in Bin : \A s \in bins[n][i] :
       bound[s] = n /\ total[s] = LargeBinSizes[i]
  /\ \A s \in live : bound[s] = header[s]

(***************************************************************************)
(* allocate_from_span finds a span that covers the request, and no longer  *)
(* than LargeBinSearchLimit classes over its own.                          *)
(***************************************************************************)
SpanCoversRequest ==
  \A s \in live :
    /\ need[s] <= total[s]
    /\ \E size \in ClassSizes(need[s]) :
         total[s] = size \/ \E i \in Searched(size) : total[s] = LargeBinSizes[i]

(***************************************************************************)
(* ~LargeObjectAllocator leaves nothing behind: no span that any of its    *)
(* calls mapped, cached or refused is mapped when it is gone.              *)
(***************************************************************************)
NothingLeftMapped ==
  \A n \in Node : ~alive[n] => \A s \in mapped : bound[s] # n

\* The pages of the spans in S, of length len: a span and a place in it.
Pages(S, len) == UNION {{s} \X (1 .. len[s]) : s \in S}

(***************************************************************************)
(* cached_spans_ and cached_bytes_, which release_to_cache compares with   *)
(* its limits, count what is in the bins, and the limits hold: however     *)
(* acquire_span and release_to_cache interleave with each other and with   *)
(* mmap and munmap, the counters part neither from the bins nor from the   *)
(* limits.                                                                 *)
(***************************************************************************)
CountersExact ==
  \A n \in Node :
    /\ cachedSpans[n] = Cardinality(CachedIn(n))
    /\ cachedBytes[n] = Cardinality(Pages(CachedIn(n), total))
    /\ cachedSpans[n] <= MaxCachedSpans
    /\ cachedBytes[n] <= MaxCachedBytes
    /\ \A i \in Bin : Cardinality(bins[n][i]) <= MaxSpansPerLargeBin
=============================================================================
