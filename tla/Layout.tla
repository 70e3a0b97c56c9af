------------------------------- MODULE Layout -------------------------------
(***************************************************************************)
(* Where blocks lie in memory, in size_t arithmetic: the class table and   *)
(* the slabs of small blocks, the spans of large ones and the mappings of  *)
(* numa_simple_memory_resource.  A request of kind "arena" is served by    *)
(* NumaArena::allocate, one of kind "simple" by                            *)
(* numa_simple_memory_resource::do_allocate.  A call is one step; a call   *)
(* that throws at its overflow check changes nothing and is left out.      *)
(* Which cached span or slab serves a call is the matter of LargeObject    *)
(* and SizeClass; here any that is long enough may.                        *)
(***************************************************************************)
EXTENDS Integers, FiniteSets

CONSTANTS
  Word,         \* 2^w: size_t and addresses are below it
  Page,         \* page_size()
  MinAlign,     \* alignof(void*), also sizeof(void*)
  MaxAlign,     \* ALIGNMENT
  BlockHeader,  \* sizeof(BlockHeader)
  SlabHeader,   \* sizeof(SlabHeader)
  AllocationHeader, \* sizeof(AllocationHeader) of the simple resource
  SlabSize,     \* SLAB_SIZE
  Thresholds,   \* SizeClassConfig::thresholds
  Alignments,   \* SizeClassConfig::alignments
  LargeBinSizes, \* kLargeBinSizes, as a set
  Base,         \* addresses at which mmap may place a mapping
  Request,      \* what callers ask for
  Edge,         \* the blocks used of a slab: so many from each end
  MaxLive,      \* most blocks in use
  MaxCached     \* most cached spans

Size == 0 .. Word - 1

Threshold == Thresholds[3]

ASSUME LayoutAssumption ==
  /\ {Word, Page, MinAlign, MaxAlign, SlabSize} \subseteq Nat \ {0}
  /\ {BlockHeader, SlabHeader, AllocationHeader, Edge, MaxLive, MaxCached}
       \subseteq Nat
  /\ Word % Page = 0
  /\ SlabSize % Page = 0
  /\ MinAlign <= MaxAlign
  /\ SlabHeader + MaxAlign <= SlabSize
  /\ BlockHeader + MaxAlign + SlabSize < Word - Page
  /\ LargeBinSizes \subseteq 1 .. Word - Page /\ LargeBinSizes # {}
  /\ Base \subseteq Size
  /\ Request \subseteq
       [kind : {"arena", "simple"}, size : Size, alignment : 1 .. Word - 1]

ASSUME TableAssumption ==
  /\ Thresholds \in [1..3 -> Nat \ {0, 1}]
  /\ Alignments \in [1..3 -> Nat \ {0}]
  /\ \A i \in 1..3 :
       /\ Thresholds[i] + Alignments[i] < SlabSize
       /\ Thresholds[i] % Alignments[i] = 0
  /\ \A i \in 1..2 :
       /\ Thresholds[i] < Thresholds[i + 1]
       /\ Thresholds[i] % Alignments[i + 1] = 0

\* Alignments are powers of two; page and header sizes are multiples of them.
ASSUME AlignmentAssumption ==
  /\ MaxAlign % MinAlign = 0
  /\ Page % MaxAlign = 0
  /\ BlockHeader % MaxAlign = 0
  /\ AllocationHeader % MinAlign = 0
  /\ \A x \in Base : x % Page = 0
  /\ \A r \in Request : \A d \in {MinAlign, MaxAlign} :
       r.alignment % d = 0 \/ d % r.alignment = 0

VARIABLES
  mapped, \* the mappings there are: address and length
  cached, \* spans in the cache of LargeObjectAllocator
  slabs,  \* slabs, with the class they serve
  live,   \* blocks that callers have, with what their headers say
  wrapped \* a call has met a page rounding that wrapped (history)

vars == <<mapped, cached, slabs, live, wrapped>>

Kind == {"small", "large", "simple"}

TypeOK ==
  /\ mapped \subseteq [raw : Size, len : Size]
  /\ cached \subseteq [raw : Size, len : LargeBinSizes]
  /\ slabs \subseteq [raw : Size, size_class : Size]
  /\ live \subseteq [kind : Kind, at : Size, size : Size, alignment : Size,
                     raw_ptr : Size, total_size : Size, size_class : Size]
  /\ wrapped \in BOOLEAN

Init ==
  /\ mapped = {}
  /\ cached = {}
  /\ slabs = {}
  /\ live = {}
  /\ wrapped = FALSE

-----------------------------------------------------------------------------
(* Arithmetic and VirtualMemory *)

AlignUp(x, a) ==
  IF a = 0 THEN x ELSE (((x + a - 1) % Word) \div a) * a

AtLeast(x, low) == IF x < low THEN low ELSE x

\* Mappings that reserve(size) may make: mmap finds room or throws.
Mappings(size) ==
  LET len == AlignUp(IF size = 0 THEN Page ELSE size, Page)
  IN  {m \in [raw : Base, len : {len} \ {0}] :
         /\ m.raw + len < Word
         /\ \A n \in mapped : m.raw + len <= n.raw \/ n.raw + n.len <= m.raw}

\* VirtualMemory::release: what munmap of the rounded size leaves of M.
Released(M, raw, size) ==
  LET len == IF size = 0 THEN 0 ELSE AlignUp(size, Page)
  IN  {m \in M : m.raw # raw} \cup
      {[raw |-> raw + len, len |-> m.len - len] :
         m \in {k \in M : k.raw = raw /\ len < k.len}}

-----------------------------------------------------------------------------
(* SizeClassTable and Slab *)

\* The first bound that covers size, the last if none does.
BoundOf(size) ==
  CHOOSE i \in 1..3 :
    /\ size <= Thresholds[i] \/ i = 3
    /\ \A j \in 1 .. i - 1 : size > Thresholds[j]

class_size(size) == AlignUp(size, Alignments[BoundOf(size)])

ClassSizes == {class_size(s) : s \in 1 .. Threshold}

kNumSizeClasses == Cardinality(ClassSizes)

\* In ascending order, from index 0.
kClassSizes ==
  [i \in 0 .. kNumSizeClasses - 1 |->
     CHOOSE c \in ClassSizes : Cardinality({d \in ClassSizes : d < c}) = i]

\* The sizes that bound i covers lie above this.
Below(i) == IF i = 1 THEN 0 ELSE Thresholds[i - 1]

\* first_count, second_count: the classes of bound i.
ClassCount(i) == (Thresholds[i] - Below(i)) \div Alignments[i]

\* Mutant: second_count is forgotten.
ClassIndexShort(size) ==
  LET s == AtLeast(size, 1)
      i == BoundOf(s)
  IN  (IF i = 1 THEN 0 ELSE ClassCount(1))
        + (AlignUp(s, Alignments[i]) - Below(i)) \div Alignments[i] - 1

class_index_for_size(size) ==
  LET s == AtLeast(size, 1)
      i == BoundOf(s)
  IN  (IF i = 1 THEN 0 ELSE ClassCount(1)) + (IF i = 3 THEN ClassCount(2) ELSE 0)
        + (AlignUp(s, Alignments[i]) - Below(i)) \div Alignments[i] - 1

max_cached_bytes_for_class(c) == (Thresholds[BoundOf(c)] \div 2) * 1024

\* total_block_size of a slab for class size c.
Stride(c) == AlignUp(BlockHeader + AtLeast(c, MinAlign), MaxAlign)

\* Mutant: the first block follows the header directly.
FirstBlockUnaligned(raw) == raw + SlabHeader

FirstBlock(raw) == AlignUp(raw + SlabHeader, MaxAlign)

Capacity(raw, c) == (SlabSize - (FirstBlock(raw) - raw)) \div Stride(c)

\* Mutant: the blocks follow each other at the distance of their payload.
BlocksOfPacked(raw, c) ==
  {FirstBlock(raw) + i * AtLeast(c, MinAlign) + BlockHeader :
     i \in {j \in 0 .. Capacity(raw, c) - 1 :
              j < Edge \/ j >= Capacity(raw, c) - Edge}}

\* User pointers of the blocks of a slab.
BlocksOf(raw, c) ==
  {FirstBlock(raw) + i * Stride(c) + BlockHeader :
     i \in {j \in 0 .. Capacity(raw, c) - 1 :
              j < Edge \/ j >= Capacity(raw, c) - Edge}}

SlabMapping(s) == [raw |-> s.raw, len |-> SlabSize]

-----------------------------------------------------------------------------
(* Placement in a span *)

Header(kind) == IF kind = "simple" THEN AllocationHeader ELSE BlockHeader

\* The alignment that LargeObjectAllocator and the simple resource work with.
Aligned(r) == AtLeast(r.alignment, MinAlign)

PassesCheck(r, header) ==
  /\ Aligned(r) <= Word - 1 - header
  /\ AtLeast(r.size, 1) <= Word - 1 - Aligned(r) - header

\* Mutant: no room for the padding.
TotalUnpadded(r, header) == AtLeast(r.size, 1) + header

Total(r, header) == AtLeast(r.size, 1) + Aligned(r) + header

\* The rounding of a total to pages, which is not checked, wraps.
Wraps(total) == total > Word - Page

\* Mutant: the header is not accounted for.
StartUnheaded(raw, r, header) == AlignUp(raw, Aligned(r))

Start(raw, r, header) == AlignUp((raw + header) % Word, Aligned(r))

\* allocate_from_span does not throw.
Fits(m, size, r, header) ==
  (Start(m.raw, r, header) + AtLeast(r.size, 1)) % Word <= (m.raw + size) % Word

\* The block for r in mapping m, of which the code believes size bytes.
Block(kind, m, size, r) ==
  [kind |-> kind, at |-> Start(m.raw, r, Header(kind)),
   size |-> AtLeast(r.size, 1), alignment |-> r.alignment,
   raw_ptr |-> m.raw, total_size |-> size, size_class |-> 0]

-----------------------------------------------------------------------------
(* Small blocks *)

Small(r) ==
  /\ r.kind = "arena"
  /\ AtLeast(r.size, 1) <= Threshold
  /\ r.alignment <= MaxAlign

SmallBlock(s, at, r) ==
  [kind |-> "small", at |-> at, size |-> AtLeast(r.size, 1),
   alignment |-> r.alignment, raw_ptr |-> s.raw, total_size |-> SlabSize,
   size_class |-> s.size_class]

Used(s) == {b \in live : b.kind = "small" /\ b.raw_ptr = s.raw}

\* A free block of a slab of the class.
AllocateExisting(r) ==
  /\ Small(r)
  /\ \E s \in slabs :
       /\ s.size_class = kClassSizes[class_index_for_size(r.size)]
       /\ \E at \in BlocksOf(s.raw, s.size_class) \ {b.at : b \in Used(s)} :
            live' = live \cup {SmallBlock(s, at, r)}
  /\ UNCHANGED <<mapped, cached, slabs, wrapped>>

\* Slab::create.
CreateSlab(r) ==
  /\ Small(r)
  /\ \E m \in Mappings(SlabSize) :
       LET s == [raw |-> m.raw,
                 size_class |-> kClassSizes[class_index_for_size(r.size)]]
       IN  /\ mapped' = mapped \cup {m}
           /\ slabs' = slabs \cup {s}
           /\ \E at \in BlocksOf(s.raw, s.size_class) :
                live' = live \cup {SmallBlock(s, at, r)}
  /\ UNCHANGED <<cached, wrapped>>

\* The slab that became empty stays or is unmapped.
DeallocateSmall(b) ==
  /\ b.kind = "small"
  /\ live' = live \ {b}
  /\ \E s \in slabs :
       /\ s.raw = b.raw_ptr
       /\ \/ UNCHANGED <<mapped, slabs>>
          \/ /\ Used(s) = {b}
             /\ slabs' = slabs \ {s}
             /\ mapped' = Released(mapped, s.raw, SlabSize)
  /\ UNCHANGED <<cached, wrapped>>

-----------------------------------------------------------------------------
(* Large blocks *)

\* class_size_for of LargeObjectConfig, rounded to pages: the only element
\* is the length of a span for total bytes.
SpanSizes(total) ==
  LET size == AlignUp(total, Page)
      fits == {c \in LargeBinSizes : size <= c}
  IN  IF fits = {} THEN {AlignUp(size, Page)}
      ELSE {AlignUp(c, Page) : c \in {d \in fits : \A e \in fits : d <= e}}

Large(r) ==
  /\ r.kind = "arena"
  /\ ~Small(r)
  /\ PassesCheck(r, BlockHeader)

Noted(r, header) == wrapped' = (wrapped \/ Wraps(Total(r, header)))

\* allocate_from_span places the block, or throws and the span is lost.
PlaceLarge(m, r) ==
  live' = live \cup {b \in {Block("large", m, m.len, r)} :
                       Fits(m, m.len, r, BlockHeader)}

AllocateCached(r) ==
  /\ Large(r)
  /\ \E size \in SpanSizes(Total(r, BlockHeader)), m \in cached :
       /\ size <= m.len
       /\ cached' = cached \ {m}
       /\ PlaceLarge(m, r)
  /\ Noted(r, BlockHeader)
  /\ UNCHANGED <<mapped, slabs>>

AllocateLarge(r) ==
  /\ Large(r)
  /\ \E size \in SpanSizes(Total(r, BlockHeader)) :
     \E m \in Mappings(size) :
       /\ mapped' = mapped \cup {m}
       /\ PlaceLarge(m, r)
  /\ Noted(r, BlockHeader)
  /\ UNCHANGED <<cached, slabs>>

\* mbind refuses the memory that mmap gave, and alloc_on_node releases it.
BindFails(size) ==
  /\ \E m \in Mappings(size) :
       mapped' = Released(mapped \cup {m}, m.raw, size)
  /\ UNCHANGED <<cached, slabs, live>>

AllocateLargeFails(r) ==
  /\ Large(r)
  /\ \E size \in SpanSizes(Total(r, BlockHeader)) : BindFails(size)
  /\ Noted(r, BlockHeader)

\* Mutant: spans that have no bin are cached too.
DeallocateLargeBinless(b) ==
  LET m == [raw |-> b.raw_ptr, len |-> b.total_size]
  IN  /\ b.kind = "large"
      /\ live' = live \ {b}
      /\ \/ /\ Cardinality(cached) < MaxCached
            /\ cached' = cached \cup {m}
            /\ UNCHANGED mapped
         \/ /\ mapped' = Released(mapped, b.raw_ptr, b.total_size)
            /\ UNCHANGED cached
      /\ UNCHANGED <<slabs, wrapped>>

\* release_to_cache takes the span, or it is unmapped.
DeallocateLarge(b) ==
  LET m == [raw |-> b.raw_ptr, len |-> b.total_size]
  IN  /\ b.kind = "large"
      /\ live' = live \ {b}
      /\ \/ /\ b.total_size \in LargeBinSizes
            /\ Cardinality(cached) < MaxCached
            /\ cached' = cached \cup {m}
            /\ UNCHANGED mapped
         \/ /\ mapped' = Released(mapped, b.raw_ptr, b.total_size)
            /\ UNCHANGED cached
      /\ UNCHANGED <<slabs, wrapped>>

-----------------------------------------------------------------------------
(* numa_simple_memory_resource *)

SimpleSize(r) == AlignUp(Total(r, AllocationHeader), Page)

AllocateSimple(r) ==
  /\ r.kind = "simple"
  /\ PassesCheck(r, AllocationHeader)
  /\ \E m \in Mappings(SimpleSize(r)) :
       IF Fits(m, SimpleSize(r), r, AllocationHeader)
       THEN /\ mapped' = mapped \cup {m}
            /\ live' = live \cup {Block("simple", m, SimpleSize(r), r)}
       ELSE /\ mapped' = Released(mapped \cup {m}, m.raw, SimpleSize(r))
            /\ UNCHANGED live
  /\ Noted(r, AllocationHeader)
  /\ UNCHANGED <<cached, slabs>>

AllocateSimpleFails(r) ==
  /\ r.kind = "simple"
  /\ PassesCheck(r, AllocationHeader)
  /\ BindFails(SimpleSize(r))
  /\ Noted(r, AllocationHeader)

DeallocateSimple(b) ==
  /\ b.kind = "simple"
  /\ live' = live \ {b}
  /\ mapped' = Released(mapped, b.raw_ptr, b.total_size)
  /\ UNCHANGED <<cached, slabs, wrapped>>

-----------------------------------------------------------------------------

\* Bounds: MaxLive blocks, and no allocation after a rounding that wrapped.
Allocate(r) ==
  /\ ~wrapped
  /\ Cardinality(live) < MaxLive
  /\ \/ AllocateExisting(r)
     \/ CreateSlab(r)
     \/ AllocateCached(r)
     \/ AllocateLarge(r)
     \/ AllocateLargeFails(r)
     \/ AllocateSimple(r)
     \/ AllocateSimpleFails(r)

Deallocate(b) == DeallocateSmall(b) \/ DeallocateLarge(b) \/ DeallocateSimple(b)

Next == (\E r \in Request : Allocate(r)) \/ (\E b \in live : Deallocate(b))

Spec == Init /\ [][Next]_vars

-----------------------------------------------------------------------------

\* A block whose size and alignment make the page rounding wrap.
Short(b) == b.kind # "small" /\ Wraps(Total(b, Header(b.kind)))

(***************************************************************************)
(* A block lies, header included, in the memory that its header names,     *)
(* behind the header of the slab if it is a small one, and that memory is  *)
(* mapped.  The one exception are requests whose page rounding wraps.      *)
(***************************************************************************)
BlocksInside ==
  \A b \in live : ~Short(b) =>
    /\ b.raw_ptr + (IF b.kind = "small" THEN SlabHeader ELSE 0)
         <= b.at - Header(b.kind)
    /\ b.at + b.size <= b.raw_ptr + b.total_size
    /\ [raw |-> b.raw_ptr, len |-> b.total_size] \in mapped

(***************************************************************************)
(* User memory has the alignment asked for, and the BlockHeader before it  *)
(* that of its type, though LargeObjectAllocator aligns to MinAlign only.  *)
(***************************************************************************)
BlocksAligned ==
  \A b \in live :
    /\ b.at % b.alignment = 0
    /\ (b.at - Header(b.kind)) % (IF b.kind = "simple" THEN MinAlign ELSE MaxAlign) = 0

(***************************************************************************)
(* The memory of two blocks, headers included, does not overlap.           *)
(***************************************************************************)
BlocksDisjoint ==
  \A b, c \in live : b # c /\ ~Short(b) /\ ~Short(c) =>
    \/ b.at + b.size <= c.at - Header(c.kind)
    \/ c.at + c.size <= b.at - Header(b.kind)

(***************************************************************************)
(* Every mapping is under a block, in the span cache or a slab: none is    *)
(* lost by a placement that throws, a bind that fails or a release of      *)
(* another length than was mapped, unless a page rounding has wrapped.     *)
(***************************************************************************)
NothingLost ==
  wrapped \/
  mapped = {[raw |-> b.raw_ptr, len |-> b.total_size] : b \in live}
             \cup cached \cup {SlabMapping(s) : s \in slabs}

\* The formula for the index finds class c for each of its sizes.
RowExact ==
  [c \in ClassSizes |->
     \A s \in {n \in 1 .. Threshold : class_size(n) = c} :
       LET i == class_index_for_size(s)
       IN  i \in DOMAIN kClassSizes /\ kClassSizes[i] = c /\ s <= c]

(***************************************************************************)
(* The closed formula for the index of a size agrees with the table that   *)
(* is built by counting, for all sizes of a class in use.  The class that  *)
(* a header names covers the request and is found again when the block is  *)
(* freed, and caches and foreign bins have room for a block of it.         *)
(***************************************************************************)
ClassTableExact ==
  /\ \A s \in slabs :
       /\ RowExact[s.size_class]
       /\ s.size_class <= max_cached_bytes_for_class(s.size_class)
  /\ \A b \in live : b.kind = "small" =>
       /\ b.size <= b.size_class
       /\ kClassSizes[class_index_for_size(b.size_class)] = b.size_class
       /\ [raw |-> b.raw_ptr, size_class |-> b.size_class] \in slabs
=============================================================================
