------------------------- MODULE MCThreadLocalCache -------------------------
(***************************************************************************)
(* ThreadLocalCache on two nodes with one size class.                      *)
(***************************************************************************)
EXTENDS ThreadLocalCache, TLC

\* A block of 2 bytes and a limit of 3: a cache bin holds one block, and a
\* foreign bin overflows with its second and is then emptied.
MCClassSize == [c \in Class |-> 2]
MCMaxCachedBytes == [c \in Class |-> 3]

\* All four are compared for equality only.
CacheSymmetry ==
  Permutations(Slab) \cup Permutations(Thread)
    \cup Permutations(Node) \cup Permutations(Class)
=============================================================================
