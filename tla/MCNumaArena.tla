---------------------------- MODULE MCNumaArena ----------------------------
(***************************************************************************)
(* NumaArena on two nodes.                                                 *)
(***************************************************************************)
EXTENDS NumaArena, TLC

\* A block of 2 bytes and a high watermark of 5: a bin overflows with its
\* third block, and the low watermark of 2 leaves it one.
MCClassSize == [c \in Class |-> 2]
MCMaxCachedBytes == [c \in Class |-> 5]

\* All four are compared for equality only, and the functions above give
\* every class the same sizes.
ArenaSymmetry ==
  Permutations(Slab) \cup Permutations(Thread)
    \cup Permutations(Node) \cup Permutations(Class)
=============================================================================
