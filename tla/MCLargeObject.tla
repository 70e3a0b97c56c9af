---------------------------- MODULE MCLargeObject ----------------------------
(***************************************************************************)
(* LargeObject with three bins, of 2, 3 and 5 pages.                       *)
(***************************************************************************)
EXTENDS LargeObject, TLC

MCLargeBinSizes == <<2, 3, 5>>

LargeSymmetry ==
  Permutations(Span) \cup Permutations(Node) \cup Permutations(Thread)
=============================================================================
