---------------------------- MODULE MCSizeClass ----------------------------
(***************************************************************************)
(* SizeClass on three addresses with two blocks each.                      *)
(***************************************************************************)
EXTENDS SizeClass, TLC

\* Addresses are compared for equality only.
SlabSymmetry == Permutations(Slab)
=============================================================================
