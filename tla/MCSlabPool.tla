----------------------------- MODULE MCSlabPool -----------------------------
(***************************************************************************)
(* SlabPool on small sets of addresses.                                    *)
(***************************************************************************)
EXTENDS SlabPool, TLC

\* Addresses are compared for equality only.
SlabSymmetry == Permutations(Slab)
=============================================================================
