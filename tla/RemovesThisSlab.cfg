\* Nothing fails: which slab a deallocate unmaps.
CONSTANTS
  Slab = {s1, s2, s3}
  Capacity = 2
  NoSlab = NoSlab
  MaxBatch = 1
  PushBackMayFail = FALSE
SPECIFICATION Spec
SYMMETRY SlabSymmetry
\* The class stops when its destructor has run.
CHECK_DEADLOCK FALSE
PROPERTY
  RemovesThisSlab
