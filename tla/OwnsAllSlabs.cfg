\* Growing slabs_ may fail: what the destructor then leaves mapped.
CONSTANTS
  Slab = {s1, s2, s3}
  Capacity = 2
  NoSlab = NoSlab
  MaxBatch = 2
  PushBackMayFail = TRUE
SPECIFICATION Spec
SYMMETRY SlabSymmetry
\* The class stops when its destructor has run.
CHECK_DEADLOCK FALSE
INVARIANT
  OwnsAllSlabs
