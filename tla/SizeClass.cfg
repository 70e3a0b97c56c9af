\* Four slabs: one that a failed push_back orphans, and three for the sweep
\* to keep one, pop one and swap; a chain of three empties slabs in any order.
CONSTANTS
  Slab = {s1, s2, s3, s4}
  Capacity = 2
  NoSlab = NoSlab
  MaxBatch = 3
  PushBackMayFail = TRUE
SPECIFICATION Spec
SYMMETRY SlabSymmetry
\* The class stops when its destructor has run.
CHECK_DEADLOCK FALSE
INVARIANTS
  TypeOK
  FreeListsSound
  NoDanglingSlab
PROPERTY
  ImplementsSlabPool
