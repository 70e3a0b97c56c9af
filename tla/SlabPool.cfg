\* Three addresses: one slab in use, one kept empty, one to unmap or to leak.
CONSTANTS
  Slab = {s1, s2, s3}
  Capacity = 3
  NoSlab = NoSlab
SPECIFICATION Spec
SYMMETRY SlabSymmetry
\* The class stops when its destructor has run.
CHECK_DEADLOCK FALSE
INVARIANTS
  TypeOK
  BlocksAccounted
  AtMostOneEmptySlab
  CurrentIsMapped
