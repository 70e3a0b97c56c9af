\* Three blocks of one slab, so that a foreign bin overflows.
CONSTANTS
  Slab = {s1}
  Capacity = 3
  NoSlab = NoSlab
  Node = {n1, n2}
  Class = {c1}
  Thread = {t1, t2}
  ClassSize <- MCClassSize
  MaxCachedBytes <- MCMaxCachedBytes
  ForeignFreelist = TRUE
  NoKey = NoKey
SPECIFICATION FairSpec
PROPERTY
  CallsReturn
