\* Two nodes, two threads, two slabs of one block: both slabs can be one
\* node's or one of each, and a second block overflows a cache or foreign bin.
CONSTANTS
  Slab = {s1, s2}
  Capacity = 1
  NoSlab = NoSlab
  Node = {n1, n2}
  Class = {c1}
  Thread = {t1, t2}
  ClassSize <- MCClassSize
  MaxCachedBytes <- MCMaxCachedBytes
  ForeignFreelist = TRUE
  NoKey = NoKey
  NoNode = NoNode
SPECIFICATION CacheSpec
SYMMETRY CacheSymmetry
\* When every thread is gone nothing happens any more.
CHECK_DEADLOCK FALSE
INVARIANTS
  CacheTypeOK
  CachedBlocksLocal
  CacheBounded
PROPERTY
  ImplementsArenas
