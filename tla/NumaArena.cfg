\* Two arenas, two classes, two threads.  Two slabs of two blocks: both can be
\* one class's, whose bin then overflows with its third block.
CONSTANTS
  Slab = {s1, s2}
  Capacity = 2
  NoSlab = NoSlab
  Node = {n1, n2}
  Class = {c1, c2}
  Thread = {t1, t2}
  ClassSize <- MCClassSize
  MaxCachedBytes <- MCMaxCachedBytes
  ForeignFreelist = TRUE
  NoKey = NoKey
SPECIFICATION HistorySpec
SYMMETRY ArenaSymmetry
INVARIANTS
  TypeOK
  BlocksConserved
  HeldOnce
  RoutesHome
  ForeignBytesAccounted
  BinsBounded
  AtMostOneEmptySlab
PROPERTIES
  ImplementsSlabPools
  GrowsPastLateBlocksOnly
