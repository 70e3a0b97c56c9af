\* Addresses leave room for two long mappings and for slabs.
CONSTANTS
  Word = 4194304
  Page = 4096
  MinAlign = 8
  MaxAlign = 16
  BlockHeader = 32
  SlabHeader = 24
  AllocationHeader = 16
  SlabSize = 65536
  Thresholds <- MCThresholds
  Alignments <- MCAlignments
  LargeBinSizes <- MCLargeBinSizes
  Base = {4096, 81920, 2101248}
  Edge = 2
  MaxLive = 2
  MaxCached = 1
  Request <- MCRequest
SPECIFICATION Spec
\* After a rounding that wrapped blocks are freed only.
CHECK_DEADLOCK FALSE
INVARIANTS
  TypeOK
  ClassTableExact
  BlocksInside
  BlocksAligned
  BlocksDisjoint
  NothingLost
