\* Four spans, so that each of the three limits is the first to be met; a
\* request for the first bin may be served from the second, not the third;
\* requests of 6 pages have no bin.
CONSTANTS
  Span = {s1, s2, s3, s4}
  Node = {n1, n2}
  NoNode = NoNode
  Thread = {t1, t2}
  Request = {1, 3, 5, 6}
  NumLargeBins = 3
  LargeBinSizes <- MCLargeBinSizes
  MaxSpansPerLargeBin = 2
  LargeBinSearchLimit = 1
  MaxCachedSpans = 3
  MaxCachedBytes = 9
SPECIFICATION Spec
SYMMETRY LargeSymmetry
\* When both allocators are destroyed nothing happens any more.
CHECK_DEADLOCK FALSE
INVARIANTS
  TypeOK
  SpansConserved
  SpansAtHome
  SpanCoversRequest
  NothingLeftMapped
  CountersExact
