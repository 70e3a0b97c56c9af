-------------------------- MODULE LargeObjectProofs --------------------------
(***************************************************************************)
(* The span caches for any spans, nodes, threads, requests, class sizes    *)
(* and limits.  SpansConserved and SpansAtHome hold together with what the *)
(* threads in a call are about to do (CallsAtHome).                        *)
(***************************************************************************)
EXTENDS LargeObject, TLAPS, FiniteSetTheorems

\* A call is in a live allocator; a span about to be unmapped is of that
\* allocator; a block in use keeps its allocator alive, and a dead one has an
\* empty cache.
CallsAtHome ==
  /\ \A t \in Thread : pc[t] # "idle" => alive[at[t]]
  /\ \A t \in Thread : pc[t] # "unmap" => span[t] = {}
  /\ \A t \in Thread : \A s \in span[t] : bound[s] = at[t]
  /\ \A s \in live : header[s] \in Node /\ alive[header[s]]
  /\ \A n \in Node : ~alive[n] => CachedIn(n) = {}

LInv ==
  /\ TypeOK
  /\ SpansConserved
  /\ SpansAtHome
  /\ SpanCoversRequest
  /\ NothingLeftMapped
  /\ CallsAtHome

-----------------------------------------------------------------------------

(***************************************************************************)
(* LargeObjectConfig: class_size_for never rounds down, and neither does   *)
(* the search of larger bins.                                              *)
(***************************************************************************)
LEMMA ClassCovers ==
  ASSUME NEW r \in Nat, NEW size \in ClassSizes(r)
  PROVE  size \in Nat /\ r <= size
<1>1. LargeBinSizes \in [Bin -> Nat \ {0}]
  BY LargeObjectAssumption
<1>2. QED
  BY <1>1 DEF ClassSizes, First

LEMMA SearchedCovers ==
  ASSUME NEW size \in Nat, NEW i \in Searched(size)
  PROVE  i \in Bin /\ size <= LargeBinSizes[i]
<1>1. i \in Bin
  BY DEF Searched
<1>2. PICK b \in BinsFor(size) : i \in b .. (b + LargeBinSearchLimit)
  BY DEF Searched
<1>3. b \in Bin /\ LargeBinSizes[b] = size
  BY <1>2 DEF BinsFor
<1>4. b \in Int /\ i \in Int /\ b <= i
  BY <1>1, <1>2, <1>3, LargeObjectAssumption DEF Bin
<1>5. CASE b = i
  BY <1>1, <1>3, <1>5
<1>6. CASE b < i
  BY <1>1, <1>3, <1>6, LargeObjectAssumption
<1>7. QED
  BY <1>4, <1>5, <1>6

-----------------------------------------------------------------------------

LEMMA InitLInv == Init => LInv
<1> SUFFICES ASSUME Init PROVE LInv
  OBVIOUS
<1>1. TypeOK
  BY LargeObjectAssumption DEF Init, TypeOK
<1>2. \A n \in Node : CachedIn(n) = {}
  BY DEF Init, CachedIn
<1>3. SpansConserved
  BY <1>2 DEF Init, SpansConserved
<1>4. SpansAtHome /\ SpanCoversRequest /\ NothingLeftMapped
  BY DEF Init, SpansAtHome, SpanCoversRequest, NothingLeftMapped
<1>5. CallsAtHome
  BY <1>2 DEF Init, CallsAtHome
<1>6. QED
  BY <1>1, <1>3, <1>4, <1>5 DEF LInv

(***************************************************************************)
(* A block placed in a span that was in a bin of the allocator.            *)
(***************************************************************************)
LEMMA TakeCachedLInv ==
  ASSUME LInv, NEW t \in Thread, NEW n \in Node, NEW r \in Request,
         TakeCached(t, n, r)
  PROVE  LInv'
<1>1. PICK size \in ClassSizes(r) :
      \E i \in First({j \in Searched(size) : bins[n][j] # {}}) :
      \E s \in bins[n][i] :
        /\ bins' = [bins EXCEPT ![n][i] = @ \ {s}]
        /\ cachedSpans' = [cachedSpans EXCEPT ![n] = @ - 1]
        /\ cachedBytes' = [cachedBytes EXCEPT ![n] = @ - total[s]]
        /\ Place(s, n, r)
  BY DEF TakeCached
<1>2. PICK i \in First({j \in Searched(size) : bins[n][j] # {}}) :
      \E s \in bins[n][i] :
        /\ bins' = [bins EXCEPT ![n][i] = @ \ {s}]
        /\ cachedSpans' = [cachedSpans EXCEPT ![n] = @ - 1]
        /\ cachedBytes' = [cachedBytes EXCEPT ![n] = @ - total[s]]
        /\ Place(s, n, r)
  BY <1>1
<1>3. PICK s \in bins[n][i] :
        /\ bins' = [bins EXCEPT ![n][i] = @ \ {s}]
        /\ cachedSpans' = [cachedSpans EXCEPT ![n] = @ - 1]
        /\ cachedBytes' = [cachedBytes EXCEPT ![n] = @ - total[s]]
        /\ Place(s, n, r)
  BY <1>2
<1>4. i \in Searched(size) /\ i \in Bin
  BY <1>2 DEF First, Searched
<1>5. /\ s \in CachedIn(n)
      /\ s \in Span
      /\ bound[s] = n /\ total[s] = LargeBinSizes[i]
      /\ s \notin live
      /\ \A u \in Thread : s \notin span[u]
  BY <1>3, <1>4 DEF LInv, TypeOK, CachedIn, SpansConserved, SpansAtHome
<1>6. /\ bins'[n][i] = bins[n][i] \ {s}
      /\ \A m \in Node, j \in Bin : <<m, j>> # <<n, i>> => bins'[m][j] = bins[m][j]
      /\ bins' \in [Node -> [Bin -> SUBSET Span]]
  BY <1>3, <1>4 DEF LInv, TypeOK
<1>7. /\ \A m \in Node, j \in Bin : bins'[m][j] \subseteq bins[m][j]
      /\ CachedIn(n)' = CachedIn(n) \ {s}
      /\ \A m \in Node : m # n => CachedIn(m)' = CachedIn(m)
  <2>1. \A m \in Node, j \in Bin : bins'[m][j] \subseteq bins[m][j]
    BY <1>6
  <2>2. \A j \in Bin : j # i => s \notin bins[n][j]
    BY <1>3, <1>4 DEF LInv, SpansConserved
  <2>3. CachedIn(n)' = CachedIn(n) \ {s}
    BY <1>4, <1>6, <2>2 DEF CachedIn
  <2>4. \A m \in Node : m # n => CachedIn(m)' = CachedIn(m)
    BY <1>6 DEF CachedIn
  <2>5. QED
    BY <2>1, <2>3, <2>4
<1>8. /\ live' = live \cup {s}
      /\ need' = [need EXCEPT ![s] = r]
      /\ header' = [header EXCEPT ![s] = n]
      /\ UNCHANGED <<mapped, total, bound, alive, calls>>
      /\ alive[n]
  BY <1>3 DEF Place, TakeCached
<1>9. r \in Nat
  BY LargeObjectAssumption
<1>10. TypeOK'
  BY <1>3, <1>5, <1>6, <1>8, <1>9 DEF LInv, TypeOK, calls
<1>11. SpansConserved'
  <2>1. \A m \in Node : m # n => s \notin CachedIn(m)
    BY <1>3, <1>4 DEF LInv, SpansConserved, CachedIn
  <2>2. (UNION {CachedIn(m) : m \in Node})' =
          (UNION {CachedIn(m) : m \in Node}) \ {s}
    BY <1>7, <2>1
  <2>3. s \in mapped
    BY <1>5 DEF LInv, SpansConserved
  <2>4. mapped' = live' \cup (UNION {CachedIn(m) : m \in Node})'
                       \cup (UNION {span[u] : u \in Thread})'
    BY <1>8, <2>2, <2>3 DEF LInv, SpansConserved, calls
  <2>5. /\ \A m \in Node : CachedIn(m)' \cap live' = {}
        /\ \A u \in Thread : span'[u] \cap live' = {}
        /\ \A u \in Thread, m \in Node : span'[u] \cap CachedIn(m)' = {}
        /\ \A u, v \in Thread : u # v => span'[u] \cap span'[v] = {}
    BY <1>5, <1>7, <1>8, <2>1 DEF LInv, SpansConserved, calls
  <2>6. \A m, o \in Node, j, k \in Bin :
          <<m, j>> # <<o, k>> => bins'[m][j] \cap bins'[o][k] = {}
    BY <1>7 DEF LInv, SpansConserved
  <2>7. QED
    BY <2>4, <2>5, <2>6 DEF SpansConserved
<1>12. SpansAtHome'
  BY <1>5, <1>7, <1>8 DEF LInv, TypeOK, SpansAtHome
<1>13. SpanCoversRequest'
  <2>1. size \in Nat /\ r <= size
    BY <1>9, ClassCovers
  <2>2. size <= LargeBinSizes[i] /\ LargeBinSizes[i] \in Nat
    BY <1>4, <2>1, SearchedCovers, LargeObjectAssumption
  <2>3. r <= LargeBinSizes[i]
    BY <1>9, <2>1, <2>2
  <2>4. need'[s] = r /\ total'[s] = LargeBinSizes[i]
    BY <1>5, <1>8 DEF LInv, TypeOK
  <2>5. \A a \in live : need'[a] = need[a] /\ total'[a] = total[a]
    BY <1>5, <1>8 DEF LInv, TypeOK
  <2>6. QED
    BY <1>4, <1>8, <2>3, <2>4, <2>5 DEF LInv, SpanCoversRequest
<1>14. NothingLeftMapped'
  BY <1>8 DEF LInv, NothingLeftMapped
<1>15. CallsAtHome'
  BY <1>5, <1>7, <1>8 DEF LInv, TypeOK, CallsAtHome, calls
<1>16. QED
  BY <1>10, <1>11, <1>12, <1>13, <1>14, <1>15 DEF LInv

(***************************************************************************)
(* A block placed in a span that mmap has just given.                      *)
(***************************************************************************)
LEMMA MapLInv ==
  ASSUME LInv, NEW t \in Thread, Map(t)
  PROVE  LInv'
<1>1. PICK size \in ClassSizes(want[t]), s \in Span \ mapped :
        /\ mapped' = mapped \cup {s}
        /\ total' = [total EXCEPT ![s] = size]
        /\ bound' = [bound EXCEPT ![s] = at[t]]
        /\ Place(s, at[t], want[t])
  BY DEF Map
<1>2. /\ at[t] \in Node /\ want[t] \in Nat /\ alive[at[t]]
      /\ pc[t] = "map" /\ span[t] = {}
  BY DEF Map, LInv, TypeOK, CallsAtHome
<1>3. size \in Nat /\ want[t] <= size
  BY <1>2, ClassCovers
<1>4. /\ live' = live \cup {s}
      /\ need' = [need EXCEPT ![s] = want[t]]
      /\ header' = [header EXCEPT ![s] = at[t]]
  BY <1>1 DEF Place
<1>5. /\ pc' = [pc EXCEPT ![t] = "idle"]
      /\ at' = [at EXCEPT ![t] = NoNode]
      /\ want' = [want EXCEPT ![t] = 0]
      /\ UNCHANGED <<caches, alive, span>>
  BY DEF Map, Return
<1>6. /\ s \notin live
      /\ \A n \in Node : s \notin CachedIn(n) /\ CachedIn(n)' = CachedIn(n)
      /\ \A n \in Node, i \in Bin : s \notin bins[n][i]
      /\ \A u \in Thread : s \notin span[u]
  BY <1>1, <1>5 DEF LInv, SpansConserved, CachedIn, caches
<1>7. /\ total'[s] = size /\ bound'[s] = at[t]
      /\ need'[s] = want[t] /\ header'[s] = at[t]
      /\ \A a \in Span : a # s => /\ total'[a] = total[a] /\ bound'[a] = bound[a]
                                  /\ need'[a] = need[a] /\ header'[a] = header[a]
  BY <1>1, <1>4 DEF LInv, TypeOK
<1>8. TypeOK'
  BY <1>1, <1>2, <1>3, <1>4, <1>5, LargeObjectAssumption DEF LInv, TypeOK, caches
<1>9. SpansConserved'
  BY <1>1, <1>4, <1>5, <1>6 DEF LInv, SpansConserved, caches
<1>10. SpansAtHome'
  BY <1>4, <1>5, <1>6, <1>7 DEF LInv, TypeOK, SpansAtHome, caches
<1>11. SpanCoversRequest'
  BY <1>1, <1>3, <1>4, <1>6, <1>7 DEF LInv, TypeOK, SpanCoversRequest
<1>12. NothingLeftMapped'
  BY <1>1, <1>2, <1>5, <1>7 DEF LInv, TypeOK, NothingLeftMapped
<1>13. CallsAtHome'
  <2>1. \A u \in Thread : u # t => pc'[u] = pc[u] /\ at'[u] = at[u]
    BY <1>5 DEF LInv, TypeOK
  <2>2. pc'[t] = "idle" /\ span' = span /\ alive' = alive
    BY <1>5 DEF LInv, TypeOK
  <2>3. \A u \in Thread : \A a \in span[u] : a # s /\ a \in Span
    BY <1>6 DEF LInv, TypeOK
  <2>4. \A u \in Thread : \A a \in span'[u] : bound'[a] = at'[u]
    BY <1>2, <1>7, <2>1, <2>2, <2>3 DEF LInv, CallsAtHome
  <2>5. \A a \in live' : header'[a] \in Node /\ alive'[header'[a]]
    BY <1>2, <1>4, <1>7, <2>2 DEF LInv, TypeOK, CallsAtHome
  <2>6. QED
    BY <1>2, <1>6, <2>1, <2>2, <2>4, <2>5 DEF LInv, CallsAtHome
<1>14. QED
  BY <1>8, <1>9, <1>10, <1>11, <1>12, <1>13 DEF LInv

(***************************************************************************)
(* The ends of a call that leave every span where it is.                   *)
(***************************************************************************)
LEMMA MissLInv ==
  ASSUME LInv, NEW t \in Thread, NEW n \in Node, NEW r \in Request,
         Miss(t, n, r)
  PROVE  LInv'
<1>1. /\ pc[t] = "idle" /\ alive[n]
      /\ pc' = [pc EXCEPT ![t] = "map"]
      /\ at' = [at EXCEPT ![t] = n]
      /\ want' = [want EXCEPT ![t] = r]
      /\ UNCHANGED <<mapped, total, bound, blocks, caches, alive, span>>
  BY DEF Miss
<1>2. TypeOK'
  BY <1>1, LargeObjectAssumption DEF LInv, TypeOK, blocks, caches
<1>3. /\ SpansConserved' /\ SpansAtHome' /\ SpanCoversRequest'
      /\ NothingLeftMapped'
  BY <1>1 DEF LInv, SpansConserved, SpansAtHome, SpanCoversRequest,
     NothingLeftMapped, CachedIn, blocks, caches
<1>4. CallsAtHome'
  <2>1. span[t] = {}
    BY <1>1 DEF LInv, CallsAtHome
  <2>2. \A u \in Thread : u # t => pc'[u] = pc[u] /\ at'[u] = at[u]
    BY <1>1 DEF LInv, TypeOK
  <2>3. pc'[t] = "map" /\ at'[t] = n
    BY <1>1 DEF LInv, TypeOK
  <2>4. QED
    BY <1>1, <2>1, <2>2, <2>3 DEF LInv, CallsAtHome, CachedIn, blocks, caches
<1>5. QED
  BY <1>2, <1>3, <1>4 DEF LInv

LEMMA MapFailsLInv ==
  ASSUME LInv, NEW t \in Thread, MapFails(t)
  PROVE  LInv'
<1>1. /\ pc[t] = "map"
      /\ pc' = [pc EXCEPT ![t] = "idle"]
      /\ at' = [at EXCEPT ![t] = NoNode]
      /\ want' = [want EXCEPT ![t] = 0]
      /\ UNCHANGED <<mapped, total, bound, blocks, caches, alive, span>>
  BY DEF MapFails, Return
<1>2. TypeOK'
  BY <1>1, LargeObjectAssumption DEF LInv, TypeOK, blocks, caches
<1>3. /\ SpansConserved' /\ SpansAtHome' /\ SpanCoversRequest'
      /\ NothingLeftMapped'
  BY <1>1 DEF LInv, SpansConserved, SpansAtHome, SpanCoversRequest,
     NothingLeftMapped, CachedIn, blocks, caches
<1>4. CallsAtHome'
  <2>1. span[t] = {}
    BY <1>1 DEF LInv, CallsAtHome
  <2>2. \A u \in Thread : u # t => pc'[u] = pc[u] /\ at'[u] = at[u]
    BY <1>1 DEF LInv, TypeOK
  <2>3. pc'[t] = "idle"
    BY <1>1 DEF LInv, TypeOK
  <2>4. QED
    BY <1>1, <2>1, <2>2, <2>3 DEF LInv, CallsAtHome, CachedIn, blocks, caches
<1>5. QED
  BY <1>2, <1>3, <1>4 DEF LInv

(***************************************************************************)
(* A freed span goes into the bin of its length, in the allocator its      *)
(* header names.                                                           *)
(***************************************************************************)
LEMMA ReleaseToCacheLInv ==
  ASSUME LInv, NEW t \in Thread, NEW s \in live, ReleaseToCache(t, s)
  PROVE  LInv'
<1>n. PICK n \in Node : n = header[s]
  BY DEF LInv, CallsAtHome
<1>1. PICK i \in Bin :
        /\ Cacheable(n, i, s)
        /\ bins' = [bins EXCEPT ![n][i] = @ \cup {s}]
        /\ cachedSpans' = [cachedSpans EXCEPT ![n] = @ + 1]
        /\ cachedBytes' = [cachedBytes EXCEPT ![n] = @ + total[s]]
  BY <1>n DEF ReleaseToCache
<1>2. /\ alive[n] /\ bound[s] = n
      /\ s \in Span /\ s \in mapped
      /\ \A m \in Node : s \notin CachedIn(m)
      /\ \A m \in Node, j \in Bin : s \notin bins[m][j]
      /\ \A u \in Thread : s \notin span[u]
  BY <1>n DEF LInv, TypeOK, SpansConserved, SpansAtHome, CallsAtHome, CachedIn
<1>3. total[s] = LargeBinSizes[i]
  BY <1>1 DEF Cacheable, BinsFor
<1>4. /\ live' = live \ {s}
      /\ need' = [need EXCEPT ![s] = 0]
      /\ header' = [header EXCEPT ![s] = NoNode]
      /\ UNCHANGED <<mapped, total, bound, alive, calls>>
  BY DEF ReleaseToCache, Forget
<1>5. /\ bins'[n][i] = bins[n][i] \cup {s}
      /\ \A m \in Node, j \in Bin : <<m, j>> # <<n, i>> => bins'[m][j] = bins[m][j]
      /\ bins' \in [Node -> [Bin -> SUBSET Span]]
  BY <1>1, <1>2 DEF LInv, TypeOK
<1>6. /\ CachedIn(n)' = CachedIn(n) \cup {s}
      /\ \A m \in Node : m # n => CachedIn(m)' = CachedIn(m)
  <2>1. CachedIn(n)' = CachedIn(n) \cup {s}
    BY <1>5 DEF CachedIn
  <2>2. \A m \in Node : m # n => CachedIn(m)' = CachedIn(m)
    BY <1>5 DEF CachedIn
  <2>3. QED
    BY <2>1, <2>2
<1>7. \A a \in live' : need'[a] = need[a] /\ header'[a] = header[a]
  BY <1>2, <1>4 DEF LInv, TypeOK
<1>8. TypeOK'
  BY <1>1, <1>2, <1>4, <1>5 DEF LInv, TypeOK, calls
<1>9. SpansConserved'
  <2>1. (UNION {CachedIn(m) : m \in Node})' =
          (UNION {CachedIn(m) : m \in Node}) \cup {s}
    BY <1>2, <1>6
  <2>2. mapped' = live' \cup (UNION {CachedIn(m) : m \in Node})'
                       \cup (UNION {span[u] : u \in Thread})'
    BY <1>2, <1>4, <2>1 DEF LInv, SpansConserved, calls
  <2>3. /\ \A m \in Node : CachedIn(m)' \cap live' = {}
        /\ \A u \in Thread : span'[u] \cap live' = {}
        /\ \A u \in Thread, m \in Node : span'[u] \cap CachedIn(m)' = {}
        /\ \A u, v \in Thread : u # v => span'[u] \cap span'[v] = {}
    BY <1>2, <1>4, <1>6 DEF LInv, SpansConserved, calls
  <2>4. \A m, o \in Node, j, k \in Bin :
          <<m, j>> # <<o, k>> => bins'[m][j] \cap bins'[o][k] = {}
    <3>1. \A m \in Node, j \in Bin : bins'[m][j] \subseteq bins[m][j] \cup {s}
      BY <1>5
    <3>2. \A m \in Node, j \in Bin : s \in bins'[m][j] => <<m, j>> = <<n, i>>
      BY <1>2, <1>5
    <3>3. QED
      BY <3>1, <3>2 DEF LInv, SpansConserved
  <2>5. QED
    BY <2>2, <2>3, <2>4 DEF SpansConserved
<1>10. SpansAtHome'
  <2>1. ASSUME NEW m \in Node, NEW j \in Bin, NEW a \in bins'[m][j]
        PROVE  bound'[a] = m /\ total'[a] = LargeBinSizes[j]
    <3>1. CASE a \in bins[m][j]
      BY <1>4, <3>1 DEF LInv, SpansAtHome
    <3>2. CASE a \notin bins[m][j]
      <4>1. m = n /\ j = i /\ a = s
        BY <1>5, <2>1, <3>2
      <4>2. QED
        BY <1>2, <1>3, <1>4, <4>1
    <3>3. QED
      BY <3>1, <3>2
  <2>2. \A a \in live' : bound'[a] = header'[a]
    BY <1>4, <1>7 DEF LInv, SpansAtHome
  <2>3. QED
    BY <2>1, <2>2 DEF SpansAtHome
<1>11. SpanCoversRequest'
  BY <1>4, <1>7 DEF LInv, SpanCoversRequest
<1>12. NothingLeftMapped'
  BY <1>4 DEF LInv, NothingLeftMapped
<1>13. CallsAtHome'
  <2>1. \A m \in Node : ~alive'[m] => CachedIn(m)' = {}
    BY <1>2, <1>4, <1>6 DEF LInv, CallsAtHome
  <2>2. \A a \in live' : header'[a] \in Node /\ alive'[header'[a]]
    BY <1>4, <1>7 DEF LInv, CallsAtHome
  <2>3. QED
    BY <1>4, <2>1, <2>2 DEF LInv, CallsAtHome, calls
<1>14. QED
  BY <1>8, <1>9, <1>10, <1>11, <1>12, <1>13 DEF LInv

(***************************************************************************)
(* A freed span stays with the thread that will unmap it.                  *)
(***************************************************************************)
LEMMA RefuseLInv ==
  ASSUME LInv, NEW t \in Thread, NEW s \in live, Refuse(t, s)
  PROVE  LInv'
<1>1. /\ header[s] \in Node /\ alive[header[s]] /\ bound[s] = header[s]
      /\ s \in Span /\ s \in mapped
      /\ \A m \in Node : s \notin CachedIn(m)
      /\ \A u \in Thread : s \notin span[u]
      /\ span[t] = {}
  BY DEF Refuse, LInv, TypeOK, SpansConserved, SpansAtHome, CallsAtHome
<1>2. /\ live' = live \ {s}
      /\ need' = [need EXCEPT ![s] = 0]
      /\ header' = [header EXCEPT ![s] = NoNode]
      /\ pc' = [pc EXCEPT ![t] = "unmap"]
      /\ at' = [at EXCEPT ![t] = header[s]]
      /\ span' = [span EXCEPT ![t] = {s}]
      /\ UNCHANGED <<mapped, total, bound, caches, alive, want>>
  BY DEF Refuse, Forget
<1>3. /\ \A a \in live' : need'[a] = need[a] /\ header'[a] = header[a]
      /\ \A u \in Thread : u # t => /\ pc'[u] = pc[u] /\ at'[u] = at[u]
                                    /\ span'[u] = span[u]
      /\ pc'[t] = "unmap" /\ at'[t] = header[s] /\ span'[t] = {s}
  BY <1>1, <1>2 DEF LInv, TypeOK
<1>4. \A n \in Node : CachedIn(n)' = CachedIn(n)
  BY <1>2 DEF CachedIn, caches
<1>5. TypeOK'
  BY <1>1, <1>2, LargeObjectAssumption DEF LInv, TypeOK, caches
<1>6. SpansConserved'
  <2>1. (UNION {CachedIn(m) : m \in Node})' = UNION {CachedIn(m) : m \in Node}
    BY <1>4
  <2>2. (UNION {span[u] : u \in Thread})' = (UNION {span[u] : u \in Thread}) \cup {s}
    BY <1>1, <1>3
  <2>3. mapped' = live' \cup (UNION {CachedIn(m) : m \in Node})'
                       \cup (UNION {span[u] : u \in Thread})'
    BY <1>1, <1>2, <2>1, <2>2 DEF LInv, SpansConserved
  <2>4. /\ \A m \in Node : CachedIn(m)' \cap live' = {}
        /\ \A u \in Thread : span'[u] \cap live' = {}
        /\ \A u \in Thread, m \in Node : span'[u] \cap CachedIn(m)' = {}
        /\ \A u, v \in Thread : u # v => span'[u] \cap span'[v] = {}
    BY <1>1, <1>2, <1>3, <1>4 DEF LInv, SpansConserved
  <2>5. \A m, o \in Node, j, k \in Bin :
          <<m, j>> # <<o, k>> => bins'[m][j] \cap bins'[o][k] = {}
    BY <1>2 DEF LInv, SpansConserved, caches
  <2>6. QED
    BY <2>3, <2>4, <2>5 DEF SpansConserved
<1>7. SpansAtHome' /\ SpanCoversRequest' /\ NothingLeftMapped'
  BY <1>2, <1>3 DEF LInv, SpansAtHome, SpanCoversRequest, NothingLeftMapped, caches
<1>8. CallsAtHome'
  BY <1>1, <1>2, <1>3, <1>4 DEF LInv, CallsAtHome
<1>9. QED
  BY <1>5, <1>6, <1>7, <1>8 DEF LInv

(***************************************************************************)
(* The thread unmaps the span nobody else has.                             *)
(***************************************************************************)
LEMMA UnmapLInv ==
  ASSUME LInv, NEW t \in Thread, Unmap(t)
  PROVE  LInv'
<1>1. /\ mapped' = mapped \ span[t]
      /\ total' = [s \in Span |-> IF s \in span[t] THEN 0 ELSE total[s]]
      /\ bound' = [s \in Span |-> IF s \in span[t] THEN NoNode ELSE bound[s]]
      /\ span' = [span EXCEPT ![t] = {}]
      /\ pc' = [pc EXCEPT ![t] = "idle"]
      /\ at' = [at EXCEPT ![t] = NoNode]
      /\ UNCHANGED <<blocks, caches, alive, want>>
  BY DEF Unmap, Release, Return
<1>2. /\ span[t] \subseteq Span
      /\ span[t] \cap live = {}
      /\ \A n \in Node : span[t] \cap CachedIn(n) = {}
      /\ \A n \in Node, i \in Bin : span[t] \cap bins[n][i] = {}
      /\ \A u \in Thread : u # t => span[t] \cap span[u] = {}
  BY DEF LInv, TypeOK, SpansConserved, CachedIn
<1>3. /\ \A u \in Thread : u # t => /\ pc'[u] = pc[u] /\ at'[u] = at[u]
                                    /\ span'[u] = span[u]
      /\ pc'[t] = "idle" /\ span'[t] = {}
      /\ \A a \in Span \ span[t] : total'[a] = total[a] /\ bound'[a] = bound[a]
  BY <1>1 DEF LInv, TypeOK
<1>4. \A n \in Node : CachedIn(n)' = CachedIn(n)
  BY <1>1 DEF CachedIn, caches
<1>5. TypeOK'
  BY <1>1, LargeObjectAssumption DEF LInv, TypeOK, blocks, caches
<1>6. SpansConserved'
  <2>1. (UNION {CachedIn(m) : m \in Node})' = UNION {CachedIn(m) : m \in Node}
    BY <1>4
  <2>2. (UNION {span[u] : u \in Thread})' = (UNION {span[u] : u \in Thread}) \ span[t]
    BY <1>2, <1>3
  <2>3. (UNION {CachedIn(m) : m \in Node}) \cap span[t] = {}
    BY <1>2
  <2>4. mapped' = live' \cup (UNION {CachedIn(m) : m \in Node})'
                       \cup (UNION {span[u] : u \in Thread})'
    BY <1>1, <1>2, <2>1, <2>2, <2>3 DEF LInv, SpansConserved, blocks
  <2>5. /\ \A m \in Node : CachedIn(m)' \cap live' = {}
        /\ \A u \in Thread : span'[u] \cap live' = {}
        /\ \A u \in Thread, m \in Node : span'[u] \cap CachedIn(m)' = {}
        /\ \A u, v \in Thread : u # v => span'[u] \cap span'[v] = {}
    BY <1>1, <1>3, <1>4 DEF LInv, SpansConserved, blocks
  <2>6. \A m, o \in Node, j, k \in Bin :
          <<m, j>> # <<o, k>> => bins'[m][j] \cap bins'[o][k] = {}
    BY <1>1 DEF LInv, SpansConserved, caches
  <2>7. QED
    BY <2>4, <2>5, <2>6 DEF SpansConserved
<1>7. SpansAtHome'
  <2>1. \A n \in Node, i \in Bin : \A a \in bins'[n][i] :
          a \in bins[n][i] /\ a \in Span \ span[t]
    BY <1>1, <1>2 DEF LInv, TypeOK, caches
  <2>2. \A a \in live' : a \in live /\ a \in Span \ span[t] /\ header'[a] = header[a]
    BY <1>1, <1>2 DEF LInv, TypeOK, blocks
  <2>3. QED
    BY <1>3, <2>1, <2>2 DEF LInv, SpansAtHome
<1>8. SpanCoversRequest'
  <2>1. \A a \in live' : a \in live /\ a \in Span \ span[t] /\ need'[a] = need[a]
    BY <1>1, <1>2 DEF LInv, TypeOK, blocks
  <2>2. QED
    BY <1>3, <2>1 DEF LInv, SpanCoversRequest
<1>9. NothingLeftMapped'
  BY <1>1, <1>3 DEF LInv, TypeOK, NothingLeftMapped
<1>10. CallsAtHome'
  <2>1. \A u \in Thread : \A a \in span'[u] : bound'[a] = at'[u]
    BY <1>2, <1>3 DEF LInv, TypeOK, CallsAtHome
  <2>2. \A u \in Thread : pc'[u] # "idle" => alive'[at'[u]]
    BY <1>1, <1>3 DEF LInv, CallsAtHome
  <2>3. QED
    BY <1>1, <1>3, <1>4, <2>1, <2>2 DEF LInv, CallsAtHome, blocks
<1>11. QED
  BY <1>5, <1>6, <1>7, <1>8, <1>9, <1>10 DEF LInv

(***************************************************************************)
(* The destructor unmaps the cached spans, and there are no others of its  *)
(* node.                                                                   *)
(***************************************************************************)
LEMMA DestroyLInv ==
  ASSUME LInv, NEW n \in Node, Destroy(n)
  PROVE  LInv'
<1>1. PICK gone : gone = CachedIn(n)
  OBVIOUS
<1>2. /\ mapped' = mapped \ gone
      /\ total' = [s \in Span |-> IF s \in gone THEN 0 ELSE total[s]]
      /\ bound' = [s \in Span |-> IF s \in gone THEN NoNode ELSE bound[s]]
      /\ bins' = [bins EXCEPT ![n] = [i \in Bin |-> {}]]
      /\ cachedSpans' = [cachedSpans EXCEPT ![n] = 0]
      /\ cachedBytes' = [cachedBytes EXCEPT ![n] = 0]
      /\ alive' = [alive EXCEPT ![n] = FALSE]
      /\ UNCHANGED <<blocks, calls>>
  BY <1>1 DEF Destroy, Release
<1>3. /\ \A t \in Thread : at[t] # n
      /\ \A s \in live : header[s] # n
  BY DEF Destroy, Quiet
<1>4. /\ gone \subseteq Span
      /\ gone \cap live = {}
      /\ \A m \in Node : m # n => CachedIn(m) \cap gone = {}
      /\ \A t \in Thread : span[t] \cap gone = {}
  BY <1>1 DEF LInv, TypeOK, SpansConserved, CachedIn
<1>5. /\ \A i \in Bin : bins'[n][i] = {}
      /\ \A m \in Node : m # n => bins'[m] = bins[m]
  BY <1>2 DEF LInv, TypeOK
<1>6. /\ CachedIn(n)' = {}
      /\ \A m \in Node : m # n => CachedIn(m)' = CachedIn(m)
  <2>1. CachedIn(n)' = {}
    BY <1>5 DEF CachedIn
  <2>2. \A m \in Node : m # n => CachedIn(m)' = CachedIn(m)
    BY <1>5 DEF CachedIn
  <2>3. QED
    BY <2>1, <2>2
<1>7. /\ \A a \in Span \ gone : total'[a] = total[a] /\ bound'[a] = bound[a]
      /\ \A m \in Node : m # n => alive'[m] = alive[m]
      /\ alive'[n] = FALSE
  BY <1>2 DEF LInv, TypeOK
<1>8. TypeOK'
  BY <1>2 DEF LInv, TypeOK, blocks, calls
<1>9. SpansConserved'
  <2>1. (UNION {CachedIn(m) : m \in Node})' = (UNION {CachedIn(m) : m \in Node}) \ gone
    BY <1>1, <1>4, <1>6
  <2>2. (UNION {span[t] : t \in Thread}) \cap gone = {}
    BY <1>4
  <2>3. mapped' = live' \cup (UNION {CachedIn(m) : m \in Node})'
                       \cup (UNION {span[u] : u \in Thread})'
    BY <1>2, <1>4, <2>1, <2>2 DEF LInv, SpansConserved, blocks, calls
  <2>4. /\ \A m \in Node : CachedIn(m)' \cap live' = {}
        /\ \A u \in Thread : span'[u] \cap live' = {}
        /\ \A u \in Thread, m \in Node : span'[u] \cap CachedIn(m)' = {}
        /\ \A u, v \in Thread : u # v => span'[u] \cap span'[v] = {}
    BY <1>2, <1>6 DEF LInv, SpansConserved, blocks, calls
  <2>5. \A m, o \in Node, j, k \in Bin :
          <<m, j>> # <<o, k>> => bins'[m][j] \cap bins'[o][k] = {}
    BY <1>5 DEF LInv, SpansConserved
  <2>6. QED
    BY <2>3, <2>4, <2>5 DEF SpansConserved
<1>10. SpansAtHome'
  <2>1. \A m \in Node, i \in Bin : \A a \in bins'[m][i] :
          a \in bins[m][i] /\ a \in Span \ gone
    <3>1. ASSUME NEW m \in Node, NEW i \in Bin, NEW a \in bins'[m][i]
          PROVE  a \in bins[m][i] /\ a \in Span \ gone
      <4>1. m # n /\ a \in bins[m][i]
        BY <1>5, <3>1
      <4>2. a \in CachedIn(m) /\ a \in Span
        BY <4>1 DEF CachedIn, LInv, TypeOK
      <4>3. QED
        BY <1>4, <4>1, <4>2
    <3>2. QED
      BY <3>1
  <2>2. \A a \in live' : a \in live /\ a \in Span \ gone /\ header'[a] = header[a]
    BY <1>2, <1>4 DEF LInv, TypeOK, blocks
  <2>3. QED
    BY <1>7, <2>1, <2>2 DEF LInv, SpansAtHome
<1>11. SpanCoversRequest'
  <2>1. \A a \in live' : a \in live /\ a \in Span \ gone /\ need'[a] = need[a]
    BY <1>2, <1>4 DEF LInv, TypeOK, blocks
  <2>2. QED
    BY <1>7, <2>1 DEF LInv, SpanCoversRequest
<1>12. NothingLeftMapped'
  <2>1. ASSUME NEW s \in mapped', bound'[s] = n PROVE FALSE
    <3>1. s \in mapped /\ s \notin gone /\ bound[s] = n
      BY <1>2, <1>7, <2>1 DEF LInv, TypeOK
    <3>2. CASE s \in live
      BY <1>3, <3>1, <3>2 DEF LInv, SpansAtHome
    <3>3. CASE \E m \in Node : s \in CachedIn(m)
      <4>1. PICK m \in Node, i \in Bin : s \in bins[m][i]
        BY <3>3 DEF CachedIn
      <4>2. m = n
        BY <3>1, <4>1 DEF LInv, SpansAtHome
      <4>3. QED
        BY <1>1, <3>1, <4>1, <4>2 DEF CachedIn
    <3>4. CASE \E t \in Thread : s \in span[t]
      BY <1>3, <3>1, <3>4 DEF LInv, CallsAtHome
    <3>5. QED
      BY <3>1, <3>2, <3>3, <3>4 DEF LInv, SpansConserved
  <2>2. \A m \in Node : m # n /\ ~alive'[m] => \A s \in mapped' : bound'[s] # m
    BY <1>2, <1>7 DEF LInv, TypeOK, NothingLeftMapped
  <2>3. QED
    BY <2>1, <2>2 DEF NothingLeftMapped
<1>13. CallsAtHome'
  <2>1. \A t \in Thread : pc'[t] # "idle" => alive'[at'[t]]
    BY <1>2, <1>3, <1>7 DEF LInv, TypeOK, CallsAtHome, calls
  <2>2. \A t \in Thread : \A s \in span'[t] : bound'[s] = at'[t]
    BY <1>2, <1>4, <1>7 DEF LInv, TypeOK, CallsAtHome, calls
  <2>3. \A s \in live' : header'[s] \in Node /\ alive'[header'[s]]
    BY <1>2, <1>3, <1>7 DEF LInv, CallsAtHome, blocks
  <2>4. \A m \in Node : ~alive'[m] => CachedIn(m)' = {}
    BY <1>6, <1>7 DEF LInv, CallsAtHome
  <2>5. QED
    BY <1>2, <2>1, <2>2, <2>3, <2>4 DEF LInv, CallsAtHome, calls
<1>14. QED
  BY <1>8, <1>9, <1>10, <1>11, <1>12, <1>13 DEF LInv

-----------------------------------------------------------------------------

LEMMA NextLInv == LInv /\ [Next]_vars => LInv'
<1> SUFFICES ASSUME LInv, [Next]_vars PROVE LInv'
  OBVIOUS
<1>1. CASE UNCHANGED vars
  BY <1>1 DEF LInv, TypeOK, SpansConserved, SpansAtHome, SpanCoversRequest,
     NothingLeftMapped, CallsAtHome, CachedIn, vars, blocks, caches, calls
<1>2. CASE Next
  BY <1>2, TakeCachedLInv, MissLInv, MapLInv, MapFailsLInv, ReleaseToCacheLInv,
     RefuseLInv, UnmapLInv, DestroyLInv DEF Next
<1>3. QED
  BY <1>1, <1>2

LEMMA SpecLInv == Spec => []LInv
BY InitLInv, NextLInv, PTL DEF Spec

(***************************************************************************)
(* The allocators keep their shape.                                        *)
(***************************************************************************)
THEOREM TypeCorrect == Spec => []TypeOK
<1>1. LInv => TypeOK
  BY DEF LInv
<1>2. QED
  BY <1>1, SpecLInv, PTL

(***************************************************************************)
(* No span is under two blocks, cached while in use, unmapped while        *)
(* reachable, or lost.                                                     *)
(***************************************************************************)
THEOREM SpansAlwaysConserved == Spec => []SpansConserved
<1>1. LInv => SpansConserved
  BY DEF LInv
<1>2. QED
  BY <1>1, SpecLInv, PTL

(***************************************************************************)
(* A span comes back to the node it is bound to and the bin of its length. *)
(***************************************************************************)
THEOREM SpansAlwaysAtHome == Spec => []SpansAtHome
<1>1. LInv => SpansAtHome
  BY DEF LInv
<1>2. QED
  BY <1>1, SpecLInv, PTL

(***************************************************************************)
(* allocate_from_span always gets a span that covers its request, for any  *)
(* increasing table of class sizes and any search limit.                   *)
(***************************************************************************)
THEOREM RequestsAlwaysCovered == Spec => []SpanCoversRequest
<1>1. LInv => SpanCoversRequest
  BY DEF LInv
<1>2. QED
  BY <1>1, SpecLInv, PTL

(***************************************************************************)
(* A destroyed allocator leaves no span mapped.                            *)
(***************************************************************************)
THEOREM NothingEverLeft == Spec => []NothingLeftMapped
<1>1. LInv => NothingLeftMapped
  BY DEF LInv
<1>2. QED
  BY <1>1, SpecLInv, PTL

-----------------------------------------------------------------------------
(* The counters *)

\* What Counted needs: the cached spans and their pages can be counted.
Countable ==
  \A n \in Node : IsFiniteSet(CachedIn(n)) /\ IsFiniteSet(Pages(CachedIn(n), total))

Counted == CountersExact /\ Countable

(***************************************************************************)
(* A span more has its own pages, which no other span has.                 *)
(***************************************************************************)
LEMMA PagesWith ==
  ASSUME NEW S, NEW len, NEW s, s \notin S, len[s] \in Nat,
         IsFiniteSet(Pages(S, len))
  PROVE  /\ IsFiniteSet(Pages(S \cup {s}, len))
         /\ Cardinality(Pages(S \cup {s}, len)) = Cardinality(Pages(S, len)) + len[s]
<1>. DEFINE own == {s} \X (1 .. len[s])
<1>1. Pages(S \cup {s}, len) = Pages(S, len) \cup own
  BY DEF Pages
<1>2. Pages(S, len) \cap own = {}
  BY DEF Pages
<1>3. IsFiniteSet({s}) /\ Cardinality({s}) = 1
  BY FS_Singleton
<1>4. IsFiniteSet(1 .. len[s]) /\ Cardinality(1 .. len[s]) = len[s]
  BY FS_Interval
<1>5. IsFiniteSet(own) /\ Cardinality(own) = len[s]
  <2>1. /\ IsFiniteSet(own)
        /\ Cardinality(own) = Cardinality({s}) * Cardinality(1 .. len[s])
    BY <1>3, <1>4, FS_Product
  <2>2. Cardinality(own) = 1 * len[s]
    BY <1>3, <1>4, <2>1
  <2> HIDE DEF own
  <2>3. QED
    BY <2>1, <2>2
<1>6. Cardinality(Pages(S, len)) \in Nat
  BY FS_CardinalityType
<1> HIDE DEF own
<1>7. /\ IsFiniteSet(Pages(S, len) \cup own)
      /\ Cardinality(Pages(S, len) \cup own) =
           Cardinality(Pages(S, len)) + Cardinality(own)
             - Cardinality(Pages(S, len) \cap own)
  BY <1>5, FS_Union
<1>8. Cardinality(Pages(S, len) \cap own) = 0
  BY <1>2, FS_EmptySet
<1>9. Cardinality(Pages(S, len) \cup own) = Cardinality(Pages(S, len)) + len[s]
  BY <1>5, <1>6, <1>7, <1>8
<1>10. QED
  BY <1>1, <1>7, <1>9

LEMMA PagesWithout ==
  ASSUME NEW S, NEW len, NEW s \in S, len[s] \in Nat,
         IsFiniteSet(Pages(S, len))
  PROVE  /\ IsFiniteSet(Pages(S \ {s}, len))
         /\ Cardinality(Pages(S \ {s}, len)) = Cardinality(Pages(S, len)) - len[s]
<1>1. Pages(S \ {s}, len) \subseteq Pages(S, len)
  BY DEF Pages
<1>2. IsFiniteSet(Pages(S \ {s}, len)) /\ Cardinality(Pages(S \ {s}, len)) \in Nat
  BY <1>1, FS_Subset, FS_CardinalityType
<1>3. (S \ {s}) \cup {s} = S /\ s \notin S \ {s}
  OBVIOUS
<1>4. Cardinality(Pages((S \ {s}) \cup {s}, len)) =
        Cardinality(Pages(S \ {s}, len)) + len[s]
  BY <1>2, <1>3, PagesWith
<1>5. Cardinality(Pages(S, len)) = Cardinality(Pages(S \ {s}, len)) + len[s]
  BY <1>3, <1>4
<1>6. QED
  BY <1>2, <1>5

(***************************************************************************)
(* Lengths matter for the spans in the set only.                           *)
(***************************************************************************)
LEMMA SamePages ==
  ASSUME NEW S, NEW len, NEW other, \A s \in S : len[s] = other[s]
  PROVE  Pages(S, len) = Pages(S, other)
BY DEF Pages

LEMMA NoPages == ASSUME NEW len PROVE Pages({}, len) = {}
BY DEF Pages

LEMMA InitCounted == Init => Counted
<1> SUFFICES ASSUME Init PROVE Counted
  OBVIOUS
<1>1. \A n \in Node : CachedIn(n) = {}
  BY DEF Init, CachedIn
<1>2. IsFiniteSet({}) /\ Cardinality({}) = 0
  BY FS_EmptySet
<1>3. \A n \in Node : Pages(CachedIn(n), total) = {}
  BY <1>1, NoPages
<1>4. Countable
  BY <1>1, <1>2, <1>3 DEF Countable
<1>5. /\ \A n \in Node : cachedSpans[n] = 0 /\ cachedBytes[n] = 0
      /\ \A n \in Node, i \in Bin : bins[n][i] = {}
      /\ 0 <= MaxCachedSpans /\ 0 <= MaxCachedBytes /\ 0 <= MaxSpansPerLargeBin
  BY LargeObjectAssumption DEF Init
<1>7. CountersExact
  <2>1. \A n \in Node, i \in Bin : Cardinality(bins[n][i]) <= MaxSpansPerLargeBin
    BY <1>2, <1>5
  <2>2. QED
    BY <1>1, <1>2, <1>3, <1>5, <2>1 DEF CountersExact
<1>8. QED
  BY <1>4, <1>7 DEF Counted

(***************************************************************************)
(* A step that leaves the caches alone, and the lengths of cached spans.   *)
(***************************************************************************)
LEMMA CachesUnchanged ==
  ASSUME Counted, UNCHANGED caches,
         \A n \in Node : \A s \in CachedIn(n) : total'[s] = total[s]
  PROVE  Counted'
<1>1. \A n \in Node : CachedIn(n)' = CachedIn(n)
  BY DEF CachedIn, caches
<1>2. \A n \in Node : Pages(CachedIn(n), total') = Pages(CachedIn(n), total)
  BY SamePages
<1>3. \A n \in Node : Pages(CachedIn(n), total)' = Pages(CachedIn(n), total)
  BY <1>1, <1>2 DEF Pages
<1>4. QED
  BY <1>1, <1>3 DEF Counted, CountersExact, Countable, caches

(***************************************************************************)
(* acquire_span takes a span out of its bin.                               *)
(***************************************************************************)
LEMMA TakeCachedCounted ==
  ASSUME LInv, Counted, NEW t \in Thread, NEW n \in Node, NEW r \in Request,
         TakeCached(t, n, r)
  PROVE  Counted'
<1>0. PICK i \in Bin : \E s \in bins[n][i] :
        /\ bins' = [bins EXCEPT ![n][i] = @ \ {s}]
        /\ cachedSpans' = [cachedSpans EXCEPT ![n] = @ - 1]
        /\ cachedBytes' = [cachedBytes EXCEPT ![n] = @ - total[s]]
  <2>1. \A size : First({j \in Searched(size) : bins[n][j] # {}}) \subseteq Bin
    BY DEF First, Searched
  <2>2. QED
    BY <2>1 DEF TakeCached
<1>1. PICK s \in bins[n][i] :
        /\ bins' = [bins EXCEPT ![n][i] = @ \ {s}]
        /\ cachedSpans' = [cachedSpans EXCEPT ![n] = @ - 1]
        /\ cachedBytes' = [cachedBytes EXCEPT ![n] = @ - total[s]]
  BY <1>0
<1>2. s \in CachedIn(n) /\ s \in Span /\ total[s] \in Nat
  BY <1>1 DEF CachedIn, LInv, TypeOK
<1>3. total' = total
  BY DEF TakeCached
<1>4. /\ bins'[n][i] = bins[n][i] \ {s}
      /\ \A m \in Node, j \in Bin : <<m, j>> # <<n, i>> => bins'[m][j] = bins[m][j]
  BY <1>1 DEF LInv, TypeOK
<1>5. \A j \in Bin : j # i => s \notin bins[n][j]
  BY <1>1 DEF LInv, SpansConserved
<1>6. CachedIn(n)' = CachedIn(n) \ {s}
  BY <1>4, <1>5 DEF CachedIn
<1>7. \A m \in Node : m # n => CachedIn(m)' = CachedIn(m)
  BY <1>4 DEF CachedIn
<1>8. /\ IsFiniteSet(CachedIn(n)) /\ IsFiniteSet(Pages(CachedIn(n), total))
      /\ Cardinality(CachedIn(n)) \in Nat
  BY FS_CardinalityType DEF Counted, Countable
<1>9. /\ IsFiniteSet(CachedIn(n)')
      /\ Cardinality(CachedIn(n)') = Cardinality(CachedIn(n)) - 1
  BY <1>2, <1>6, <1>8, FS_RemoveElement
<1>10. /\ IsFiniteSet(Pages(CachedIn(n)', total))
       /\ Cardinality(Pages(CachedIn(n)', total)) =
            Cardinality(Pages(CachedIn(n), total)) - total[s]
  BY <1>2, <1>6, <1>8, PagesWithout
<1>11. \A j \in Bin : Cardinality(bins'[n][j]) <= MaxSpansPerLargeBin
  <2>1. ASSUME NEW j \in Bin PROVE Cardinality(bins'[n][j]) <= MaxSpansPerLargeBin
    <3>1. IsFiniteSet(bins[n][j]) /\ Cardinality(bins[n][j]) \in Nat
      BY <1>8, FS_Subset, FS_CardinalityType DEF CachedIn
    <3>2. bins'[n][j] \subseteq bins[n][j]
      BY <1>4
    <3>3. /\ Cardinality(bins'[n][j]) <= Cardinality(bins[n][j])
          /\ Cardinality(bins'[n][j]) \in Nat
      BY <3>1, <3>2, FS_Subset, FS_CardinalityType
    <3>4. Cardinality(bins[n][j]) <= MaxSpansPerLargeBin /\ MaxSpansPerLargeBin \in Nat
      BY LargeObjectAssumption DEF Counted, CountersExact
    <3>5. QED
      BY <3>1, <3>3, <3>4
  <2>2. QED
    BY <2>1
<1>12. /\ cachedSpans[n] \in Int /\ cachedBytes[n] \in Int
       /\ cachedSpans'[n] = cachedSpans[n] - 1
       /\ cachedBytes'[n] = cachedBytes[n] - total[s]
       /\ \A m \in Node : m # n => /\ cachedSpans'[m] = cachedSpans[m]
                                   /\ cachedBytes'[m] = cachedBytes[m]
  BY <1>1 DEF LInv, TypeOK
<1>13. /\ cachedSpans'[n] = Cardinality(CachedIn(n)')
       /\ cachedBytes'[n] = Cardinality(Pages(CachedIn(n)', total))
       /\ cachedSpans'[n] <= MaxCachedSpans
       /\ cachedBytes'[n] <= MaxCachedBytes
  BY <1>2, <1>9, <1>10, <1>12, LargeObjectAssumption DEF Counted, CountersExact
<1>14. QED
  BY <1>3, <1>4, <1>7, <1>9, <1>10, <1>11, <1>12, <1>13
     DEF Counted, CountersExact, Countable

(***************************************************************************)
(* release_to_cache puts a span into the bin of its length, if all three   *)
(* limits allow it.                                                        *)
(***************************************************************************)
LEMMA ReleaseToCacheCounted ==
  ASSUME LInv, Counted, NEW t \in Thread, NEW s \in live, ReleaseToCache(t, s)
  PROVE  Counted'
<1>1. PICK n \in Node : n = header[s]
  BY DEF LInv, CallsAtHome
<1>2. PICK i \in Bin :
        /\ Cacheable(n, i, s)
        /\ bins' = [bins EXCEPT ![n][i] = @ \cup {s}]
        /\ cachedSpans' = [cachedSpans EXCEPT ![n] = @ + 1]
        /\ cachedBytes' = [cachedBytes EXCEPT ![n] = @ + total[s]]
  BY <1>1 DEF ReleaseToCache
<1>3. s \notin CachedIn(n) /\ s \in Span /\ total[s] \in Nat /\ s \notin bins[n][i]
  BY DEF LInv, TypeOK, SpansConserved, CachedIn
<1>4. total' = total
  BY DEF ReleaseToCache
<1>5. /\ bins'[n][i] = bins[n][i] \cup {s}
      /\ \A m \in Node, j \in Bin : <<m, j>> # <<n, i>> => bins'[m][j] = bins[m][j]
  BY <1>2 DEF LInv, TypeOK
<1>6. CachedIn(n)' = CachedIn(n) \cup {s}
  BY <1>5 DEF CachedIn
<1>7. \A m \in Node : m # n => CachedIn(m)' = CachedIn(m)
  BY <1>5 DEF CachedIn
<1>8. /\ IsFiniteSet(CachedIn(n)) /\ IsFiniteSet(Pages(CachedIn(n), total))
      /\ Cardinality(CachedIn(n)) \in Nat
  BY FS_CardinalityType DEF Counted, Countable
<1>9. /\ IsFiniteSet(CachedIn(n)')
      /\ Cardinality(CachedIn(n)') = Cardinality(CachedIn(n)) + 1
  BY <1>3, <1>6, <1>8, FS_AddElement
<1>10. /\ IsFiniteSet(Pages(CachedIn(n)', total))
       /\ Cardinality(Pages(CachedIn(n)', total)) =
            Cardinality(Pages(CachedIn(n), total)) + total[s]
  BY <1>3, <1>6, <1>8, PagesWith
<1>11. \A j \in Bin : Cardinality(bins'[n][j]) <= MaxSpansPerLargeBin
  <2>1. bins[n][i] \subseteq CachedIn(n)
    BY DEF CachedIn
  <2>2. IsFiniteSet(bins[n][i]) /\ Cardinality(bins[n][i]) \in Nat
    BY <1>8, <2>1, FS_Subset, FS_CardinalityType
  <2>3. Cardinality(bins'[n][i]) = Cardinality(bins[n][i]) + 1
    BY <1>3, <1>5, <2>2, FS_AddElement
  <2>4. Cardinality(bins'[n][i]) <= MaxSpansPerLargeBin
    BY <1>2, <2>2, <2>3, LargeObjectAssumption DEF Cacheable
  <2>5. \A j \in Bin : j # i => bins'[n][j] = bins[n][j]
    BY <1>5
  <2>6. QED
    BY <2>4, <2>5 DEF Counted, CountersExact
<1>12. /\ cachedSpans[n] \in Int /\ cachedBytes[n] \in Int
       /\ cachedSpans'[n] = cachedSpans[n] + 1
       /\ cachedBytes'[n] = cachedBytes[n] + total[s]
       /\ \A m \in Node : m # n => /\ cachedSpans'[m] = cachedSpans[m]
                                   /\ cachedBytes'[m] = cachedBytes[m]
  BY <1>2 DEF LInv, TypeOK
<1>13. /\ cachedSpans'[n] = Cardinality(CachedIn(n)')
       /\ cachedBytes'[n] = Cardinality(Pages(CachedIn(n)', total))
       /\ cachedSpans'[n] <= MaxCachedSpans
       /\ cachedBytes'[n] <= MaxCachedBytes
  BY <1>2, <1>3, <1>9, <1>10, <1>12, LargeObjectAssumption
     DEF Cacheable, Counted, CountersExact
<1>14. QED
  BY <1>4, <1>5, <1>7, <1>9, <1>10, <1>11, <1>12, <1>13
     DEF Counted, CountersExact, Countable

LEMMA DestroyCounted ==
  ASSUME LInv, Counted, NEW n \in Node, Destroy(n)
  PROVE  Counted'
<1>1. /\ bins' = [bins EXCEPT ![n] = [i \in Bin |-> {}]]
      /\ cachedSpans' = [cachedSpans EXCEPT ![n] = 0]
      /\ cachedBytes' = [cachedBytes EXCEPT ![n] = 0]
      /\ total' = [s \in Span |-> IF s \in CachedIn(n) THEN 0 ELSE total[s]]
  BY DEF Destroy, Release
<1>2. /\ \A i \in Bin : bins'[n][i] = {}
      /\ \A m \in Node : m # n => bins'[m] = bins[m]
      /\ cachedSpans'[n] = 0 /\ cachedBytes'[n] = 0
      /\ \A m \in Node : m # n => /\ cachedSpans'[m] = cachedSpans[m]
                                  /\ cachedBytes'[m] = cachedBytes[m]
  BY <1>1 DEF LInv, TypeOK
<1>3. CachedIn(n)' = {} /\ \A m \in Node : m # n => CachedIn(m)' = CachedIn(m)
  BY <1>2 DEF CachedIn
<1>4. IsFiniteSet({}) /\ Cardinality({}) = 0 /\ Pages({}, total') = {}
  BY FS_EmptySet, NoPages
<1>5. ASSUME NEW m \in Node, m # n
      PROVE  Pages(CachedIn(m)', total') = Pages(CachedIn(m), total)
  <2>1. \A s \in CachedIn(m) : s \in Span /\ s \notin CachedIn(n)
    BY <1>5 DEF LInv, TypeOK, SpansConserved, CachedIn
  <2>2. \A s \in CachedIn(m) : total'[s] = total[s]
    BY <1>1, <2>1
  <2>3. QED
    BY <1>3, <1>5, <2>2, SamePages
<1>6. 0 <= MaxCachedSpans /\ 0 <= MaxCachedBytes /\ 0 <= MaxSpansPerLargeBin
  BY LargeObjectAssumption
<1>7. /\ IsFiniteSet(CachedIn(n)') /\ IsFiniteSet(Pages(CachedIn(n)', total'))
      /\ cachedSpans'[n] = Cardinality(CachedIn(n)')
      /\ cachedBytes'[n] = Cardinality(Pages(CachedIn(n)', total'))
      /\ cachedSpans'[n] <= MaxCachedSpans
      /\ cachedBytes'[n] <= MaxCachedBytes
  <2>1. Pages(CachedIn(n)', total') = {}
    BY <1>3, NoPages
  <2>2. QED
    BY <1>2, <1>3, <1>4, <1>6, <2>1
<1>8. \A i \in Bin : Cardinality(bins'[n][i]) <= MaxSpansPerLargeBin
  <2>1. \A i \in Bin : Cardinality(bins'[n][i]) = 0
    BY <1>2, <1>4
  <2>2. QED
    BY <1>6, <2>1
<1>9. ASSUME NEW m \in Node, m # n
      PROVE  /\ IsFiniteSet(CachedIn(m)') /\ IsFiniteSet(Pages(CachedIn(m)', total'))
             /\ cachedSpans'[m] = Cardinality(CachedIn(m)')
             /\ cachedBytes'[m] = Cardinality(Pages(CachedIn(m)', total'))
             /\ cachedSpans'[m] <= MaxCachedSpans
             /\ cachedBytes'[m] <= MaxCachedBytes
             /\ \A i \in Bin : Cardinality(bins'[m][i]) <= MaxSpansPerLargeBin
  BY <1>2, <1>3, <1>5, <1>9 DEF Counted, CountersExact, Countable
<1>10. Countable'
  BY <1>7, <1>9 DEF Countable
<1>11. CountersExact'
  BY <1>7, <1>8, <1>9 DEF CountersExact
<1>12. QED
  BY <1>10, <1>11 DEF Counted

(***************************************************************************)
(* Spans are mapped and unmapped outside the caches: their lengths are     *)
(* those of spans that no bin has.                                         *)
(***************************************************************************)
LEMMA NextCounted == LInv /\ Counted /\ [Next]_vars => Counted'
<1> SUFFICES ASSUME LInv, Counted, [Next]_vars PROVE Counted'
  OBVIOUS
<1>1. CASE UNCHANGED vars
  BY <1>1, CachesUnchanged DEF vars
<1>2. ASSUME NEW t \in Thread, NEW n \in Node, NEW r \in Request, Miss(t, n, r)
      PROVE  Counted'
  BY <1>2, CachesUnchanged DEF Miss
<1>3. ASSUME NEW t \in Thread, Map(t) PROVE Counted'
  <2>1. PICK s \in Span \ mapped : \E size : total' = [total EXCEPT ![s] = size]
    BY <1>3 DEF Map
  <2>2. \A n \in Node : \A a \in CachedIn(n) : a # s /\ a \in Span
    BY <2>1 DEF LInv, TypeOK, SpansConserved, CachedIn
  <2>3. \A n \in Node : \A a \in CachedIn(n) : total'[a] = total[a]
    BY <2>1, <2>2 DEF LInv, TypeOK
  <2>4. UNCHANGED caches
    BY <1>3 DEF Map
  <2>5. QED
    BY <2>3, <2>4, CachesUnchanged
<1>4. ASSUME NEW t \in Thread, MapFails(t) PROVE Counted'
  BY <1>4, CachesUnchanged DEF MapFails
<1>5. ASSUME NEW t \in Thread, NEW s \in live, Refuse(t, s) PROVE Counted'
  BY <1>5, CachesUnchanged DEF Refuse
<1>6. ASSUME NEW t \in Thread, Unmap(t) PROVE Counted'
  <2>1. total' = [s \in Span |-> IF s \in span[t] THEN 0 ELSE total[s]]
    BY <1>6 DEF Unmap, Release
  <2>2. \A n \in Node : \A a \in CachedIn(n) : a \notin span[t] /\ a \in Span
    BY DEF LInv, TypeOK, SpansConserved, CachedIn
  <2>3. UNCHANGED caches
    BY <1>6 DEF Unmap
  <2>4. QED
    BY <2>1, <2>2, <2>3, CachesUnchanged
<1>7. QED
  BY <1>1, <1>2, <1>3, <1>4, <1>5, <1>6, TakeCachedCounted,
     ReleaseToCacheCounted, DestroyCounted DEF Next

(***************************************************************************)
(* The counters of the span caches tell the truth, and their limits hold.  *)
(***************************************************************************)
THEOREM CountersAlwaysExact == Spec => []CountersExact
<1>1. Init => LInv /\ Counted
  BY InitLInv, InitCounted
<1>2. (LInv /\ Counted) /\ [Next]_vars => (LInv /\ Counted)'
  BY NextLInv, NextCounted
<1>3. LInv /\ Counted => CountersExact
  BY DEF Counted
<1>4. QED
  BY <1>1, <1>2, <1>3, PTL DEF Spec
=============================================================================
