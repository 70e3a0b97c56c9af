----------------------- MODULE ThreadLocalCacheProofs -----------------------
(***************************************************************************)
(* The caches in front of the arenas, for any nodes, classes, threads and  *)
(* limits.  The invariant is that of the arenas together with              *)
(* CachedBlocksLocal: a cached block is out and has a header that names    *)
(* the node of its cache, which is what makes a flush a legal free and an  *)
(* empty owner (cache_ null) one without blocks.                           *)
(***************************************************************************)
EXTENDS ThreadLocalCache, NumaArenaProofs

CInv == IInv /\ CacheTypeOK /\ CachedBlocksLocal

(***************************************************************************)
(* What a thread does inside an arena leaves alone the blocks outside it   *)
(* and their headers.                                                      *)
(***************************************************************************)
LEMMA HandOutKeepsOut ==
  ASSUME IInv, NEW t \in Thread, NEW P, NEW b, b \notin Held, HandOut(t, P, b)
  PROVE  \A a \in out : a \in out' /\ hdr'[a] = hdr[a]
<1>1. out' = out \cup {b} /\ hdr' = [hdr EXCEPT ![b] = at[t]]
  BY DEF HandOut
<1>2. out \subseteq Held /\ out \subseteq Block
  BY DEF Held, IInv, TypeOK
<1>3. hdr \in [Block -> Key \cup {NoKey}]
  BY DEF IInv, TypeOK
<1>4. QED
  BY <1>1, <1>2, <1>3

LEMMA StepKeepsOut ==
  ASSUME IInv, NEW t \in Thread, Step(t)
  PROVE  \A a \in out : a \in out' /\ hdr'[a] = hdr[a]
<1>1. CASE TakeExisting(t)
  <2>1. PICK b \in Available(pool[at[t]]) : HandOut(t, pool[at[t]], b)
    BY <1>1 DEF TakeExisting
  <2>2. at[t] \in Key
    BY <1>1 DEF TakeExisting, IInv, TypeOK
  <2>3. b \notin Held
    BY <2>1, <2>2 DEF Available, IInv, Ledger
  <2>4. QED
    BY <2>1, <2>3, HandOutKeepsOut
<1>2. CASE Grow(t)
  <2>1. PICK s \in Slab \ Mapped :
          \E b \in BlocksOf(s) : HandOut(t, AddSlab(pool[at[t]], s), b)
    BY <1>2 DEF Grow
  <2>2. PICK b \in BlocksOf(s) : HandOut(t, AddSlab(pool[at[t]], s), b)
    BY <2>1
  <2>3. SlabOf(b) \notin Mapped
    BY <2>1 DEF BlocksOf, SlabOf
  <2>4. b \notin Held
    BY <2>3 DEF IInv, RoutesHome, Mapped
  <2>5. QED
    BY <2>2, <2>4, HandOutKeepsOut
<1>3. CASE FreeDrained(t) \/ Free(t)
  <2>1. FreeBatch(t)
    BY <1>3 DEF FreeDrained, Free
  <2>2. batch[t] \cap out = {} /\ out \subseteq Block
    BY DEF IInv, HeldOnce, TypeOK
  <2>3. QED
    BY <2>1, <2>2 DEF FreeBatch
<1>4. CASE \/ Miss(t) \/ MapFails(t) \/ PushBackFails(t)
           \/ Drain(t) \/ SubForeign(t) \/ Enqueue(t)
  BY <1>4 DEF Miss, MapFails, PushBackFails, Drain, SubForeign, Enqueue
<1>5. QED
  BY <1>1, <1>2, <1>3, <1>4 DEF Step

(***************************************************************************)
(* A thread whose cache holds a block has a cache on some node.            *)
(***************************************************************************)
LEMMA CachedOnNode ==
  ASSUME CInv, NEW t \in Thread, NEW c \in Class, cached[t][c] # {}
  PROVE  node[t] \in Node
<1>1. PICK b \in cached[t][c] : b \in out /\ hdr[b] = <<node[t], c>>
  BY DEF CInv, CachedBlocksLocal
<1>2. hdr[b] \in Key
  BY <1>1 DEF CInv, IInv, RoutesHome, Held
<1>3. QED
  BY <1>1, <1>2 DEF Key

LEMMA HomeIsNode ==
  ASSUME CInv, NEW t \in Thread
  PROVE  Home(t) \in Node
BY DEF Home, CInv, CacheTypeOK

(***************************************************************************)
(* Seen from the arenas, the threads and caches only make legal calls.     *)
(***************************************************************************)
LEMMA CacheNextIsNext == CInv /\ [CacheNext]_allVars => [Next]_vars
<1> SUFFICES ASSUME CInv, [CacheNext]_allVars PROVE [Next]_vars
  OBVIOUS
<1>1. ASSUME NEW t \in Thread, NEW c \in Class, AllocateFromArena(t, c) PROVE Next
  <2>1. <<Home(t), c>> \in Key
    BY HomeIsNode DEF Key
  <2>2. QED
    BY <1>1, <2>1 DEF AllocateFromArena, Next
<1>2. ASSUME NEW t \in Thread, NEW b \in InUse, DeallocateToArena(t, b) PROVE Next
  BY <1>2, HomeIsNode DEF DeallocateToArena, InUse, Next
<1>3. ASSUME NEW t \in Thread, Flush(t) PROVE Next
  <2>1. PICK c \in Class : \E b \in cached[t][c] : CallDeallocate(t, node[t], b)
    BY <1>3 DEF Flush
  <2>2. PICK b \in cached[t][c] : CallDeallocate(t, node[t], b)
    BY <2>1
  <2>3. node[t] \in Node /\ b \in out
    BY CachedOnNode DEF CInv, CachedBlocksLocal
  <2>4. QED
    BY <2>2, <2>3 DEF Next
<1>4. ASSUME NEW t \in Thread, Step(t) PROVE Next
  BY <1>4 DEF Next
<1>5. ASSUME NEW t \in Thread,
             \/ \E c \in Class : AllocateCached(t, c)
             \/ \E b \in InUse : DeallocateToCache(t, b)
             \/ \E u \in BOOLEAN : Configure(t, u)
             \/ ConfigureSameNode(t) \/ ConfigureOtherNode(t)
             \/ CreateReplacement(t) \/ CreateFails(t)
             \/ InstallReplacement(t) \/ Exit(t) \/ Exited(t)
             \/ \E n \in Node : Migrate(t, n)
      PROVE UNCHANGED vars
  BY <1>5 DEF AllocateCached, DeallocateToCache, Configure, ConfigureSameNode,
     ConfigureOtherNode, CreateReplacement, CreateFails, InstallReplacement,
     Exit, Exited, Migrate
<1>6. QED
  BY <1>1, <1>2, <1>3, <1>4, <1>5 DEF CacheNext, CacheStep, allVars

-----------------------------------------------------------------------------

(***************************************************************************)
(* CachedBlocksLocal survives a step that only takes blocks out of caches, *)
(* keeps the cached ones as they are, and changes the node of a thread     *)
(* only while its cache is empty.                                          *)
(***************************************************************************)
LEMMA LocalKept ==
  ASSUME CachedBlocksLocal,
         \A t \in Thread, c \in Class : cached'[t][c] \subseteq cached[t][c],
         \A t \in Thread, c \in Class : \A b \in cached'[t][c] :
           node'[t] = node[t] /\ b \in out' /\ hdr'[b] = hdr[b]
  PROVE  CachedBlocksLocal'
<1>1. \A t \in Thread, c \in Class : \A b \in cached'[t][c] :
        b \in out' /\ hdr'[b] = <<node'[t], c>>
  BY DEF CachedBlocksLocal
<1>2. \A t \in Thread : CachedBy(t)' \subseteq CachedBy(t)
  BY DEF CachedBy
<1>3. QED
  BY <1>1, <1>2 DEF CachedBlocksLocal

(***************************************************************************)
(* current() creates a cache only for a thread that has no block cached.   *)
(***************************************************************************)
LEMMA CurrentKeepsNode ==
  ASSUME CInv, NEW u \in Thread, Current(u)
  PROVE  \A t \in Thread, c \in Class : cached[t][c] # {} => node'[t] = node[t]
<1>1. \A t \in Thread, c \in Class : cached[t][c] # {} => node[t] \in Node
  BY CachedOnNode
<1>2. node' = [node EXCEPT ![u] = Home(u)]
  BY DEF Current
<1>3. node[u] \in Node => Home(u) = node[u]
  BY ThreadLocalCacheAssumption DEF Home
<1>4. node \in [Thread -> Node \cup {NoNode}]
  BY DEF CInv, CacheTypeOK
<1>5. QED
  BY <1>1, <1>2, <1>3, <1>4

LEMMA CacheTypeKept == CInv /\ [CacheNext]_allVars => CacheTypeOK'
<1> SUFFICES ASSUME CInv, [CacheNext]_allVars PROVE CacheTypeOK'
  OBVIOUS
<1>1. CacheTypeOK
  BY DEF CInv
<1>2. ASSUME NEW t \in Thread, Current(t), cached' = cached
      PROVE  CacheTypeOK'
  BY <1>1, <1>2, ThreadLocalCacheAssumption DEF CacheTypeOK, Current, Home, Uses
<1>3. ASSUME NEW t \in Thread, NEW c \in Class, AllocateCached(t, c)
      PROVE  CacheTypeOK'
  <2>1. cached' \in [Thread -> [Class -> SUBSET Block]]
    BY <1>1, <1>3 DEF AllocateCached, CacheTypeOK
  <2>2. QED
    BY <1>1, <1>3, <2>1, ThreadLocalCacheAssumption
       DEF AllocateCached, CacheTypeOK, Current, Home, Uses
<1>4. ASSUME NEW t \in Thread, NEW b \in InUse, DeallocateToCache(t, b)
      PROVE  CacheTypeOK'
  <2> DEFINE c == hdr[b][2]
  <2>1. b \in Block /\ c \in Class
    BY DEF InUse, CInv, IInv, TypeOK, RoutesHome, Held, Key
  <2>2. cached' = [cached EXCEPT ![t][c] = @ \cup {b}]
    BY <1>4 DEF DeallocateToCache
  <2> HIDE DEF c
  <2>3. cached' \in [Thread -> [Class -> SUBSET Block]]
    BY <1>1, <2>1, <2>2 DEF CacheTypeOK
  <2>4. QED
    BY <1>1, <1>4, <2>3, ThreadLocalCacheAssumption
       DEF DeallocateToCache, CacheTypeOK, Current, Home, Uses
<1>5. ASSUME NEW t \in Thread, \E c \in Class : AllocateFromArena(t, c)
      PROVE  CacheTypeOK'
  BY <1>2, <1>5 DEF AllocateFromArena
<1>6. ASSUME NEW t \in Thread, \E b \in InUse : DeallocateToArena(t, b)
      PROVE  CacheTypeOK'
  BY <1>2, <1>6 DEF DeallocateToArena
<1>7. ASSUME NEW t \in Thread, NEW u \in BOOLEAN, Configure(t, u)
      PROVE  CacheTypeOK'
  <2>1. /\ phase[t] = "run"
        /\ phase' = [phase EXCEPT ![t] = "configure"]
        /\ next' = next /\ cpu' = cpu /\ cached' = cached
        /\ wanted' = [wanted EXCEPT ![t] = u]
    BY <1>7 DEF Configure, Ready, Turn
  <2>2. CASE node[t] = NoNode
    <3>1. node' = [node EXCEPT ![t] = cpu[t]] /\ use' = [use EXCEPT ![t] = u]
      BY <1>7, <2>2 DEF Configure
    <3>2. QED
      BY <1>1, <2>1, <3>1, ThreadLocalCacheAssumption DEF CacheTypeOK, Phase
  <2>3. CASE node[t] # NoNode
    <3>1. node' = node /\ use' = use
      BY <1>7, <2>3 DEF Configure
    <3>2. QED
      BY <1>1, <2>1, <2>3, <3>1 DEF CacheTypeOK, Phase
  <2>4. QED
    BY <2>2, <2>3
<1>8. ASSUME NEW t \in Thread,
             \/ ConfigureSameNode(t) \/ ConfigureOtherNode(t) \/ CreateReplacement(t)
      PROVE  CacheTypeOK'
  <2>1. CASE ConfigureSameNode(t)
    BY <1>1, <2>1 DEF ConfigureSameNode, CacheTypeOK, Turn, Phase
  <2>2. CASE ConfigureOtherNode(t)
    BY <1>1, <2>2 DEF ConfigureOtherNode, CacheTypeOK, Turn, Phase
  <2>3. CASE CreateReplacement(t)
    BY <1>1, <2>3, ThreadLocalCacheAssumption
       DEF CreateReplacement, CacheTypeOK, Turn, Phase
  <2>4. QED
    BY <1>8, <2>1, <2>2, <2>3
<1>9. ASSUME NEW t \in Thread,
             CreateFails(t) \/ InstallReplacement(t) \/ Exit(t) \/ Exited(t)
      PROVE  CacheTypeOK'
  BY <1>1, <1>9 DEF CreateFails, InstallReplacement, Exit, Exited, Ready,
     CacheTypeOK, Turn, Phase
<1>10. ASSUME NEW t \in Thread, Flush(t) PROVE CacheTypeOK'
  <2>1. PICK c \in Class : \E b \in cached[t][c] :
          cached' = [cached EXCEPT ![t][c] = @ \ {b}]
    BY <1>10 DEF Flush
  <2>2. cached' \in [Thread -> [Class -> SUBSET Block]]
    BY <1>1, <2>1 DEF CacheTypeOK
  <2>3. QED
    BY <1>1, <1>10, <2>2 DEF Flush, CacheTypeOK
<1>11. ASSUME NEW t \in Thread, NEW n \in Node, Migrate(t, n)
       PROVE  CacheTypeOK'
  BY <1>1, <1>11 DEF Migrate, CacheTypeOK
<1>12. ASSUME UNCHANGED cacheVars PROVE CacheTypeOK'
  BY <1>1, <1>12 DEF CacheTypeOK, cacheVars
<1>13. QED
  BY <1>3, <1>4, <1>5, <1>6, <1>7, <1>8, <1>9, <1>10, <1>11, <1>12
     DEF CacheNext, CacheStep, allVars

LEMMA LocalAlways == CInv /\ [CacheNext]_allVars => CachedBlocksLocal'
<1> SUFFICES ASSUME CInv, [CacheNext]_allVars PROVE CachedBlocksLocal'
  OBVIOUS
<1>1. /\ CachedBlocksLocal
      /\ cached \in [Thread -> [Class -> SUBSET Block]]
      /\ \A t \in Thread, c \in Class : \A b \in cached[t][c] : b \in out
  BY DEF CInv, CacheTypeOK, CachedBlocksLocal
<1>2. ASSUME NEW t \in Thread, NEW c \in Class, AllocateCached(t, c)
      PROVE  CachedBlocksLocal'
  <2>1. PICK b \in cached[t][c] : cached' = [cached EXCEPT ![t][c] = @ \ {b}]
    BY <1>2 DEF AllocateCached
  <2>2. \A u \in Thread, d \in Class : cached'[u][d] \subseteq cached[u][d]
    BY <1>1, <2>1
  <2>3. out' = out /\ hdr' = hdr
    BY <1>2 DEF AllocateCached, vars
  <2>4. \A u \in Thread, d \in Class : cached[u][d] # {} => node'[u] = node[u]
    BY <1>2, CurrentKeepsNode DEF AllocateCached
  <2>5. QED
    BY <1>1, <2>2, <2>3, <2>4, LocalKept
<1>3. ASSUME NEW t \in Thread, NEW c \in Class, AllocateFromArena(t, c)
      PROVE  CachedBlocksLocal'
  <2>1. cached' = cached /\ out' = out /\ hdr' = hdr
    BY <1>3 DEF AllocateFromArena, CallAllocate
  <2>2. \A u \in Thread, d \in Class : cached[u][d] # {} => node'[u] = node[u]
    BY <1>3, CurrentKeepsNode DEF AllocateFromArena
  <2>3. QED
    BY <1>1, <2>1, <2>2, LocalKept
<1>4. ASSUME NEW t \in Thread, NEW b \in InUse, DeallocateToCache(t, b)
      PROVE  CachedBlocksLocal'
  <2> DEFINE c == hdr[b][2]
  <2>1. b \in out /\ \A u \in Thread : b \notin CachedBy(u)
    BY DEF InUse
  <2>2. hdr[b] \in Key
    BY <2>1 DEF CInv, IInv, RoutesHome, Held
  <2>3. hdr[b] = <<Home(t), c>> /\ c \in Class
    BY <1>4, <2>2 DEF DeallocateToCache, Cacheable, NodeOf, Key
  <2>4. /\ cached' = [cached EXCEPT ![t][c] = @ \cup {b}]
        /\ out' = out /\ hdr' = hdr
        /\ node' = [node EXCEPT ![t] = Home(t)]
    BY <1>4 DEF DeallocateToCache, Current, vars
  <2> HIDE DEF c
  <2>5. /\ cached'[t][c] = cached[t][c] \cup {b}
        /\ \A u \in Thread, d \in Class :
             u # t \/ d # c => cached'[u][d] = cached[u][d]
    BY <1>1, <2>3, <2>4
  <2>6. /\ node'[t] = Home(t)
        /\ \A u \in Thread, d \in Class : cached[u][d] # {} => node'[u] = node[u]
    <3>1. Current(t)
      BY <1>4 DEF DeallocateToCache
    <3>2. node \in [Thread -> Node \cup {NoNode}]
      BY DEF CInv, CacheTypeOK
    <3>3. QED
      BY <2>4, <3>1, <3>2, CurrentKeepsNode
  <2>7. ASSUME NEW u \in Thread, NEW d \in Class, NEW a \in cached'[u][d]
        PROVE  a \in out' /\ hdr'[a] = <<node'[u], d>>
    <3>1. CASE a \in cached[u][d]
      BY <1>1, <2>4, <2>6, <3>1 DEF CachedBlocksLocal
    <3>2. CASE a \notin cached[u][d]
      <4>1. u = t /\ d = c /\ a = b
        BY <2>5, <2>7, <3>2
      <4>2. QED
        BY <2>1, <2>3, <2>4, <2>6, <4>1
    <3>3. QED
      BY <3>1, <3>2
  <2>8. /\ CachedBy(t)' \subseteq CachedBy(t) \cup {b}
        /\ \A u \in Thread : u # t => CachedBy(u)' \subseteq CachedBy(u)
    BY <2>5 DEF CachedBy
  <2>9. \A u, w \in Thread : u # w => CachedBy(u)' \cap CachedBy(w)' = {}
    BY <1>1, <2>1, <2>8 DEF CachedBlocksLocal
  <2>10. QED
    BY <2>7, <2>9 DEF CachedBlocksLocal
<1>5. ASSUME NEW t \in Thread, NEW b \in InUse, DeallocateToArena(t, b)
      PROVE  CachedBlocksLocal'
  <2>1. cached' = cached /\ out' = out \ {b} /\ hdr' = hdr
    BY <1>5 DEF DeallocateToArena, CallDeallocate
  <2>2. \A u \in Thread, d \in Class : b \notin cached[u][d]
    BY DEF InUse, CachedBy
  <2>3. \A u \in Thread, d \in Class : cached[u][d] # {} => node'[u] = node[u]
    BY <1>5, CurrentKeepsNode DEF DeallocateToArena
  <2>4. QED
    BY <1>1, <2>1, <2>2, <2>3, LocalKept
<1>6. ASSUME NEW t \in Thread, NEW u \in BOOLEAN, Configure(t, u)
      PROVE  CachedBlocksLocal'
  <2>1. cached' = cached /\ out' = out /\ hdr' = hdr
    BY <1>6 DEF Configure, vars
  <2>2. \A v \in Thread, d \in Class : cached[v][d] # {} => node[v] \in Node
    BY CachedOnNode
  <2>3. \A v \in Thread, d \in Class : cached[v][d] # {} => node'[v] = node[v]
    BY <1>6, <2>2, ThreadLocalCacheAssumption DEF Configure, CInv, CacheTypeOK
  <2>4. QED
    BY <1>1, <2>1, <2>3, LocalKept
<1>7. ASSUME NEW t \in Thread,
             \/ ConfigureSameNode(t) \/ ConfigureOtherNode(t) \/ CreateReplacement(t)
             \/ CreateFails(t) \/ Exit(t) \/ \E n \in Node : Migrate(t, n)
      PROVE  CachedBlocksLocal'
  <2>1. cached' = cached /\ out' = out /\ hdr' = hdr /\ node' = node
    BY <1>7 DEF ConfigureSameNode, ConfigureOtherNode, CreateReplacement,
       CreateFails, Exit, Migrate, vars
  <2>2. QED
    BY <1>1, <2>1, LocalKept
<1>8. ASSUME NEW t \in Thread, InstallReplacement(t) \/ Exited(t)
      PROVE  CachedBlocksLocal'
  <2>1. /\ cached' = cached /\ out' = out /\ hdr' = hdr
        /\ CachedBy(t) = {}
        /\ \E n : node' = [node EXCEPT ![t] = n]
    BY <1>8 DEF InstallReplacement, Exited, Flushed, vars
  <2>2. \A c \in Class : cached[t][c] = {}
    BY <2>1 DEF CachedBy
  <2>3. \A u \in Thread : u # t => node'[u] = node[u]
    BY <2>1 DEF CInv, CacheTypeOK
  <2>4. QED
    BY <1>1, <2>1, <2>2, <2>3, LocalKept
<1>9. ASSUME NEW t \in Thread, Flush(t) PROVE CachedBlocksLocal'
  <2>1. PICK c \in Class : \E b \in cached[t][c] :
          /\ cached' = [cached EXCEPT ![t][c] = @ \ {b}]
          /\ CallDeallocate(t, node[t], b)
    BY <1>9 DEF Flush
  <2>2. PICK b \in cached[t][c] :
          /\ cached' = [cached EXCEPT ![t][c] = @ \ {b}]
          /\ CallDeallocate(t, node[t], b)
    BY <2>1
  <2>3. out' = out \ {b} /\ hdr' = hdr /\ node' = node
    BY <1>9, <2>2 DEF Flush, CallDeallocate
  <2>4. \A u \in Thread, d \in Class : cached'[u][d] \subseteq cached[u][d]
    BY <1>1, <2>2
  <2>5. hdr[b] = <<node[t], c>> /\ b \in CachedBy(t)
    BY <1>1, <2>2 DEF CachedBlocksLocal, CachedBy
  <2>6. \A u \in Thread, d \in Class : b \notin cached'[u][d]
    <3>1. ASSUME NEW u \in Thread, NEW d \in Class, b \in cached'[u][d] PROVE FALSE
      <4>1. b \in cached[u][d] /\ b \in CachedBy(u)
        BY <2>4, <3>1 DEF CachedBy
      <4>2. u = t /\ d = c
        BY <1>1, <2>5, <4>1 DEF CachedBlocksLocal
      <4>3. QED
        BY <1>1, <2>2, <3>1, <4>2
    <3>2. QED
      BY <3>1
  <2>7. QED
    BY <1>1, <2>3, <2>4, <2>6, LocalKept
<1>10. ASSUME NEW t \in Thread, Step(t), UNCHANGED cacheVars
       PROVE  CachedBlocksLocal'
  <2>1. cached' = cached /\ node' = node
    BY <1>10 DEF cacheVars
  <2>2. \A a \in out : a \in out' /\ hdr'[a] = hdr[a]
    BY <1>10, StepKeepsOut DEF CInv
  <2>3. QED
    BY <1>1, <2>1, <2>2, LocalKept
<1>11. ASSUME UNCHANGED allVars PROVE CachedBlocksLocal'
  <2>1. cached' = cached /\ node' = node /\ out' = out /\ hdr' = hdr
    BY <1>11 DEF allVars, cacheVars, vars
  <2>2. QED
    BY <1>1, <2>1, LocalKept
<1>12. QED
  BY <1>2, <1>3, <1>4, <1>5, <1>6, <1>7, <1>8, <1>9, <1>10, <1>11
     DEF CacheNext, CacheStep

LEMMA InitCInv == CacheInit => CInv
<1> SUFFICES ASSUME CacheInit PROVE CInv
  OBVIOUS
<1>1. IInv
  BY InitIInv DEF CacheInit
<1>2. CacheTypeOK
  BY DEF CacheInit, CacheTypeOK, Phase
<1>3. \A t \in Thread, c \in Class : cached[t][c] = {}
  BY DEF CacheInit
<1>4. CachedBlocksLocal
  BY <1>3 DEF CachedBlocksLocal, CachedBy
<1>5. QED
  BY <1>1, <1>2, <1>4 DEF CInv

LEMMA NextCInv == CInv /\ [CacheNext]_allVars => CInv'
BY NextIInv, CacheNextIsNext, CacheTypeKept, LocalAlways DEF CInv

LEMMA SpecCInv == CacheSpec => []CInv
BY InitCInv, NextCInv, PTL DEF CacheSpec

-----------------------------------------------------------------------------

(***************************************************************************)
(* Contexts, caches and the steps of configure() and of the destructor     *)
(* keep their shape.                                                       *)
(***************************************************************************)
THEOREM CacheTypeCorrect == CacheSpec => []CacheTypeOK
<1>1. CInv => CacheTypeOK
  BY DEF CInv
<1>2. QED
  BY <1>1, SpecCInv, PTL

(***************************************************************************)
(* A cached block is always local to its cache and in no other, whatever   *)
(* migrations, reconfigurations and foreign frees there are.               *)
(***************************************************************************)
THEOREM CachedAlwaysLocal == CacheSpec => []CachedBlocksLocal
<1>1. CInv => CachedBlocksLocal
  BY DEF CInv
<1>2. QED
  BY <1>1, SpecCInv, PTL

(***************************************************************************)
(* A bin of a cache grows only by a block that fits under the limit.       *)
(***************************************************************************)
LEMMA BoundedKept ==
  ASSUME CInv, CacheBounded, CacheTypeOK',
         \A t \in Thread, c \in Class : cached'[t][c] \subseteq cached[t][c]
  PROVE  CacheBounded'
<1> SUFFICES ASSUME NEW t \in Thread, NEW c \in Class
             PROVE  Cardinality(cached'[t][c]) * ClassSize[c] <= MaxCachedBytes[c]
  BY DEF CacheBounded
<1> DEFINE m == Cardinality(cached'[t][c])
           n == Cardinality(cached[t][c])
<1>1. cached[t][c] \in SUBSET Block /\ cached'[t][c] \in SUBSET Block
  BY DEF CInv, CacheTypeOK
<1>2. IsFiniteSet(Block)
  <2>1. IsFiniteSet(Slab) /\ IsFiniteSet(Index)
    BY SlabsAssumption, FS_Interval DEF Index
  <2>2. QED
    BY <2>1, FS_Product DEF Block
<1>3. IsFiniteSet(cached[t][c])
  BY <1>1, <1>2, FS_Subset
<1>4. m <= n /\ m \in Nat /\ n \in Nat
  BY <1>1, <1>3, FiniteBatch, FS_Subset
<1>5. n * ClassSize[c] <= MaxCachedBytes[c]
  BY DEF CacheBounded
<1>6. ClassSize[c] \in Nat /\ MaxCachedBytes[c] \in Nat
  BY NumaArenaAssumption
<1> HIDE DEF m, n
<1>7. m * ClassSize[c] <= n * ClassSize[c]
  BY <1>4, <1>6
<1>8. m * ClassSize[c] \in Nat /\ n * ClassSize[c] \in Nat
  BY <1>4, <1>6
<1>9. QED
  BY <1>5, <1>6, <1>7, <1>8 DEF m

LEMMA NextBounded ==
  CInv /\ CacheBounded /\ CacheTypeOK' /\ [CacheNext]_allVars => CacheBounded'
<1> SUFFICES ASSUME CInv, CacheBounded, CacheTypeOK', [CacheNext]_allVars
             PROVE  CacheBounded'
  OBVIOUS
<1>1. cached \in [Thread -> [Class -> SUBSET Block]]
  BY DEF CInv, CacheTypeOK
<1>2. ASSUME NEW t \in Thread, NEW b \in InUse, DeallocateToCache(t, b)
      PROVE  CacheBounded'
  <2> DEFINE c == hdr[b][2]
             S == cached[t][c]
  <2>1. c \in Class /\ SizeOf(hdr[b]) = ClassSize[c]
    BY DEF InUse, CInv, IInv, RoutesHome, Held, Key, SizeOf
  <2>2. /\ cached' = [cached EXCEPT ![t][c] = @ \cup {b}]
        /\ (Cardinality(S) + 1) * ClassSize[c] <= MaxCachedBytes[c]
        /\ b \notin S
    BY <1>2, <2>1 DEF DeallocateToCache, Cacheable, InUse, CachedBy
  <2> HIDE DEF c
  <2>3. /\ cached'[t][c] = S \cup {b}
        /\ \A u \in Thread, d \in Class :
             u # t \/ d # c => cached'[u][d] = cached[u][d]
    BY <1>1, <2>1, <2>2
  <2>4. Cardinality(S \cup {b}) = Cardinality(S) + 1
    <3>1. IsFiniteSet(Slab) /\ IsFiniteSet(Index)
      BY SlabsAssumption, FS_Interval DEF Index
    <3>2. IsFiniteSet(Block)
      BY <3>1, FS_Product DEF Block
    <3>3. S \in SUBSET Block
      BY <1>1, <2>1
    <3>4. IsFiniteSet(S)
      BY <3>2, <3>3, FS_Subset
    <3>5. QED
      BY <2>2, <3>4, FS_AddElement
  <2>5. QED
    BY <2>2, <2>3, <2>4 DEF CacheBounded
<1>3. ASSUME NEW t \in Thread,
             \/ \E c \in Class : AllocateCached(t, c)
             \/ Flush(t)
      PROVE  CacheBounded'
  <2>1. PICK c \in Class : \E b : cached' = [cached EXCEPT ![t][c] = @ \ {b}]
    BY <1>3 DEF AllocateCached, Flush
  <2>2. \A u \in Thread, d \in Class : cached'[u][d] \subseteq cached[u][d]
    BY <1>1, <2>1
  <2>3. QED
    BY <2>2, BoundedKept
<1>4. ASSUME cached' = cached PROVE CacheBounded'
  BY <1>4 DEF CacheBounded
<1>5. ASSUME NEW t \in Thread,
             \/ \E c \in Class : AllocateFromArena(t, c)
             \/ \E b \in InUse : DeallocateToArena(t, b)
             \/ \E u \in BOOLEAN : Configure(t, u)
             \/ ConfigureSameNode(t) \/ ConfigureOtherNode(t)
             \/ CreateReplacement(t) \/ CreateFails(t)
             \/ InstallReplacement(t) \/ Exit(t) \/ Exited(t)
             \/ \E n \in Node : Migrate(t, n)
      PROVE cached' = cached
  BY <1>5 DEF AllocateFromArena, DeallocateToArena, Configure, ConfigureSameNode,
     ConfigureOtherNode, CreateReplacement, CreateFails, InstallReplacement,
     Exit, Exited, Migrate
<1>6. ASSUME UNCHANGED cacheVars PROVE cached' = cached
  BY <1>6 DEF cacheVars
<1>7. QED
  BY <1>2, <1>3, <1>4, <1>5, <1>6 DEF CacheNext, CacheStep, allVars

(***************************************************************************)
(* No bin of a cache ever exceeds max_cached_bytes_for_class.              *)
(***************************************************************************)
THEOREM CacheAlwaysBounded == CacheSpec => []CacheBounded
<1>1. CacheInit => CacheBounded
  <2> SUFFICES ASSUME CacheInit, NEW t \in Thread, NEW c \in Class
               PROVE  Cardinality(cached[t][c]) * ClassSize[c] <= MaxCachedBytes[c]
    BY DEF CacheBounded
  <2>1. Cardinality(cached[t][c]) = 0
    BY FS_EmptySet DEF CacheInit
  <2>2. QED
    BY <2>1, NumaArenaAssumption
<1>2. CInv' => CacheTypeOK'
  BY DEF CInv
<1>3. QED
  BY <1>1, <1>2, SpecCInv, NextBounded, PTL DEF CacheSpec

(***************************************************************************)
(* Threads and caches use the arenas as NumaArena specifies, so that every *)
(* theorem about the arenas holds with the caches in front of them.        *)
(***************************************************************************)
THEOREM CachesUseArenas == CacheSpec => ImplementsArenas
<1>1. CacheInit => Init
  BY DEF CacheInit
<1>2. QED
  BY <1>1, SpecCInv, CacheNextIsNext, PTL DEF CacheSpec, Spec, ImplementsArenas

(***************************************************************************)
(* For one: behind the caches too, no block is given twice or lost.        *)
(***************************************************************************)
THEOREM BlocksConservedBehindCaches == CacheSpec => []BlocksConserved
BY CachesUseArenas, BlocksAlwaysConserved, PTL DEF ImplementsArenas
=============================================================================
