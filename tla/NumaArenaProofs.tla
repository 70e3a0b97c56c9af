-------------------------- MODULE NumaArenaProofs --------------------------
(***************************************************************************)
(* The arenas for any nodes, classes, threads, slabs, sizes and            *)
(* watermarks, with the foreign freelist on or off.                        *)
(*                                                                         *)
(* A Ledger says where every block of every mapped slab is, without saying *)
(* which caller, bin or batch holds it.  Only two kinds of step change it, *)
(* a class handing a block out and a class taking a batch back, and both   *)
(* replace one pool (LedgerReplace).  The other steps move held blocks.    *)
(*                                                                         *)
(* Four parts: IInv, the blocks; FInv, the bytes that foreign_bytes_ and   *)
(* the watermarks count; HInv, what an allocation that maps a slab may     *)
(* have passed over; and each class as a SlabPool.                         *)
(***************************************************************************)
EXTENDS NumaArenaHistory, SlabsProofs, FiniteSetTheorems

Ledger(pl, held, hd) ==
  /\ pl \in [Key -> Pool]
  /\ held \subseteq Block
  /\ hd \in [Block -> Key \cup {NoKey}]
  /\ \A k \in Key : WellFormed(pl[k])
  /\ \A k, j \in Key : k # j => pl[k].mapped \cap pl[j].mapped = {}
  /\ \A b \in held : hd[b] \in Key /\ SlabOf(b) \in pl[hd[b]].mapped
  /\ \A k \in Key : pl[k].free \cap held = {}
  /\ \A k \in Key : pl[k].mapped \X Index \subseteq pl[k].free \cup held

LEMMA LedgerReplace ==
  ASSUME NEW pl, NEW held, NEW hd, Ledger(pl, held, hd),
         NEW k \in Key, NEW Q, WellFormed(Q),
         NEW held2, held2 \subseteq Block,
         NEW hd2 \in [Block -> Key \cup {NoKey}],
         \A j \in Key : j # k => Q.mapped \cap pl[j].mapped = {},
         \A b \in held2 : \/ hd2[b] = k /\ SlabOf(b) \in Q.mapped
                          \/ b \in held /\ hd2[b] = hd[b] /\ hd[b] # k,
         \A b \in held : hd[b] # k => b \in held2,
         Q.free \cap held2 = {},
         Q.mapped \X Index \subseteq Q.free \cup held2
  PROVE  Ledger([pl EXCEPT ![k] = Q], held2, hd2)
<1> DEFINE pl2 == [pl EXCEPT ![k] = Q]
<1>1. /\ pl2[k] = Q
      /\ \A j \in Key : j # k => pl2[j] = pl[j]
      /\ pl2 \in [Key -> Pool]
  BY DEF Ledger, WellFormed
<1> HIDE DEF pl2
<1>2. \A j \in Key : WellFormed(pl2[j])
  BY <1>1 DEF Ledger
<1>3. \A i, j \in Key : i # j => pl2[i].mapped \cap pl2[j].mapped = {}
  <2> TAKE i, j \in Key
  <2>1. CASE i = k \/ j = k
    BY <1>1, <2>1
  <2>2. CASE i # k /\ j # k
    BY <1>1, <2>2 DEF Ledger
  <2>3. QED
    BY <2>1, <2>2
<1>4. \A b \in held2 : hd2[b] \in Key /\ SlabOf(b) \in pl2[hd2[b]].mapped
  BY <1>1 DEF Ledger
<1>5. ASSUME NEW j \in Key PROVE pl2[j].free \cap held2 = {}
  <2>1. CASE j = k
    BY <1>1, <2>1
  <2>2. CASE j # k
    <3>1. \A b \in pl[j].free : SlabOf(b) \in pl[j].mapped
      BY DEF Ledger, WellFormed, SlabOf
    <3>2. QED
      BY <1>1, <2>2, <3>1 DEF Ledger
  <2>3. QED
    BY <2>1, <2>2
<1>6. ASSUME NEW j \in Key, NEW b \in pl2[j].mapped \X Index
      PROVE  b \in pl2[j].free \cup held2
  <2>1. CASE j = k
    BY <1>1, <1>6, <2>1
  <2>2. CASE j # k
    <3>1. b \in pl[j].free \cup held /\ SlabOf(b) \in pl[j].mapped
      BY <1>1, <1>6, <2>2 DEF Ledger, SlabOf
    <3>2. b \in held => hd[b] = j
      BY <3>1 DEF Ledger
    <3>3. QED
      BY <1>1, <2>2, <3>1, <3>2
  <2>3. QED
    BY <2>1, <2>2
<1>7. QED
  <2>1. Ledger(pl2, held2, hd2)
    BY <1>1, <1>2, <1>3, <1>4, <1>5, <1>6 DEF Ledger
  <2>2. QED
    BY <2>1 DEF pl2

-----------------------------------------------------------------------------

Returning == {"drainSub", "drainFree", "free", "enqueue",
              "overflowSub", "overflowFree"}

IInv ==
  /\ TypeOK
  /\ Ledger(pool, Held, hdr)
  /\ HeldOnce
  /\ RoutesHome
  /\ AtMostOneEmptySlab
  /\ \A t \in Thread : pc[t] \notin Returning => batch[t] = {}

LEMMA InitIInv == Init => IInv
<1> SUFFICES ASSUME Init PROVE IInv
  OBVIOUS
<1> USE DEF Init
<1>1. /\ \A k \in Key : pool[k] = NewPool
      /\ WellFormed(NewPool)
      /\ NewPool.mapped = {} /\ NewPool.slabs = {} /\ NewPool.free = {}
  BY NewPoolWellFormed DEF NewPool
<1>2. Held = {}
  BY DEF Held
<1>3. TypeOK
  BY <1>1, NumaArenaAssumption DEF TypeOK, Pc, WellFormed
<1>4. Ledger(pool, Held, hdr)
  BY <1>1, <1>2, <1>3 DEF Ledger, TypeOK
<1>5. HeldOnce /\ RoutesHome
  BY <1>2 DEF HeldOnce, RoutesHome
<1>6. AtMostOneEmptySlab
  BY <1>1 DEF AtMostOneEmptySlab, AtMostOneEmpty
<1>7. QED
  BY <1>3, <1>4, <1>5, <1>6 DEF IInv, Returning

(***************************************************************************)
(* A class hands a block out of P, its pool as it was or with a new slab.  *)
(***************************************************************************)
LEMMA HandOutIInv ==
  ASSUME IInv, NEW t \in Thread, at[t] \in Key, pc[t] \notin Returning,
         NEW P, WellFormed(P), NEW b \in P.free, HandOut(t, P, b),
         pool[at[t]].mapped \subseteq P.mapped,
         \A j \in Key : j # at[t] => P.mapped \cap pool[j].mapped = {},
         P.free \cap Held = {},
         P.mapped \X Index \subseteq P.free \cup Held,
         AtMostOneEmpty(Take(P, b))
  PROVE  IInv'
<1> DEFINE k == at[t]
           Q == Take(P, b)
<1>1. /\ WellFormed(Q)
      /\ Q.mapped = P.mapped
      /\ Q.free = P.free \ {b}
  BY TakeFacts
<1>2. b \in Block /\ SlabOf(b) \in P.mapped /\ b \notin Held
  BY DEF WellFormed, Pool, SlabOf
<1>3. /\ pool' = [pool EXCEPT ![k] = Q]
      /\ hdr' = [hdr EXCEPT ![b] = k]
      /\ out' = out \cup {b}
      /\ UNCHANGED <<bin, foreignBytes, batch>>
      /\ pc' = [pc EXCEPT ![t] = "idle"]
      /\ at' = [at EXCEPT ![t] = NoKey]
  BY DEF HandOut, Return, GoTo
<1> HIDE DEF Q
<1>4. Held' = Held \cup {b}
  BY <1>3 DEF Held
<1>5. batch[t] = {}
  BY DEF IInv
<1>6. TypeOK'
  BY <1>1, <1>2, <1>3, NumaArenaAssumption DEF IInv, TypeOK, Pc, WellFormed
<1>7. Ledger(pool', Held', hdr')
  <2>1. hdr \in [Block -> Key \cup {NoKey}] /\ Held \subseteq Block
    BY DEF IInv, Ledger
  <2>2. hdr' \in [Block -> Key \cup {NoKey}] /\ Held' \subseteq Block
    BY <1>2, <1>3, <1>4, <2>1
  <2>3. hdr'[b] = k /\ \A c \in Held : hdr'[c] = hdr[c]
    BY <1>2, <1>3, <2>1
  <2>4. \A c \in Held' : \/ hdr'[c] = k /\ SlabOf(c) \in Q.mapped
                         \/ c \in Held /\ hdr'[c] = hdr[c] /\ hdr[c] # k
    BY <1>1, <1>2, <1>4, <2>3 DEF IInv, Ledger
  <2>5. Q.free \cap Held' = {} /\ Q.mapped \X Index \subseteq Q.free \cup Held'
    BY <1>1, <1>4
  <2>6. \A j \in Key : j # k => Q.mapped \cap pool[j].mapped = {}
    BY <1>1
  <2>7. Ledger(pool, Held, hdr) /\ (\A c \in Held : hdr[c] # k => c \in Held')
    BY <1>4 DEF IInv
  <2>8. Ledger([pool EXCEPT ![k] = Q], Held', hdr')
    BY <1>1, <2>2, <2>4, <2>5, <2>6, <2>7, LedgerReplace
  <2>9. QED
    BY <1>3, <2>8
<1>8. HeldOnce'
  BY <1>2, <1>3 DEF IInv, HeldOnce, Held
<1>9. RoutesHome'
  <2>1. \A c \in Held' : hdr'[c] \in Key /\ SlabOf(c) \in pool'[hdr'[c]].mapped
    BY <1>7 DEF Ledger
  <2>2. hdr \in [Block -> Key \cup {NoKey}] /\ Held \subseteq Block
    BY DEF IInv, Ledger
  <2>3. \A c \in Held : hdr'[c] = hdr[c]
    BY <1>2, <1>3, <2>2
  <2>4. \A j \in Key : \A c \in bin'[j] : hdr'[c] = j
    BY <1>3, <2>3 DEF IInv, RoutesHome, Held
  <2>5. \A u \in Thread : \A c \in batch'[u] : hdr'[c] = at'[u]
    <3>1. \A u \in Thread : \A c \in batch[u] : c \in Held /\ u # t
      BY <1>5 DEF Held
    <3>2. \A u \in Thread : u # t => at'[u] = at[u]
      BY <1>3 DEF IInv, TypeOK
    <3>3. QED
      BY <1>3, <2>3, <3>1, <3>2 DEF IInv, RoutesHome
  <2>6. QED
    BY <2>1, <2>4, <2>5 DEF RoutesHome
<1>10. AtMostOneEmptySlab'
  BY <1>3 DEF IInv, TypeOK, AtMostOneEmptySlab, Q
<1>11. \A u \in Thread : pc'[u] \notin Returning => batch'[u] = {}
  BY <1>3, <1>5 DEF IInv, TypeOK
<1>12. QED
  BY <1>6, <1>7, <1>8, <1>9, <1>10, <1>11 DEF IInv

(***************************************************************************)
(* A class takes a batch back, and may unmap slabs.                        *)
(***************************************************************************)
LEMMA FreeBatchFacts ==
  ASSUME IInv, NEW t \in Thread, at[t] \in Key, FreeBatch(t)
  PROVE  /\ batch[t] \subseteq pool[at[t]].mapped \X Index
         /\ \E Q \in DeallocateBatch(pool[at[t]], batch[t]) :
              /\ pool' = [pool EXCEPT ![at[t]] = Q]
              /\ WellFormed(Q)
              /\ Q.mapped \subseteq pool[at[t]].mapped
              /\ Q.free = {b \in pool[at[t]].free \cup batch[t] : SlabOf(b) \in Q.mapped}
              /\ \A b \in Held \ batch[t] : hdr[b] = at[t] => SlabOf(b) \in Q.mapped
         /\ Held' = Held \ batch[t]
         /\ \A b \in Held' : hdr'[b] = hdr[b]
<1> DEFINE k == at[t]
<1>1. PICK Q \in DeallocateBatch(pool[k], batch[t]) : pool' = [pool EXCEPT ![k] = Q]
  BY DEF FreeBatch
<1>2. WellFormed(pool[k]) /\ Held \subseteq Block
  BY DEF IInv, Ledger
<1>3. \A b \in batch[t] : b \in Held /\ hdr[b] = k
  BY DEF IInv, RoutesHome, Held
<1>4. \A b \in Held : hdr[b] = k => SlabOf(b) \in pool[k].mapped
  BY DEF IInv, Ledger
<1>5. batch[t] \subseteq pool[k].mapped \X Index
  BY <1>2, <1>3, <1>4 DEF Block, SlabOf
<1>6. /\ WellFormed(Q)
      /\ Q.mapped \subseteq pool[k].mapped
      /\ Q.free = {b \in pool[k].free \cup batch[t] : SlabOf(b) \in Q.mapped}
      /\ \A s \in pool[k].mapped \ Q.mapped : BlocksOf(s) \subseteq pool[k].free \cup batch[t]
  BY <1>2, <1>5, DeallocateBatchFacts
<1>7. ASSUME NEW b \in Held \ batch[t], hdr[b] = k PROVE SlabOf(b) \in Q.mapped
  <2>1. b \in BlocksOf(SlabOf(b)) /\ b \notin pool[k].free \cup batch[t]
    BY <1>2 DEF IInv, Ledger, Block, BlocksOf, SlabOf
  <2>2. QED
    BY <1>4, <1>6, <1>7, <2>1
<1>8. Held' = Held \ batch[t]
  <2>1. /\ batch' = [batch EXCEPT ![t] = {}]
        /\ UNCHANGED <<bin, out>>
    BY DEF FreeBatch
  <2>2. /\ batch \in [Thread -> SUBSET Block]
        /\ \A u \in Thread : u # t => batch'[u] = batch[u]
        /\ batch'[t] = {}
    BY <2>1 DEF IInv, TypeOK
  <2>3. ASSUME NEW b \in Held' PROVE b \in Held \ batch[t]
    BY <2>1, <2>2 DEF IInv, HeldOnce, Held
  <2>4. ASSUME NEW b \in Held \ batch[t] PROVE b \in Held'
    BY <2>1, <2>2 DEF Held
  <2>5. QED
    BY <2>3, <2>4
<1>9. \A b \in Held' : hdr'[b] = hdr[b]
  BY <1>2, <1>8 DEF FreeBatch
<1>10. QED
  BY <1>1, <1>5, <1>6, <1>7, <1>8, <1>9

LEMMA FreeBatchIInv ==
  ASSUME IInv, NEW t \in Thread, at[t] \in Key, FreeBatch(t),
         pc' \in [Thread -> Pc], at' \in [Thread -> Key \cup {NoKey}],
         \A u \in Thread : u # t => pc'[u] = pc[u] /\ at'[u] = at[u],
         at'[t] = NoKey <=> pc'[t] = "idle"
  PROVE  IInv'
<1> DEFINE k == at[t]
<1>1. PICK Q \in DeallocateBatch(pool[k], batch[t]) :
        /\ pool' = [pool EXCEPT ![k] = Q]
        /\ WellFormed(Q)
        /\ Q.mapped \subseteq pool[k].mapped
        /\ Q.free = {b \in pool[k].free \cup batch[t] : SlabOf(b) \in Q.mapped}
        /\ \A b \in Held \ batch[t] : hdr[b] = k => SlabOf(b) \in Q.mapped
  BY FreeBatchFacts
<1>2. /\ batch[t] \subseteq pool[k].mapped \X Index
      /\ Held' = Held \ batch[t]
      /\ \A b \in Held' : hdr'[b] = hdr[b]
  BY FreeBatchFacts
<1>3. /\ hdr' = [b \in Block |-> IF b \in batch[t] THEN NoKey ELSE hdr[b]]
      /\ batch' = [batch EXCEPT ![t] = {}]
      /\ UNCHANGED <<bin, foreignBytes, out>>
  BY DEF FreeBatch
<1>4. /\ batch'[t] = {}
      /\ \A u \in Thread : u # t => batch'[u] = batch[u]
      /\ batch' \in [Thread -> SUBSET Block]
  BY <1>3 DEF IInv, TypeOK
<1>5. TypeOK'
  <2>1. pool' \in [Key -> Pool]
    BY <1>1 DEF IInv, TypeOK, WellFormed
  <2>2. hdr' \in [Block -> Key \cup {NoKey}]
    BY <1>3 DEF IInv, TypeOK
  <2>3. QED
    BY <1>3, <1>4, <2>1, <2>2 DEF IInv, TypeOK
<1>6. Ledger(pool', Held', hdr')
  <2>1. Ledger(pool, Held, hdr)
    BY DEF IInv
  <2>2. \A j \in Key : j # k => Q.mapped \cap pool[j].mapped = {}
    BY <1>1, <2>1 DEF Ledger
  <2>3. \A b \in Held' : \/ hdr'[b] = k /\ SlabOf(b) \in Q.mapped
                         \/ b \in Held /\ hdr'[b] = hdr[b] /\ hdr[b] # k
    BY <1>1, <1>2
  <2>4. \A b \in Held : hdr[b] # k => b \in Held'
    BY <1>2 DEF IInv, RoutesHome
  <2>5. Q.free \cap Held' = {}
    BY <1>1, <1>2, <2>1 DEF Ledger
  <2>6. Q.mapped \X Index \subseteq Q.free \cup Held'
    <3> SUFFICES ASSUME NEW b \in Q.mapped \X Index PROVE b \in Q.free \cup Held'
      OBVIOUS
    <3>1. b \in pool[k].free \cup Held
      BY <1>1, <2>1 DEF Ledger
    <3>2. QED
      BY <1>1, <1>2, <3>1 DEF SlabOf
  <2>7. Held' \subseteq Block /\ hdr' \in [Block -> Key \cup {NoKey}]
    BY <1>2, <1>5, <2>1 DEF Ledger, TypeOK
  <2>8. Ledger([pool EXCEPT ![k] = Q], Held', hdr')
    <3>1. WellFormed(Q) /\ k \in Key
      BY <1>1
    <3> HIDE DEF k
    <3>2. QED
      BY <2>1, <2>2, <2>3, <2>4, <2>5, <2>6, <2>7, <3>1, LedgerReplace
  <2>9. QED
    BY <1>1, <2>8
<1>7. HeldOnce'
  BY <1>3, <1>4 DEF IInv, HeldOnce
<1>8. RoutesHome'
  <2>1. \A b \in Held' : hdr'[b] \in Key /\ SlabOf(b) \in pool'[hdr'[b]].mapped
    BY <1>6 DEF Ledger
  <2>2. \A j \in Key : \A b \in bin'[j] : b \in Held' /\ hdr[b] = j
    BY <1>3 DEF IInv, RoutesHome, Held
  <2>3. \A u \in Thread : \A b \in batch'[u] : b \in Held' /\ hdr[b] = at'[u]
    <3>1. \A u \in Thread : \A b \in batch'[u] : b \in Held' /\ u # t
      BY <1>4 DEF Held
    <3>2. QED
      BY <1>4, <3>1 DEF IInv, RoutesHome
  <2>4. QED
    BY <1>2, <2>1, <2>2, <2>3 DEF RoutesHome
<1>9. AtMostOneEmptySlab'
  <2>1. WellFormed(pool[k]) /\ AtMostOneEmpty(pool[k])
    BY DEF IInv, Ledger, AtMostOneEmptySlab
  <2>2. AtMostOneEmpty(Q)
    BY <1>1, <1>2, <2>1, DeallocateBatchKeepsAtMostOne
  <2>3. QED
    BY <1>1, <2>2 DEF IInv, TypeOK, AtMostOneEmptySlab
<1>10. \A u \in Thread : pc'[u] \notin Returning => batch'[u] = {}
  BY <1>4 DEF IInv
<1>11. QED
  BY <1>5, <1>6, <1>7, <1>8, <1>9, <1>10 DEF IInv

(***************************************************************************)
(* Steps that leave the pools and the headers alone and move held blocks   *)
(* between callers, bins and batches.                                      *)
(***************************************************************************)
LEMMA MoveIInv ==
  ASSUME IInv, TypeOK', UNCHANGED <<pool, hdr>>, Held' = Held, HeldOnce',
         \A k \in Key : \A b \in bin'[k] : hdr[b] = k,
         \A t \in Thread : \A b \in batch'[t] : hdr[b] = at'[t],
         \A t \in Thread : pc'[t] \notin Returning => batch'[t] = {}
  PROVE  IInv'
BY DEF IInv, RoutesHome, AtMostOneEmptySlab

(***************************************************************************)
(* There are finitely many blocks, so a batch has a length.                *)
(***************************************************************************)
LEMMA FiniteBlocks == IsFiniteSet(Block)
<1>1. IsFiniteSet(Slab) /\ IsFiniteSet(Index)
  BY SlabsAssumption, FS_Interval DEF Index
<1>2. QED
  BY <1>1, FS_Product DEF Block

LEMMA FiniteBatch == \A B \in SUBSET Block : Cardinality(B) \in Nat
BY FiniteBlocks, FS_Subset, FS_CardinalityType

(***************************************************************************)
(* A free that starts takes its block along; a drain and a push move       *)
(* blocks between the bin and the batch.                                   *)
(***************************************************************************)
LEMMA CallDeallocateKeepsHeld ==
  ASSUME IInv, NEW t \in Thread, NEW n \in Node, NEW b \in out, CallDeallocate(t, n, b)
  PROVE  Held' = Held
<1>1. /\ batch' = [batch EXCEPT ![t] = {b}]
      /\ out' = out \ {b}
      /\ bin' = bin
      /\ batch[t] = {}
  BY DEF CallDeallocate, IInv, Returning
<1>2. batch'[t] = {b} /\ \A u \in Thread : u # t => batch'[u] = batch[u]
  BY <1>1 DEF IInv, TypeOK
<1>3. QED
  BY <1>1, <1>2 DEF Held

LEMMA DrainOrEnqueueKeepsHeld ==
  ASSUME IInv, NEW t \in Thread, Drain(t) \/ Enqueue(t)
  PROVE  Held' = Held
<1> DEFINE k == at[t]
<1>1. k \in Key /\ out' = out
  BY DEF Drain, Enqueue, IInv, TypeOK
<1>2. PICK D \in SUBSET (bin[k] \cup batch[t]) :
        /\ bin' = [bin EXCEPT ![k] = (bin[k] \cup batch[t]) \ D]
        /\ batch' = [batch EXCEPT ![t] = D]
  <2>1. CASE Drain(t)
    <3>1. batch[t] = {}
      BY <2>1 DEF Drain, IInv, Returning
    <3>2. bin[k] = bin[k] \cup batch[t] /\ (bin[k] \cup batch[t]) \ bin[k] = {}
      BY <3>1
    <3>3. QED
      BY <2>1, <3>2 DEF Drain
  <2>2. CASE Enqueue(t)
    <3>1. CASE Cardinality(bin[k] \cup batch[t]) * SizeOf(k) > High(k)
      BY <2>2, <3>1 DEF Enqueue, OverflowBatches
    <3>2. CASE ~(Cardinality(bin[k] \cup batch[t]) * SizeOf(k) > High(k))
      <4>1. (bin[k] \cup batch[t]) \ {} = bin[k] \cup batch[t]
        OBVIOUS
      <4>2. QED
        BY <2>2, <3>2, <4>1 DEF Enqueue
    <3>3. QED
      BY <3>1, <3>2
  <2>3. QED
    BY <2>1, <2>2
<1>3. /\ batch'[t] = D /\ bin'[k] = (bin[k] \cup batch[t]) \ D
      /\ \A u \in Thread : u # t => batch'[u] = batch[u]
      /\ \A j \in Key : j # k => bin'[j] = bin[j]
  BY <1>1, <1>2 DEF IInv, TypeOK
<1>4. \A b : (\E j \in Key : b \in bin'[j]) \/ (\E u \in Thread : b \in batch'[u])
         <=> (\E j \in Key : b \in bin[j]) \/ (\E u \in Thread : b \in batch[u])
  BY <1>1, <1>3
<1>5. \A b : b \in Held' <=> b \in Held
  BY <1>1, <1>4 DEF Held
<1>6. QED
  BY <1>5

-----------------------------------------------------------------------------

LEMMA NextIInv == IInv /\ [Next]_vars => IInv'
<1> SUFFICES ASSUME IInv, [Next]_vars PROVE IInv'
  OBVIOUS
<1> USE NumaArenaAssumption
<1>1. ASSUME NEW t \in Thread, NEW k \in Key, CallAllocate(t, k) PROVE IInv'
  <2>1. Held' = Held
    BY <1>1 DEF CallAllocate, Held
  <2>2. TypeOK'
    BY <1>1 DEF IInv, TypeOK, CallAllocate, GoTo, Pc
  <2>3. batch[t] = {}
    BY <1>1 DEF CallAllocate, IInv, Returning
  <2>4. \A u \in Thread : \A b \in batch'[u] : hdr[b] = at'[u]
    BY <1>1, <2>3 DEF CallAllocate, IInv, TypeOK, RoutesHome
  <2>5. \A u \in Thread : pc'[u] \notin Returning => batch'[u] = {}
    BY <1>1, <2>3 DEF CallAllocate, GoTo, IInv, TypeOK
  <2>6. QED
    BY <1>1, <2>1, <2>2, <2>4, <2>5, MoveIInv DEF CallAllocate, IInv, HeldOnce, RoutesHome
<1>2. ASSUME NEW t \in Thread, NEW n \in Node, NEW b \in out, CallDeallocate(t, n, b)
      PROVE  IInv'
  <2>1. batch[t] = {} /\ pc[t] = "idle"
    BY <1>2 DEF CallDeallocate, IInv, Returning
  <2>2. b \in Held /\ b \in Block /\ hdr[b] \in Key
    BY DEF IInv, TypeOK, Held, RoutesHome
  <2>3. /\ out' = out \ {b}
        /\ batch' = [batch EXCEPT ![t] = {b}]
        /\ at' = [at EXCEPT ![t] = hdr[b]]
        /\ UNCHANGED <<pool, bin, foreignBytes, hdr>>
        /\ pc' = [pc EXCEPT ![t] = IF NodeOf(hdr[b]) # n /\ ForeignFreelist
                                   THEN "enqueue" ELSE "free"]
    BY <1>2 DEF CallDeallocate, GoTo
  <2>4. TypeOK'
    BY <2>2, <2>3 DEF IInv, TypeOK, Pc
  <2>5. /\ batch'[t] = {b} /\ at'[t] = hdr[b]
        /\ \A u \in Thread : u # t =>
             batch'[u] = batch[u] /\ at'[u] = at[u] /\ pc'[u] = pc[u]
        /\ pc'[t] \in Returning
    BY <2>3 DEF IInv, TypeOK, Returning
  <2>6. Held' = Held
    BY <1>2, CallDeallocateKeepsHeld
  <2>7. HeldOnce'
    BY <2>3, <2>5 DEF IInv, HeldOnce
  <2>8. \A u \in Thread : \A c \in batch'[u] : hdr[c] = at'[u]
    BY <2>5 DEF IInv, RoutesHome
  <2>9. \A u \in Thread : pc'[u] \notin Returning => batch'[u] = {}
    BY <2>5 DEF IInv
  <2>10. QED
    BY <2>3, <2>4, <2>6, <2>7, <2>8, <2>9, MoveIInv DEF IInv, RoutesHome
<1>3. ASSUME NEW t \in Thread, TakeExisting(t) PROVE IInv'
  <2>1. at[t] \in Key /\ pc[t] \notin Returning
    BY <1>3 DEF TakeExisting, IInv, TypeOK, Returning
  <2> DEFINE P == pool[at[t]]
  <2>2. PICK b \in Available(P) : HandOut(t, P, b)
    BY <1>3 DEF TakeExisting
  <2>3. WellFormed(P) /\ b \in P.free
    BY <2>1 DEF IInv, Ledger, Available
  <2>4. AtMostOneEmpty(Take(P, b))
    BY <2>1, <2>3, TakeKeepsAtMostOne DEF IInv, AtMostOneEmptySlab
  <2>5. /\ \A j \in Key : j # at[t] => P.mapped \cap pool[j].mapped = {}
        /\ P.free \cap Held = {}
        /\ P.mapped \X Index \subseteq P.free \cup Held
    BY <2>1 DEF IInv, Ledger
  <2>6. QED
    BY <2>1, <2>2, <2>3, <2>4, <2>5, HandOutIInv
<1>4. ASSUME NEW t \in Thread, Miss(t) PROVE IInv'
  <2>1. /\ pc[t] \in {"existing", "retry"}
        /\ pc' = [pc EXCEPT ![t] = IF pc[t] = "existing" THEN "drain" ELSE "newSlab"]
        /\ UNCHANGED <<pool, bin, foreignBytes, hdr, out, at, batch>>
    BY <1>4 DEF Miss, GoTo
  <2>2. Held' = Held /\ HeldOnce'
    BY <2>1 DEF Held, IInv, HeldOnce
  <2>3. TypeOK'
    BY <2>1 DEF IInv, TypeOK, Pc
  <2>4. \A u \in Thread : pc'[u] \notin Returning => batch'[u] = {}
    BY <2>1 DEF IInv, TypeOK, Returning
  <2>5. QED
    BY <2>1, <2>2, <2>3, <2>4, MoveIInv DEF IInv, RoutesHome
<1>5. ASSUME NEW t \in Thread, Grow(t) PROVE IInv'
  <2>1. at[t] \in Key /\ pc[t] \notin Returning
    BY <1>5 DEF Grow, MustGrow, IInv, TypeOK, Returning
  <2> PICK s \in Slab \ Mapped :
        \E b \in BlocksOf(s) : HandOut(t, AddSlab(pool[at[t]], s), b)
    BY <1>5 DEF Grow
  <2> DEFINE P == AddSlab(pool[at[t]], s)
  <2>2. PICK b \in BlocksOf(s) : HandOut(t, P, b)
    OBVIOUS
  <2>3. WellFormed(pool[at[t]])
    BY <2>1 DEF IInv, Ledger
  <2>4. /\ WellFormed(P)
        /\ P.mapped = pool[at[t]].mapped \cup {s}
        /\ P.free = pool[at[t]].free \cup BlocksOf(s)
        /\ b \in P.free
    BY <2>3, AddSlabFacts
  <2>5. \A j \in Key : s \notin pool[j].mapped
    BY DEF Mapped
  <2>6. AtMostOneEmpty(Take(P, b))
    BY <2>1, <2>3, <2>5, GrowKeepsAtMostOne DEF IInv, AtMostOneEmptySlab
  <2>7. BlocksOf(s) \cap Held = {}
    BY <2>5 DEF IInv, Ledger, BlocksOf, SlabOf
  <2>8. \A j \in Key : j # at[t] => P.mapped \cap pool[j].mapped = {}
    BY <2>1, <2>4, <2>5 DEF IInv, Ledger
  <2>9. /\ P.free \cap Held = {}
        /\ P.mapped \X Index \subseteq P.free \cup Held
    BY <2>1, <2>4, <2>7 DEF IInv, Ledger, BlocksOf
  <2>10. pool[at[t]].mapped \subseteq P.mapped
    BY <2>4
  <2> HIDE DEF P
  <2>11. QED
    BY <2>1, <2>2, <2>4, <2>6, <2>8, <2>9, <2>10, HandOutIInv
<1>6. ASSUME NEW t \in Thread, MapFails(t) PROVE IInv'
  <2>1. /\ pc[t] \in {"direct", "newSlab"}
        /\ pc' = [pc EXCEPT ![t] = "idle"]
        /\ at' = [at EXCEPT ![t] = NoKey]
        /\ UNCHANGED <<pool, bin, foreignBytes, hdr, out, batch>>
    BY <1>6 DEF MapFails, MustGrow, Return, GoTo
  <2>2. Held' = Held /\ HeldOnce'
    BY <2>1 DEF Held, IInv, HeldOnce
  <2>3. TypeOK'
    BY <2>1 DEF IInv, TypeOK, Pc
  <2>4. batch[t] = {}
    BY <2>1 DEF IInv, Returning
  <2>5. \A u \in Thread : \A b \in batch'[u] : hdr[b] = at'[u]
    BY <2>1, <2>4 DEF IInv, TypeOK, RoutesHome
  <2>6. \A u \in Thread : pc'[u] \notin Returning => batch'[u] = {}
    BY <2>1, <2>4 DEF IInv, TypeOK
  <2>7. QED
    BY <2>1, <2>2, <2>3, <2>5, <2>6, MoveIInv DEF IInv, RoutesHome
<1>7. ASSUME NEW t \in Thread, PushBackFails(t) PROVE IInv'
  <2> DEFINE k == at[t]
  <2>1. k \in Key /\ pc[t] \notin Returning
    BY <1>7 DEF PushBackFails, MustGrow, IInv, TypeOK, Returning
  <2>2. PICK s \in Slab \ Mapped : pool' = [pool EXCEPT ![k] = MapSlab(pool[k], s)]
    BY <1>7 DEF PushBackFails
  <2> DEFINE Q == MapSlab(pool[k], s)
  <2>3. WellFormed(pool[k]) /\ AtMostOneEmpty(pool[k])
    BY <2>1 DEF IInv, Ledger, AtMostOneEmptySlab
  <2>4. /\ WellFormed(Q)
        /\ Q.mapped = pool[k].mapped \cup {s}
        /\ Q.free = pool[k].free \cup BlocksOf(s)
    BY <2>3, MapSlabFacts
  <2>5. \A j \in Key : s \notin pool[j].mapped
    BY DEF Mapped
  <2>6. AtMostOneEmpty(Q)
    BY <2>1, <2>3, <2>5, MapSlabKeepsAtMostOne
  <2> HIDE DEF Q
  <2>7. /\ pc' = [pc EXCEPT ![t] = "idle"]
        /\ at' = [at EXCEPT ![t] = NoKey]
        /\ UNCHANGED <<bin, foreignBytes, hdr, out, batch>>
    BY <1>7 DEF PushBackFails, Return, GoTo
  <2>8. batch[t] = {} /\ Held' = Held
    BY <2>1, <2>7 DEF IInv, Held
  <2>9. pool' = [pool EXCEPT ![k] = Q]
    BY <2>2 DEF Q
  <2>10. TypeOK'
    BY <2>4, <2>7, <2>9 DEF IInv, TypeOK, Pc, WellFormed
  <2>11. Ledger(pool', Held', hdr')
    <3>1. Ledger(pool, Held, hdr)
      BY DEF IInv
    <3>2. BlocksOf(s) \cap Held = {}
      BY <2>5, <3>1 DEF Ledger, BlocksOf, SlabOf
    <3>3. \A j \in Key : j # k => Q.mapped \cap pool[j].mapped = {}
      BY <2>1, <2>4, <2>5, <3>1 DEF Ledger
    <3>4. \A b \in Held : \/ hdr[b] = k /\ SlabOf(b) \in Q.mapped
                          \/ b \in Held /\ hdr[b] = hdr[b] /\ hdr[b] # k
      BY <2>4, <3>1 DEF Ledger
    <3>5. Q.free \cap Held = {}
      BY <2>1, <2>4, <3>1, <3>2 DEF Ledger
    <3>6. Q.mapped \X Index \subseteq Q.free \cup Held
      BY <2>1, <2>4, <3>1 DEF Ledger, BlocksOf
    <3>7. Held \subseteq Block /\ hdr \in [Block -> Key \cup {NoKey}]
      BY <3>1 DEF Ledger
    <3>8. Ledger([pool EXCEPT ![k] = Q], Held, hdr)
      <4> HIDE DEF k
      <4>1. QED
        BY <2>1, <2>4, <3>1, <3>3, <3>4, <3>5, <3>6, <3>7, LedgerReplace
    <3>9. QED
      BY <2>7, <2>8, <2>9, <3>8
  <2>12. HeldOnce'
    BY <2>7 DEF IInv, HeldOnce
  <2>13. RoutesHome'
    <3>1. \A b \in Held' : hdr'[b] \in Key /\ SlabOf(b) \in pool'[hdr'[b]].mapped
      BY <2>11 DEF Ledger
    <3>2. QED
      BY <2>7, <2>8, <3>1 DEF IInv, TypeOK, RoutesHome
  <2>14. AtMostOneEmptySlab'
    BY <2>6, <2>9 DEF IInv, TypeOK, AtMostOneEmptySlab
  <2>15. \A u \in Thread : pc'[u] \notin Returning => batch'[u] = {}
    BY <2>7, <2>8 DEF IInv, TypeOK
  <2>16. QED
    BY <2>10, <2>11, <2>12, <2>13, <2>14, <2>15 DEF IInv
<1>8. ASSUME NEW t \in Thread, Drain(t) PROVE IInv'
  <2> DEFINE k == at[t]
  <2>1. k \in Key /\ batch[t] = {}
    BY <1>8 DEF Drain, IInv, TypeOK, Returning
  <2>2. /\ batch' = [batch EXCEPT ![t] = bin[k]]
        /\ bin' = [bin EXCEPT ![k] = {}]
        /\ pc' = [pc EXCEPT ![t] = IF bin[k] = {} THEN "retry" ELSE "drainSub"]
        /\ UNCHANGED <<pool, foreignBytes, hdr, out, at>>
    BY <1>8 DEF Drain, GoTo
  <2>3. /\ batch'[t] = bin[k]
        /\ \A u \in Thread : u # t => batch'[u] = batch[u] /\ pc'[u] = pc[u]
        /\ bin'[k] = {}
        /\ \A j \in Key : j # k => bin'[j] = bin[j]
        /\ bin[k] # {} => pc'[t] \in Returning
    BY <2>1, <2>2 DEF IInv, TypeOK, Returning
  <2>4. TypeOK'
    BY <1>8, <2>1, <2>2 DEF IInv, TypeOK, Pc, Drain
  <2>5. Held' = Held
    BY <1>8, DrainOrEnqueueKeepsHeld
  <2>6. HeldOnce'
    <3>1. \A j \in Key : j # k => bin[j] \cap bin[k] = {}
      BY <2>1 DEF IInv, RoutesHome
    <3>2. QED
      BY <2>1, <2>2, <2>3, <3>1 DEF IInv, HeldOnce
  <2>7. \A j \in Key : \A b \in bin'[j] : hdr[b] = j
    BY <2>3 DEF IInv, RoutesHome
  <2>8. \A u \in Thread : \A b \in batch'[u] : hdr[b] = at'[u]
    BY <2>1, <2>2, <2>3 DEF IInv, RoutesHome
  <2>9. \A u \in Thread : pc'[u] \notin Returning => batch'[u] = {}
    BY <2>3 DEF IInv
  <2>10. QED
    BY <2>2, <2>4, <2>5, <2>6, <2>7, <2>8, <2>9, MoveIInv
<1>9. ASSUME NEW t \in Thread, SubForeign(t) PROVE IInv'
  <2>1. /\ pc[t] \in {"drainSub", "overflowSub"}
        /\ pc' = [pc EXCEPT ![t] = IF pc[t] = "drainSub" THEN "drainFree" ELSE "overflowFree"]
        /\ UNCHANGED <<pool, bin, hdr, out, at, batch>>
    BY <1>9 DEF SubForeign, GoTo
  <2>2. Held' = Held /\ HeldOnce'
    BY <2>1 DEF Held, IInv, HeldOnce
  <2>3. TypeOK'
    <3>1. at[t] \in Key /\ Cardinality(batch[t]) \in Nat
      BY <2>1, FiniteBatch DEF IInv, TypeOK
    <3>2. foreignBytes' \in [Node -> Int]
      BY <1>9, <3>1 DEF SubForeign, IInv, TypeOK, Key, NodeOf, SizeOf
    <3>3. QED
      BY <2>1, <3>2 DEF IInv, TypeOK, Pc
  <2>4. \A u \in Thread : pc'[u] \notin Returning => batch'[u] = {}
    BY <2>1 DEF IInv, TypeOK, Returning
  <2>5. QED
    BY <2>1, <2>2, <2>3, <2>4, MoveIInv DEF IInv, RoutesHome
<1>10. ASSUME NEW t \in Thread, FreeDrained(t) PROVE IInv'
  <2>1. at[t] \in Key /\ pc[t] = "drainFree"
    BY <1>10 DEF FreeDrained, IInv, TypeOK
  <2>2. FreeBatch(t) /\ pc' = [pc EXCEPT ![t] = "retry"] /\ UNCHANGED at
    BY <1>10 DEF FreeDrained, GoTo
  <2>3. pc' \in [Thread -> Pc] /\ at' \in [Thread -> Key \cup {NoKey}]
    BY <2>2 DEF IInv, TypeOK, Pc
  <2>4. \A u \in Thread : u # t => pc'[u] = pc[u] /\ at'[u] = at[u]
    BY <2>2 DEF IInv, TypeOK
  <2>5. at'[t] = NoKey <=> pc'[t] = "idle"
    BY <2>1, <2>2 DEF IInv, TypeOK
  <2>6. QED
    BY <2>1, <2>2, <2>3, <2>4, <2>5, FreeBatchIInv
<1>11. ASSUME NEW t \in Thread, Free(t) PROVE IInv'
  <2>1. at[t] \in Key
    BY <1>11 DEF Free, IInv, TypeOK
  <2>2. /\ FreeBatch(t)
        /\ pc' = [pc EXCEPT ![t] = "idle"]
        /\ at' = [at EXCEPT ![t] = NoKey]
    BY <1>11 DEF Free, Return, GoTo
  <2>3. pc' \in [Thread -> Pc] /\ at' \in [Thread -> Key \cup {NoKey}]
    BY <2>2 DEF IInv, TypeOK, Pc
  <2>4. \A u \in Thread : u # t => pc'[u] = pc[u] /\ at'[u] = at[u]
    BY <2>2 DEF IInv, TypeOK
  <2>5. at'[t] = NoKey <=> pc'[t] = "idle"
    BY <2>2 DEF IInv, TypeOK
  <2>6. QED
    BY <2>1, <2>2, <2>3, <2>4, <2>5, FreeBatchIInv
<1>12. ASSUME NEW t \in Thread, Enqueue(t) PROVE IInv'
  <2> DEFINE k == at[t]
             B == bin[k] \cup batch[t]
  <2>1. k \in Key /\ pc[t] = "enqueue"
    BY <1>12 DEF Enqueue, IInv, TypeOK
  <2>2. PICK D \in SUBSET B :
          /\ bin' = [bin EXCEPT ![k] = B \ D]
          /\ batch' = [batch EXCEPT ![t] = D]
          /\ \/ /\ pc' = [pc EXCEPT ![t] = "overflowSub"]
                /\ UNCHANGED at
             \/ /\ D = {}
                /\ pc' = [pc EXCEPT ![t] = "idle"]
                /\ at' = [at EXCEPT ![t] = NoKey]
    <3>1. CASE Cardinality(B) * SizeOf(k) > High(k)
      BY <1>12, <3>1 DEF Enqueue, OverflowBatches, GoTo
    <3>2. CASE ~(Cardinality(B) * SizeOf(k) > High(k))
      <4>1. /\ bin' = [bin EXCEPT ![k] = B]
            /\ batch' = [batch EXCEPT ![t] = {}]
            /\ pc' = [pc EXCEPT ![t] = "idle"]
            /\ at' = [at EXCEPT ![t] = NoKey]
        BY <1>12, <3>2 DEF Enqueue, Return, GoTo
      <4>2. B \ {} = B
        OBVIOUS
      <4>3. QED
        BY <4>1, <4>2
    <3>3. QED
      BY <3>1, <3>2
  <2>3. /\ foreignBytes' = [foreignBytes EXCEPT ![NodeOf(k)] = @ + SizeOf(k)]
        /\ UNCHANGED <<pool, hdr, out>>
    BY <1>12 DEF Enqueue
  <2>4. /\ batch'[t] = D
        /\ \A u \in Thread : u # t =>
             batch'[u] = batch[u] /\ pc'[u] = pc[u] /\ at'[u] = at[u]
        /\ bin'[k] = B \ D
        /\ \A j \in Key : j # k => bin'[j] = bin[j]
        /\ D # {} => pc'[t] \in Returning /\ at'[t] = k
    BY <2>1, <2>2 DEF IInv, TypeOK, Returning
  <2>5. TypeOK'
    <3>1. B \subseteq Block
      BY <2>1 DEF IInv, TypeOK
    <3>2. foreignBytes' \in [Node -> Int]
      BY <2>1, <2>3 DEF IInv, TypeOK, Key, NodeOf, SizeOf
    <3>3. /\ pc' \in [Thread -> Pc] /\ at' \in [Thread -> Key \cup {NoKey}]
          /\ \A u \in Thread : at'[u] = NoKey <=> pc'[u] = "idle"
      BY <2>1, <2>2 DEF IInv, TypeOK, Pc
    <3>4. batch' \in [Thread -> SUBSET Block] /\ bin' \in [Key -> SUBSET Block]
      BY <2>1, <2>2, <3>1 DEF IInv, TypeOK
    <3>5. QED
      BY <2>3, <3>2, <3>3, <3>4 DEF IInv, TypeOK
  <2>6. Held' = Held
    BY <1>12, DrainOrEnqueueKeepsHeld
  <2>7. \A b \in B : hdr[b] = k
    BY <2>1 DEF IInv, RoutesHome
  <2>8. HeldOnce'
    <3>1. B \cap out = {} /\ \A u \in Thread : u # t => B \cap batch[u] = {}
      BY <2>1 DEF IInv, HeldOnce
    <3>2. \A j \in Key : j # k => bin[j] \cap B = {}
      BY <2>7 DEF IInv, RoutesHome
    <3>3. QED
      BY <2>1, <2>3, <2>4, <3>1, <3>2 DEF IInv, HeldOnce
  <2>9. \A j \in Key : \A b \in bin'[j] : hdr[b] = j
    BY <2>4, <2>7 DEF IInv, RoutesHome
  <2>10. \A u \in Thread : \A b \in batch'[u] : hdr[b] = at'[u]
    BY <2>4, <2>7 DEF IInv, RoutesHome
  <2>11. \A u \in Thread : pc'[u] \notin Returning => batch'[u] = {}
    BY <2>4 DEF IInv
  <2>12. QED
    BY <2>3, <2>5, <2>6, <2>8, <2>9, <2>10, <2>11, MoveIInv
<1>13. CASE UNCHANGED vars
  <2>1. Held' = Held
    BY <1>13 DEF vars, Held
  <2>2. QED
    BY <1>13, <2>1, MoveIInv DEF vars, IInv, TypeOK, HeldOnce, RoutesHome
<1>14. QED
  BY <1>1, <1>2, <1>3, <1>4, <1>5, <1>6, <1>7, <1>8, <1>9, <1>10, <1>11,
     <1>12, <1>13 DEF Next, Step

LEMMA SpecIInv == Spec => []IInv
BY InitIInv, NextIInv, PTL DEF Spec

(***************************************************************************)
(* Every thread, bin, class and counter keeps its shape.                   *)
(***************************************************************************)
THEOREM TypeCorrect == Spec => []TypeOK
<1>1. IInv => TypeOK
  BY DEF IInv
<1>2. QED
  BY <1>1, SpecIInv, PTL

(***************************************************************************)
(* No interleaving of allocate, deallocate, foreign frees and drains gives *)
(* a block twice, loses one or unmaps a slab under a held block.           *)
(***************************************************************************)
THEOREM BlocksAlwaysConserved == Spec => []BlocksConserved
<1>1. IInv => BlocksConserved
  <2> SUFFICES ASSUME IInv PROVE BlocksConserved
    OBVIOUS
  <2>1. \A k \in Key : pool[k].free \subseteq pool[k].mapped \X Index
    BY DEF IInv, Ledger, WellFormed
  <2>2. \A k \in Key : \A b \in Held :
          SlabOf(b) \in pool[k].mapped => b \in pool[k].mapped \X Index
    BY DEF IInv, Ledger, Block, SlabOf
  <2>3. \A k \in Key : \A b \in pool[k].mapped \X Index : SlabOf(b) \in pool[k].mapped
    BY DEF SlabOf
  <2>4. \A k \in Key : pool[k].mapped \X Index
                         = pool[k].free \cup OutOf(k)
    BY <2>1, <2>2, <2>3 DEF IInv, Ledger, OutOf
  <2>5. QED
    BY <2>4 DEF IInv, Ledger, BlocksConserved
<1>2. QED
  BY <1>1, SpecIInv, PTL

(***************************************************************************)
(* A held block is linked into one list at most.                           *)
(***************************************************************************)
THEOREM AlwaysHeldOnce == Spec => []HeldOnce
<1>1. IInv => HeldOnce
  BY DEF IInv
<1>2. QED
  BY <1>1, SpecIInv, PTL

(***************************************************************************)
(* The header of a held block always routes it to the class it came from.  *)
(***************************************************************************)
THEOREM AlwaysRoutesHome == Spec => []RoutesHome
<1>1. IInv => RoutesHome
  BY DEF IInv
<1>2. QED
  BY <1>1, SpecIInv, PTL

(***************************************************************************)
(* No class of any arena ever keeps two empty slabs.                       *)
(***************************************************************************)
THEOREM OneEmptySlabAtMost == Spec => []AtMostOneEmptySlab
<1>1. IInv => AtMostOneEmptySlab
  BY DEF IInv
<1>2. QED
  BY <1>1, SpecIInv, PTL

-----------------------------------------------------------------------------
(* foreign_bytes_ *)

Sub == {"drainSub", "overflowSub"}

Charged(n) == BinBytes(n) \cup BatchBytes(n)

\* The counters and the bins, with what makes the counters inductive: there
\* are finitely many bytes to count, and a push brings one block.
FInv ==
  /\ \A n \in Node : /\ IsFiniteSet(Charged(n))
                     /\ foreignBytes[n] = Cardinality(Charged(n))
  /\ BinsBounded
  /\ \A t \in Thread : pc[t] = "enqueue" => \E b : batch[t] = {b}

LEMMA BytesOfBlocks ==
  ASSUME NEW k \in Key, NEW B \in SUBSET Block
  PROVE  /\ IsFiniteSet(Bytes(k, B))
         /\ Cardinality(Bytes(k, B)) = Cardinality(B) * SizeOf(k)
<1>3. IsFiniteSet(B)
  BY FiniteBlocks, FS_Subset
<1>4. SizeOf(k) \in Nat
  BY NumaArenaAssumption DEF Key, SizeOf
<1>5. /\ IsFiniteSet(1 .. SizeOf(k))
      /\ Cardinality(1 .. SizeOf(k)) = SizeOf(k)
  BY <1>4, FS_Interval
<1>6. /\ IsFiniteSet(B \X (1 .. SizeOf(k)))
      /\ Cardinality(B \X (1 .. SizeOf(k))) = Cardinality(B) * Cardinality(1 .. SizeOf(k))
  BY <1>3, <1>5, FS_Product
<1>7. QED
  BY <1>5, <1>6 DEF Bytes

(***************************************************************************)
(* Blocks that were not charged add their bytes.                           *)
(***************************************************************************)
LEMMA Charge ==
  ASSUME NEW S, IsFiniteSet(S), NEW k \in Key, NEW B \in SUBSET Block,
         S \cap Bytes(k, B) = {}
  PROVE  /\ IsFiniteSet(S \cup Bytes(k, B))
         /\ Cardinality(S \cup Bytes(k, B)) = Cardinality(S) + Cardinality(B) * SizeOf(k)
<1> DEFINE X == Bytes(k, B)
<1>1. IsFiniteSet(X) /\ Cardinality(X) = Cardinality(B) * SizeOf(k)
  BY BytesOfBlocks
<1> HIDE DEF X
<1>2. /\ IsFiniteSet(S \cup X)
      /\ Cardinality(S \cup X) = Cardinality(S) + Cardinality(X) - Cardinality(S \cap X)
  BY <1>1, FS_Union
<1>3. Cardinality(S \cap X) = 0
  BY FS_EmptySet DEF X
<1>4. Cardinality(S) \in Nat /\ Cardinality(X) \in Nat
  BY <1>1, FS_CardinalityType
<1>5. Cardinality(S \cup X) = Cardinality(S) + Cardinality(X)
  BY <1>2, <1>3, <1>4
<1>6. QED
  BY <1>1, <1>2, <1>5 DEF X

(***************************************************************************)
(* A bin has a block if and only if it has a byte.                         *)
(***************************************************************************)
LEMMA NoBytesNoBlocks ==
  ASSUME FInv, NEW k \in Key, foreignBytes[NodeOf(k)] = 0
  PROVE  bin[k] = {}
<1> DEFINE n == NodeOf(k)
<1>1. n \in Node
  BY DEF Key, NodeOf
<1>2. Charged(n) = {}
  BY <1>1, FS_EmptySet DEF FInv
<1>3. Bytes(k, bin[k]) \subseteq Charged(n)
  BY DEF Charged, BinBytes
<1>4. SizeOf(k) \in Nat \ {0}
  BY NumaArenaAssumption DEF Key, SizeOf
<1>5. \A b \in bin[k] : <<b, 1>> \in Bytes(k, bin[k])
  BY <1>4 DEF Bytes
<1>6. QED
  BY <1>2, <1>3, <1>5

LEMMA InitFInv == Init => FInv
<1> SUFFICES ASSUME Init PROVE FInv
  OBVIOUS
<1>1. IsFiniteSet({}) /\ Cardinality({}) = 0
  BY FS_EmptySet
<1>2. \A n \in Node : Charged(n) = {}
  BY DEF Init, Charged, BinBytes, BatchBytes, Bytes, Subtracting
<1>3. \A k \in Key : SizeOf(k) \in Nat /\ High(k) \in Nat
  BY NumaArenaAssumption DEF Key, SizeOf, High
<1>4. BinsBounded
  BY <1>1, <1>3 DEF Init, BinsBounded
<1>5. QED
  BY <1>1, <1>2, <1>4 DEF Init, FInv

(***************************************************************************)
(* A step of a thread that owes no fetch_sub, before or after, and that    *)
(* leaves bins and counters alone.                                         *)
(***************************************************************************)
LEMMA FrameFInv ==
  ASSUME FInv, NEW t \in Thread, UNCHANGED <<bin, foreignBytes>>,
         pc[t] \notin Sub, pc'[t] \notin Sub,
         \A u \in Thread : u # t => /\ pc'[u] = pc[u]
                                    /\ at'[u] = at[u]
                                    /\ batch'[u] = batch[u],
         pc'[t] = "enqueue" => \E b : batch'[t] = {b}
  PROVE  FInv'
<1>1. ASSUME NEW n \in Node PROVE Charged(n)' = Charged(n)
  <2>1. Subtracting(n)' = Subtracting(n) /\ t \notin Subtracting(n)
    BY DEF Subtracting, Sub
  <2>2. \A u \in Subtracting(n) : u # t /\ u \in Thread
    BY <2>1 DEF Subtracting
  <2>3. BatchBytes(n)' = BatchBytes(n)
    BY <2>1, <2>2 DEF BatchBytes, Bytes
  <2>4. BinBytes(n)' = BinBytes(n)
    BY DEF BinBytes, Bytes
  <2>5. QED
    BY <2>3, <2>4 DEF Charged
<1>2. BinsBounded'
  BY DEF FInv, BinsBounded
<1>3. \A u \in Thread : pc'[u] = "enqueue" => \E b : batch'[u] = {b}
  BY DEF FInv
<1>4. QED
  BY <1>1, <1>2, <1>3 DEF FInv

LEMMA DrainFInv ==
  ASSUME IInv, FInv, NEW t \in Thread, Drain(t)
  PROVE  FInv'
<1> DEFINE k == at[t]
<1>1. k \in Key /\ batch[t] = {}
  BY DEF Drain, IInv, TypeOK, Returning
<1>2. /\ batch'[t] = bin[k]
      /\ \A u \in Thread : u # t => batch'[u] = batch[u] /\ pc'[u] = pc[u]
      /\ bin'[k] = {}
      /\ \A j \in Key : j # k => bin'[j] = bin[j]
      /\ pc[t] = "drain"
      /\ pc'[t] = IF bin[k] = {} THEN "retry" ELSE "drainSub"
      /\ UNCHANGED <<foreignBytes, at>>
  BY <1>1 DEF Drain, GoTo, IInv, TypeOK
<1>3. ASSUME NEW n \in Node PROVE Charged(n)' = Charged(n)
  <2>1. \A u \in Thread : u # t => (u \in Subtracting(n)' <=> u \in Subtracting(n))
    BY <1>2 DEF Subtracting
  <2>2. t \notin Subtracting(n)
    BY <1>2 DEF Subtracting
  <2>3. t \in Subtracting(n)' <=> NodeOf(k) = n /\ bin[k] # {}
    BY <1>2 DEF Subtracting
  <2>4. ASSUME NEW x \in Charged(n)' PROVE x \in Charged(n)
    <3>1. CASE x \in BinBytes(n)'
      BY <1>2, <3>1 DEF Charged, BinBytes, Bytes
    <3>2. CASE x \in BatchBytes(n)'
      <4>1. PICK u \in Subtracting(n)' : x \in Bytes(at[u], batch'[u])
        BY <1>2, <3>2 DEF BatchBytes, Bytes
      <4>2. u \in Thread
        BY DEF Subtracting
      <4>3. CASE u = t
        BY <1>1, <1>2, <2>3, <4>1, <4>3 DEF Charged, BinBytes
      <4>4. CASE u # t
        BY <1>2, <2>1, <4>1, <4>2, <4>4 DEF Charged, BatchBytes
      <4>5. QED
        BY <4>3, <4>4
    <3>3. QED
      BY <2>4, <3>1, <3>2 DEF Charged
  <2>5. ASSUME NEW x \in Charged(n) PROVE x \in Charged(n)'
    <3>1. CASE x \in BinBytes(n)
      <4>1. PICK j \in Key : NodeOf(j) = n /\ x \in Bytes(j, bin[j])
        BY <3>1 DEF BinBytes
      <4>2. CASE j = k
        <5>1. bin[k] # {} /\ t \in Subtracting(n)'
          BY <2>3, <4>1, <4>2 DEF Bytes
        <5>2. x \in Bytes(at'[t], batch'[t])
          BY <1>2, <4>1, <4>2
        <5>3. QED
          BY <5>1, <5>2 DEF Charged, BatchBytes, Bytes
      <4>3. CASE j # k
        BY <1>2, <4>1, <4>3 DEF Charged, BinBytes, Bytes
      <4>4. QED
        BY <4>2, <4>3
    <3>2. CASE x \in BatchBytes(n)
      <4>1. PICK u \in Subtracting(n) : x \in Bytes(at[u], batch[u])
        BY <3>2 DEF BatchBytes
      <4>2. u \in Thread /\ u # t
        BY <2>2 DEF Subtracting
      <4>3. u \in Subtracting(n)' /\ x \in Bytes(at'[u], batch'[u])
        BY <1>2, <2>1, <4>1, <4>2
      <4>4. QED
        BY <4>3 DEF Charged, BatchBytes, Bytes
    <3>3. QED
      BY <2>5, <3>1, <3>2 DEF Charged
  <2>6. QED
    BY <2>4, <2>5
<1>4. BinsBounded'
  <2>1. \A j \in Key : SizeOf(j) \in Nat /\ High(j) \in Nat
    BY NumaArenaAssumption DEF Key, SizeOf, High
  <2>2. Cardinality(bin'[k]) * SizeOf(k) <= High(k)
    BY <1>1, <1>2, <2>1, FS_EmptySet
  <2>3. QED
    BY <1>2, <2>2 DEF FInv, BinsBounded, High, SizeOf
<1>5. \A u \in Thread : pc'[u] = "enqueue" => \E b : batch'[u] = {b}
  BY <1>2 DEF FInv
<1>6. QED
  BY <1>2, <1>3, <1>4, <1>5 DEF FInv

(***************************************************************************)
(* fetch_sub takes off the bytes of the batch, which no bin and no other   *)
(* batch has.                                                              *)
(***************************************************************************)
LEMMA SubForeignFInv ==
  ASSUME IInv, FInv, NEW t \in Thread, SubForeign(t)
  PROVE  FInv'
<1>a. PICK k \in Key : k = at[t]
  BY DEF SubForeign, IInv, TypeOK
<1>b. PICK m \in Node : m = NodeOf(k)
  BY DEF Key, NodeOf
<1> DEFINE X == Bytes(k, batch[t])
<1>1. k = at[t] /\ m = NodeOf(k) /\ batch[t] \in SUBSET Block
  BY <1>a, <1>b DEF IInv, TypeOK
<1>2. /\ UNCHANGED <<bin, at, batch>>
      /\ pc[t] \in Sub
      /\ pc'[t] \in {"drainFree", "overflowFree"}
      /\ \A u \in Thread : u # t => pc'[u] = pc[u]
      /\ foreignBytes'[m] = foreignBytes[m] - Cardinality(batch[t]) * SizeOf(k)
      /\ \A n \in Node : n # m => foreignBytes'[n] = foreignBytes[n]
  BY <1>1 DEF SubForeign, GoTo, IInv, TypeOK, Sub
<1>3. \A n \in Node : /\ BinBytes(n)' = BinBytes(n)
                      /\ n # m => Subtracting(n)' = Subtracting(n)
                      /\ Subtracting(m) = Subtracting(m)' \cup {t}
                      /\ t \notin Subtracting(m)'
  BY <1>1, <1>2 DEF BinBytes, Bytes, Subtracting, Sub
<1>4. \A n \in Node : n # m => Charged(n)' = Charged(n)
  BY <1>2, <1>3 DEF Charged, BatchBytes, Bytes
<1>5. Charged(m) = Charged(m)' \cup X
  <2>1. BatchBytes(m) = BatchBytes(m)' \cup X
    BY <1>1, <1>2, <1>3 DEF BatchBytes, Bytes
  <2>2. QED
    BY <1>1, <1>3, <2>1 DEF Charged
<1>6. Charged(m)' \cap X = {}
  <2>1. BinBytes(m) \cap X = {}
    BY DEF IInv, HeldOnce, BinBytes, Bytes
  <2>2. \A u \in Subtracting(m)' : u \in Thread /\ u # t
    BY <1>3 DEF Subtracting
  <2>3. BatchBytes(m)' \cap X = {}
    BY <1>2, <2>2 DEF IInv, HeldOnce, BatchBytes, Bytes
  <2>4. QED
    BY <1>1, <1>3, <2>1, <2>3 DEF Charged
<1>7. IsFiniteSet(Charged(m)')
  BY <1>1, <1>5, FS_Subset DEF FInv
<1>8. Cardinality(Charged(m)) = Cardinality(Charged(m)') + Cardinality(batch[t]) * SizeOf(k)
  BY <1>1, <1>5, <1>6, <1>7, Charge
<1>9. foreignBytes'[m] = Cardinality(Charged(m)')
  <2>1. Cardinality(batch[t]) \in Nat /\ SizeOf(k) \in Nat
    BY <1>1, FiniteBatch, NumaArenaAssumption DEF Key, SizeOf
  <2>2. Cardinality(batch[t]) * SizeOf(k) \in Nat
    BY <2>1
  <2>3. Cardinality(Charged(m)') \in Nat
    BY <1>7, FS_CardinalityType
  <2>4. foreignBytes[m] = Cardinality(Charged(m))
    BY <1>1 DEF FInv
  <2>5. QED
    BY <1>2, <1>8, <2>2, <2>3, <2>4
<1>10. BinsBounded'
  BY <1>2 DEF FInv, BinsBounded
<1>11. \A u \in Thread : pc'[u] = "enqueue" => \E b : batch'[u] = {b}
  BY <1>2 DEF FInv
<1>12. QED
  BY <1>2, <1>4, <1>7, <1>9, <1>10, <1>11 DEF FInv

(***************************************************************************)
(* fetch_add counts the one block that is pushed; what overflows stays     *)
(* counted until its fetch_sub.                                            *)
(***************************************************************************)
LEMMA EnqueueFInv ==
  ASSUME IInv, FInv, NEW t \in Thread, Enqueue(t)
  PROVE  FInv'
<1>a. PICK k \in Key : k = at[t]
  BY DEF Enqueue, IInv, TypeOK
<1>b. PICK m \in Node : m = NodeOf(k)
  BY DEF Key, NodeOf
<1> DEFINE B == bin[k] \cup batch[t]
           X == Bytes(k, batch[t])
<1>1. /\ k = at[t] /\ m = NodeOf(k)
      /\ batch[t] \in SUBSET Block /\ B \in SUBSET Block
  BY <1>a, <1>b DEF IInv, TypeOK
<1>2. pc[t] = "enqueue" /\ Cardinality(batch[t]) = 1
  <2>1. PICK b : batch[t] = {b}
    BY DEF Enqueue, FInv
  <2>2. QED
    BY <2>1, FS_Singleton DEF Enqueue
<1>3. PICK D \in SUBSET B :
        /\ bin' = [bin EXCEPT ![k] = B \ D]
        /\ batch' = [batch EXCEPT ![t] = D]
        /\ \/ pc' = [pc EXCEPT ![t] = "overflowSub"] /\ UNCHANGED at
           \/ /\ D = {}
              /\ pc' = [pc EXCEPT ![t] = "idle"]
              /\ at' = [at EXCEPT ![t] = NoKey]
        /\ Cardinality(B \ D) * SizeOf(k) <= High(k)
  <2>1. CASE Cardinality(B) * SizeOf(k) > High(k)
    <3>1. PICK D \in OverflowBatches(k, B) :
            /\ bin' = [bin EXCEPT ![k] = B \ D]
            /\ batch' = [batch EXCEPT ![t] = D]
            /\ pc' = [pc EXCEPT ![t] = "overflowSub"]
            /\ UNCHANGED at
      BY <1>1, <2>1 DEF Enqueue, GoTo
    <3>2. /\ D \in SUBSET B
          /\ (Cardinality(B) - Cardinality(D)) * SizeOf(k) <= Low(k)
      BY DEF OverflowBatches
    <3>3. Cardinality(B \ D) = Cardinality(B) - Cardinality(D)
      <4>1. IsFiniteSet(B)
        BY <1>1, FiniteBlocks, FS_Subset
      <4>2. B \cap D = D
        BY <3>2
      <4>3. QED
        BY <4>1, <4>2, FS_Difference
    <3>4. Low(k) <= High(k)
      <4>1. High(k) \in Nat
        BY <1>1, NumaArenaAssumption DEF Key, High
      <4>2. QED
        BY <4>1 DEF Low
    <3>5. Cardinality(B \ D) \in Nat /\ SizeOf(k) \in Nat /\ Low(k) \in Int /\ High(k) \in Int
      <4>1. High(k) \in Nat /\ SizeOf(k) \in Nat
        BY <1>1, NumaArenaAssumption DEF Key, High, SizeOf
      <4>2. QED
        BY <1>1, <4>1, FiniteBatch DEF Low
    <3>6. Cardinality(B \ D) * SizeOf(k) <= Low(k)
      BY <3>2, <3>3
    <3>7. Cardinality(B \ D) * SizeOf(k) \in Int
      BY <3>5
    <3>8. Cardinality(B \ D) * SizeOf(k) <= High(k)
      BY <3>4, <3>5, <3>6, <3>7
    <3>9. QED
      BY <3>1, <3>2, <3>8
  <2>2. CASE ~(Cardinality(B) * SizeOf(k) > High(k))
    <3>1. /\ bin' = [bin EXCEPT ![k] = B]
          /\ batch' = [batch EXCEPT ![t] = {}]
          /\ pc' = [pc EXCEPT ![t] = "idle"]
          /\ at' = [at EXCEPT ![t] = NoKey]
      BY <1>1, <2>2 DEF Enqueue, Return, GoTo
    <3>2. B \ {} = B
      OBVIOUS
    <3>3. High(k) \in Nat /\ SizeOf(k) \in Nat
      BY <1>1, NumaArenaAssumption DEF Key, High, SizeOf
    <3>4. Cardinality(B) * SizeOf(k) \in Nat
      BY <1>1, <3>3, FiniteBatch
    <3>5. Cardinality(B) * SizeOf(k) <= High(k)
      BY <2>2, <3>3, <3>4
    <3>6. QED
      BY <3>1, <3>2, <3>5
  <2>3. QED
    BY <2>1, <2>2
<1>4. /\ foreignBytes'[m] = foreignBytes[m] + SizeOf(k)
      /\ \A n \in Node : n # m => foreignBytes'[n] = foreignBytes[n]
  BY <1>1 DEF Enqueue, IInv, TypeOK
<1>5. /\ batch'[t] = D
      /\ \A u \in Thread : u # t =>
           batch'[u] = batch[u] /\ pc'[u] = pc[u] /\ at'[u] = at[u]
      /\ bin'[k] = B \ D
      /\ \A j \in Key : j # k => bin'[j] = bin[j]
      /\ pc'[t] \in {"overflowSub", "idle"}
      /\ D # {} => pc'[t] = "overflowSub"
      /\ pc'[t] = "overflowSub" => at'[t] = k
  BY <1>1, <1>3 DEF IInv, TypeOK
<1>6. \A n \in Node : /\ t \notin Subtracting(n)
                      /\ \A u \in Thread : u # t => (u \in Subtracting(n)' <=> u \in Subtracting(n))
                      /\ t \in Subtracting(n)' <=> (n = m /\ pc'[t] = "overflowSub")
  BY <1>1, <1>2, <1>5 DEF Subtracting
<1>7. ASSUME NEW n \in Node, n # m PROVE Charged(n)' = Charged(n)
  <2>1. Subtracting(n)' = Subtracting(n)
    BY <1>6, <1>7 DEF Subtracting
  <2>2. \A u \in Subtracting(n) : u \in Thread /\ u # t
    BY <1>6 DEF Subtracting
  <2>3. BatchBytes(n)' = BatchBytes(n)
    BY <1>5, <2>1, <2>2 DEF BatchBytes, Bytes
  <2>4. BinBytes(n)' = BinBytes(n)
    BY <1>1, <1>5, <1>7 DEF BinBytes, Bytes
  <2>5. QED
    BY <2>3, <2>4 DEF Charged
<1>8. Charged(m)' = Charged(m) \cup X
  <2>1. ASSUME NEW x \in Charged(m)' PROVE x \in Charged(m) \cup X
    <3>1. CASE x \in BinBytes(m)'
      <4>1. PICK j \in Key : NodeOf(j) = m /\ x \in Bytes(j, bin'[j])
        BY <3>1 DEF BinBytes, Bytes
      <4>2. CASE j = k
        BY <1>5, <4>1, <4>2 DEF Charged, BinBytes, Bytes
      <4>3. CASE j # k
        BY <1>5, <4>1, <4>3 DEF Charged, BinBytes
      <4>4. QED
        BY <4>2, <4>3
    <3>2. CASE x \in BatchBytes(m)'
      <4>1. PICK u \in Subtracting(m)' : x \in Bytes(at'[u], batch'[u])
        BY <3>2 DEF BatchBytes, Bytes
      <4>2. u \in Thread
        BY DEF Subtracting
      <4>3. CASE u = t
        <5>1. x \in Bytes(k, D)
          BY <1>1, <1>5, <1>6, <4>1, <4>3
        <5>2. x \in Bytes(k, bin[k]) \cup X
          BY <5>1 DEF Bytes
        <5>3. QED
          BY <1>1, <5>2 DEF Charged, BinBytes
      <4>4. CASE u # t
        BY <1>1, <1>5, <1>6, <4>1, <4>2, <4>4 DEF Charged, BatchBytes
      <4>5. QED
        BY <4>3, <4>4
    <3>3. QED
      BY <2>1, <3>1, <3>2 DEF Charged
  <2>2. ASSUME NEW x \in Bytes(k, B) PROVE x \in Charged(m)'
    <3>1. CASE x \in Bytes(k, B \ D)
      <4>1. x \in Bytes(k, bin'[k])
        BY <1>5, <3>1
      <4>2. QED
        BY <1>1, <4>1 DEF Charged, BinBytes, Bytes
    <3>2. CASE x \in Bytes(k, D)
      <4>1. t \in Subtracting(m)' /\ x \in Bytes(at'[t], batch'[t])
        BY <1>1, <1>5, <1>6, <3>2 DEF Bytes
      <4>2. QED
        BY <4>1 DEF Charged, BatchBytes, Bytes
    <3>3. QED
      BY <3>1, <3>2 DEF Bytes
  <2>3. ASSUME NEW x \in Charged(m) PROVE x \in Charged(m)'
    <3>1. CASE x \in BinBytes(m)
      <4>1. PICK j \in Key : NodeOf(j) = m /\ x \in Bytes(j, bin[j])
        BY <3>1 DEF BinBytes
      <4>2. CASE j = k
        BY <2>2, <4>1, <4>2 DEF Bytes
      <4>3. CASE j # k
        BY <1>5, <4>1, <4>3 DEF Charged, BinBytes, Bytes
      <4>4. QED
        BY <4>2, <4>3
    <3>2. CASE x \in BatchBytes(m)
      <4>1. PICK u \in Subtracting(m) : x \in Bytes(at[u], batch[u])
        BY <3>2 DEF BatchBytes
      <4>2. u \in Thread /\ u # t
        BY <1>1, <1>6 DEF Subtracting
      <4>3. u \in Subtracting(m)' /\ x \in Bytes(at'[u], batch'[u])
        BY <1>1, <1>5, <1>6, <4>1, <4>2
      <4>4. QED
        BY <4>3 DEF Charged, BatchBytes, Bytes
    <3>3. QED
      BY <2>3, <3>1, <3>2 DEF Charged
  <2>4. X \subseteq Bytes(k, B)
    BY DEF Bytes
  <2>5. QED
    BY <2>1, <2>2, <2>3, <2>4
<1>9. Charged(m) \cap X = {}
  <2>1. BinBytes(m) \cap X = {}
    BY DEF IInv, HeldOnce, BinBytes, Bytes
  <2>2. \A u \in Subtracting(m) : u \in Thread /\ u # t
    BY <1>1, <1>6 DEF Subtracting
  <2>3. BatchBytes(m) \cap X = {}
    BY <2>2 DEF IInv, HeldOnce, BatchBytes, Bytes
  <2>4. QED
    BY <2>1, <2>3 DEF Charged
<1>10. IsFiniteSet(Charged(m)) /\ foreignBytes[m] = Cardinality(Charged(m))
  BY <1>1 DEF FInv
<1>11. /\ IsFiniteSet(Charged(m)')
       /\ Cardinality(Charged(m)') = Cardinality(Charged(m)) + Cardinality(batch[t]) * SizeOf(k)
  BY <1>1, <1>8, <1>9, <1>10, Charge
<1>12. foreignBytes'[m] = Cardinality(Charged(m)')
  <2>1. SizeOf(k) \in Nat
    BY <1>1, NumaArenaAssumption DEF Key, SizeOf
  <2>2. Cardinality(batch[t]) * SizeOf(k) = SizeOf(k)
    BY <1>2, <2>1
  <2>3. QED
    BY <1>4, <1>10, <1>11, <2>2
<1>13. BinsBounded'
  BY <1>3, <1>5 DEF FInv, BinsBounded, High, SizeOf
<1>14. \A u \in Thread : pc'[u] = "enqueue" => \E b : batch'[u] = {b}
  BY <1>5 DEF FInv
<1>15. QED
  BY <1>4, <1>7, <1>11, <1>12, <1>13, <1>14 DEF FInv

LEMMA NextFInv == IInv /\ FInv /\ [Next]_vars => FInv'
<1> SUFFICES ASSUME IInv, FInv, [Next]_vars PROVE FInv'
  OBVIOUS
<1>1. ASSUME NEW t \in Thread, NEW k \in Key, CallAllocate(t, k) PROVE FInv'
  BY <1>1, FrameFInv DEF CallAllocate, GoTo, IInv, TypeOK, Sub
<1>2. ASSUME NEW t \in Thread, NEW n \in Node, NEW b \in out, CallDeallocate(t, n, b)
      PROVE  FInv'
  BY <1>2, FrameFInv DEF CallDeallocate, GoTo, IInv, TypeOK, Sub
<1>3. ASSUME NEW t \in Thread, TakeExisting(t) \/ Grow(t) PROVE FInv'
  BY <1>3, FrameFInv
     DEF TakeExisting, Grow, MustGrow, HandOut, Return, GoTo, IInv, TypeOK, Sub
<1>4. ASSUME NEW t \in Thread, Miss(t) PROVE FInv'
  BY <1>4, FrameFInv DEF Miss, GoTo, IInv, TypeOK, Sub
<1>5. ASSUME NEW t \in Thread, MapFails(t) \/ PushBackFails(t) PROVE FInv'
  BY <1>5, FrameFInv
     DEF MapFails, PushBackFails, MustGrow, Return, GoTo, IInv, TypeOK, Sub
<1>6. ASSUME NEW t \in Thread, FreeDrained(t) \/ Free(t) PROVE FInv'
  BY <1>6, FrameFInv
     DEF FreeDrained, Free, FreeBatch, Return, GoTo, IInv, TypeOK, Sub
<1>7. CASE UNCHANGED vars
  <2>1. \A n \in Node : Charged(n)' = Charged(n)
    BY <1>7 DEF vars, Charged, BinBytes, BatchBytes, Bytes, Subtracting
  <2>2. BinsBounded'
    BY <1>7 DEF vars, FInv, BinsBounded
  <2>3. QED
    BY <1>7, <2>1, <2>2 DEF vars, FInv
<1>8. QED
  BY <1>1, <1>2, <1>3, <1>4, <1>5, <1>6, <1>7, DrainFInv, SubForeignFInv,
     EnqueueFInv DEF Next, Step

LEMMA SpecFInv == Spec => [](IInv /\ FInv)
<1>1. Init => IInv /\ FInv
  BY InitIInv, InitFInv
<1>2. IInv /\ FInv /\ [Next]_vars => (IInv /\ FInv)'
  BY NextIInv, NextFInv
<1>3. QED
  BY <1>1, <1>2, PTL DEF Spec

(***************************************************************************)
(* The atomic counter and the bins agree up to the fetch_subs under way.   *)
(***************************************************************************)
THEOREM ForeignBytesAlwaysAccounted == Spec => []ForeignBytesAccounted
<1>1. FInv => ForeignBytesAccounted
  BY DEF FInv, ForeignBytesAccounted, Charged
<1>2. QED
  BY <1>1, SpecFInv, PTL

(***************************************************************************)
(* No foreign bin ever rests above its high watermark.                     *)
(***************************************************************************)
THEOREM BinsAlwaysBounded == Spec => []BinsBounded
<1>1. FInv => BinsBounded
  BY DEF FInv
<1>2. QED
  BY <1>1, SpecFInv, PTL

-----------------------------------------------------------------------------
(* allocate() and the blocks in the bin *)

\* Past the look at foreign_bytes_, or past the detaching of the bin.
Looked == {"direct", "drainSub", "drainFree", "retry", "newSlab"}

\* Without the foreign freelist there is nothing to overlook.
NoForeign ==
  ~ForeignFreelist => /\ \A k \in Key : bin[k] = {}
                      /\ \A t \in Thread : pc[t] # "enqueue"

HInv ==
  /\ NoForeign
  /\ \A t \in Thread : pc[t] \in Looked => bin[at[t]] = {} \/ late[t]

LEMMA NextNoForeign ==
  ASSUME IInv, NoForeign, [Next]_vars
  PROVE  NoForeign'
<1> SUFFICES ASSUME ~ForeignFreelist
             PROVE  /\ \A k \in Key : bin'[k] = {}
                    /\ \A t \in Thread : pc'[t] # "enqueue"
  BY DEF NoForeign
<1>1. /\ \A k \in Key : bin[k] = {}
      /\ \A t \in Thread : pc[t] # "enqueue"
  BY DEF NoForeign
<1>2. ASSUME NEW t \in Thread, Step(t) PROVE UNCHANGED bin \/ Drain(t)
  BY <1>1, <1>2
     DEF Step, TakeExisting, Grow, HandOut, Miss, MapFails, PushBackFails,
         SubForeign, FreeDrained, Free, FreeBatch, Enqueue
<1>3. \A k \in Key : bin'[k] = {}
  <2>1. ASSUME NEW t \in Thread, Drain(t) PROVE \A k \in Key : bin'[k] = {}
    BY <1>1, <2>1 DEF Drain, IInv, TypeOK
  <2>2. QED
    BY <1>1, <1>2, <2>1 DEF Next, CallAllocate, CallDeallocate, vars
<1>4. \A t \in Thread : pc'[t] # "enqueue"
  <2>1. ASSUME NEW t \in Thread, NEW label, label # "enqueue", GoTo(t, label)
        PROVE  \A u \in Thread : pc'[u] # "enqueue"
    BY <1>1, <2>1 DEF GoTo, IInv, TypeOK
  <2>2. ASSUME NEW t \in Thread, Step(t) PROVE \E label : label # "enqueue" /\ GoTo(t, label)
    BY <1>1, <2>2
       DEF Step, TakeExisting, Grow, HandOut, Miss, MapFails, PushBackFails,
           Drain, SubForeign, FreeDrained, Free, Enqueue, Return
  <2>3. ASSUME NEW t \in Thread, NEW k \in Key, CallAllocate(t, k)
        PROVE  \E label : label # "enqueue" /\ GoTo(t, label)
    BY <2>3 DEF CallAllocate
  <2>4. ASSUME NEW t \in Thread, NEW n \in Node, NEW b \in out, CallDeallocate(t, n, b)
        PROVE  \E label : label # "enqueue" /\ GoTo(t, label)
    BY <2>4 DEF CallDeallocate
  <2>5. CASE UNCHANGED vars
    BY <1>1, <2>5 DEF vars
  <2>6. QED
    BY <2>1, <2>2, <2>3, <2>4, <2>5 DEF Next
<1>5. QED
  BY <1>3, <1>4

(***************************************************************************)
(* A thread comes to Looked past an empty bin only.                        *)
(***************************************************************************)
LEMMA LooksIntoEmptyBin ==
  ASSUME IInv, FInv, NoForeign, Next, NEW t \in Thread, pc'[t] \in Looked
  PROVE  \/ pc[t] \in Looked /\ at'[t] = at[t]
         \/ bin'[at'[t]] = {}
<1>1. ASSUME NEW k \in Key, CallAllocate(t, k) PROVE bin'[at'[t]] = {}
  <2>1. at'[t] = k /\ bin' = bin
    BY <1>1 DEF CallAllocate, IInv, TypeOK
  <2>2. ~ForeignFreelist \/ foreignBytes[NodeOf(k)] = 0
    BY <1>1 DEF CallAllocate, GoTo, IInv, TypeOK, Looked
  <2>3. QED
    BY <2>1, <2>2, NoBytesNoBlocks DEF NoForeign
<1>2. CASE Drain(t)
  <2>1. at[t] \in Key
    BY <1>2 DEF Drain, IInv, TypeOK
  <2>2. QED
    BY <1>2, <2>1 DEF Drain, IInv, TypeOK
<1>3. CASE Miss(t) \/ SubForeign(t) \/ FreeDrained(t)
  BY <1>3 DEF Miss, SubForeign, FreeDrained, GoTo, IInv, TypeOK, Looked
<1>4. ASSUME \/ TakeExisting(t) \/ Grow(t) \/ MapFails(t) \/ PushBackFails(t)
             \/ Free(t)
      PROVE  FALSE
  BY <1>4
     DEF TakeExisting, Grow, HandOut, MapFails, PushBackFails, Free, Return,
         GoTo, IInv, TypeOK, Looked
<1>5. ASSUME Enqueue(t) PROVE FALSE
  BY <1>5 DEF Enqueue, Return, GoTo, IInv, TypeOK, Looked
<1>6. ASSUME NEW n \in Node, NEW b \in out, CallDeallocate(t, n, b) PROVE FALSE
  BY <1>6 DEF CallDeallocate, GoTo, IInv, TypeOK, Looked
<1>7. ASSUME NEW u \in Thread, u # t,
             \/ Step(u)
             \/ \E k \in Key : CallAllocate(u, k)
             \/ \E n \in Node, b \in out : CallDeallocate(u, n, b)
      PROVE  pc'[t] = pc[t] /\ at'[t] = at[t]
  <2>1. CASE Step(u)
    <3>1. /\ \E label : pc' = [pc EXCEPT ![u] = label]
          /\ at' = at \/ at' = [at EXCEPT ![u] = NoKey]
      BY <2>1
         DEF Step, TakeExisting, Grow, HandOut, Miss, MapFails, PushBackFails,
             Drain, SubForeign, FreeDrained, Free, Enqueue, Return, GoTo
    <3>2. QED
      BY <1>7, <3>1 DEF IInv, TypeOK
  <2>2. QED
    BY <1>7, <2>1 DEF CallAllocate, CallDeallocate, GoTo, IInv, TypeOK
<1>8. QED
  BY <1>1, <1>2, <1>3, <1>4, <1>5, <1>6, <1>7 DEF Next, Step

LEMMA NextHInv ==
  IInv /\ FInv /\ HInv /\ [HistoryNext]_<<vars, late>> => HInv'
<1> SUFFICES ASSUME IInv, FInv, HInv, [HistoryNext]_<<vars, late>> PROVE HInv'
  OBVIOUS
<1>1. NoForeign'
  BY NextNoForeign DEF HInv, HistoryNext, vars
<1>2. ASSUME NEW t \in Thread, pc'[t] \in Looked, HistoryNext
      PROVE  bin'[at'[t]] = {} \/ late'[t]
  <2>1. ASSUME pc[t] \in Looked, at'[t] = at[t]
        PROVE  bin'[at'[t]] = {} \/ late'[t]
    <3>1. late'[t] = (late[t] \/ bin'[at[t]] \ bin[at[t]] # {})
      BY <1>2, <2>1 DEF HistoryNext, InAllocate, Looked
    <3>2. bin[at[t]] = {} \/ late[t]
      BY <2>1 DEF HInv
    <3>3. QED
      BY <2>1, <3>1, <3>2
  <2>2. QED
    BY <1>2, <2>1, LooksIntoEmptyBin DEF HInv, HistoryNext
<1>3. ASSUME NEW t \in Thread, pc'[t] \in Looked, UNCHANGED <<vars, late>>
      PROVE  bin'[at'[t]] = {} \/ late'[t]
  BY <1>3 DEF HInv, vars
<1>4. QED
  BY <1>1, <1>2, <1>3 DEF HInv

(***************************************************************************)
(* No allocate() maps a slab past a block that its bin held when it        *)
(* looked: by the byte count if it took the fast path, since what waits in *)
(* a bin is counted, by the drain if it did not.                           *)
(***************************************************************************)
THEOREM AlwaysGrowsPastLateBlocksOnly == HistorySpec => GrowsPastLateBlocksOnly
<1>1. HistoryInit => IInv /\ FInv /\ HInv
  BY InitIInv, InitFInv DEF HistoryInit, Init, HInv, NoForeign, Looked
<1>2. IInv /\ FInv /\ HInv /\ [HistoryNext]_<<vars, late>> => (IInv /\ FInv /\ HInv)'
  <2>1. [HistoryNext]_<<vars, late>> => [Next]_vars
    BY DEF HistoryNext
  <2>2. QED
    BY <2>1, NextIInv, NextFInv, NextHInv
<1>3. HInv => [\A t \in Thread : Grow(t) => bin[at[t]] = {} \/ late[t]]_<<vars, late>>
  BY DEF HInv, Grow, MustGrow, Looked
<1>4. QED
  BY <1>1, <1>2, <1>3, PTL DEF HistorySpec, GrowsPastLateBlocksOnly

-----------------------------------------------------------------------------
(* Refinement.  Every SizeClass of every arena, used by any number of      *)
(* threads through its bins and batches, behaves as SlabPool specifies.  A *)
(* block that waits in a foreign bin or in a batch is still out for its    *)
(* class, so only handing out a block, growing and taking a batch back are *)
(* steps of SlabPool, and only for the one class the thread works on.      *)

(***************************************************************************)
(* The instance of Slabs inside ClassOf(k) has the operators of Slabs.     *)
(***************************************************************************)
LEMMA ClassOperators ==
  ASSUME NEW k \in Key
  PROVE  /\ ClassOf(k)!NewPool = NewPool
         /\ ClassOf(k)!Index = Index
         /\ \A s : ClassOf(k)!BlocksOf(s) = BlocksOf(s)
         /\ \A P : ClassOf(k)!Available(P) = Available(P)
         /\ \A P, b : ClassOf(k)!Take(P, b) = Take(P, b)
         /\ \A P, s : ClassOf(k)!MapSlab(P, s) = MapSlab(P, s)
         /\ \A P, s : ClassOf(k)!AddSlab(P, s) = AddSlab(P, s)
         /\ \A P, B : ClassOf(k)!DeallocateBatch(P, B) = DeallocateBatch(P, B)
<1>1. /\ ClassOf(k)!Index = Index
      /\ ClassOf(k)!NewPool = NewPool
  BY DEF ClassOf!Index, Index, ClassOf!NewPool, NewPool
<1>2. /\ \A b : ClassOf(k)!SlabOf(b) = SlabOf(b)
      /\ \A s : ClassOf(k)!BlocksOf(s) = BlocksOf(s)
  BY <1>1 DEF ClassOf!SlabOf, SlabOf, ClassOf!BlocksOf, BlocksOf
<1>3. \A P, s : /\ ClassOf(k)!HasFree(P, s) <=> HasFree(P, s)
                /\ ClassOf(k)!IsEmpty(P, s) <=> IsEmpty(P, s)
  BY <1>2 DEF ClassOf!HasFree, HasFree, ClassOf!IsEmpty, IsEmpty
<1>4. \A P : ClassOf(k)!ServingSlabs(P) = ServingSlabs(P)
  BY <1>3 DEF ClassOf!ServingSlabs, ServingSlabs
<1>5. \A P : ClassOf(k)!Available(P) = Available(P)
  BY <1>2, <1>4 DEF ClassOf!Available, Available
<1>6. \A P, b : ClassOf(k)!Take(P, b) = Take(P, b)
  BY <1>2 DEF ClassOf!Take, Take
<1>7. \A P, s : ClassOf(k)!MapSlab(P, s) = MapSlab(P, s)
  BY <1>2 DEF ClassOf!MapSlab, MapSlab
<1>8. \A P, s : ClassOf(k)!AddSlab(P, s) = AddSlab(P, s)
  BY <1>7 DEF ClassOf!AddSlab, AddSlab
<1>9. \A P : ClassOf(k)!EmptySlabs(P) = EmptySlabs(P)
  BY <1>3 DEF ClassOf!EmptySlabs, EmptySlabs
<1>10. \A P, s : ClassOf(k)!KeepOnly(P, s) = KeepOnly(P, s)
  BY <1>2, <1>3, <1>9 DEF ClassOf!KeepOnly, KeepOnly
<1>11. \A P : ClassOf(k)!ReleaseExtraEmptySlabs(P) = ReleaseExtraEmptySlabs(P)
  BY <1>9, <1>10 DEF ClassOf!ReleaseExtraEmptySlabs, ReleaseExtraEmptySlabs
<1>12. \A P, B : ClassOf(k)!DeallocateBatch(P, B) = DeallocateBatch(P, B)
  BY <1>2, <1>3, <1>11 DEF ClassOf!DeallocateBatch, DeallocateBatch
<1>13. QED
  BY <1>1, <1>2, <1>5, <1>6, <1>7, <1>8, <1>12

-----------------------------------------------------------------------------

\* What a step of NumaArena is for the class k.
ClassStep(k) == [ClassOf(k)!Next]_(ClassOf(k)!vars)

(***************************************************************************)
(* A class whose pool and held blocks do not change stutters.              *)
(***************************************************************************)
LEMMA ClassStutters ==
  ASSUME NEW k \in Key, pool'[k] = pool[k], OutOf(k)' = OutOf(k)
  PROVE  ClassStep(k)
BY DEF ClassStep, ClassOf!vars

LEMMA MoveRefines ==
  ASSUME UNCHANGED pool, Held' = Held, NEW k \in Key
  PROVE  ClassStep(k)
<1>1. OutOf(k)' = OutOf(k)
  BY DEF OutOf
<1>2. QED
  BY <1>1, ClassStutters

(***************************************************************************)
(* A class that hands out a block, its own or of a new slab, gains it; the *)
(* block is in no slab of another class.                                   *)
(***************************************************************************)
LEMMA HandOutOutOf ==
  ASSUME IInv, IInv', NEW t \in Thread, at[t] \in Key,
         NEW P, WellFormed(P), NEW b \in P.free, HandOut(t, P, b)
  PROVE  /\ pool'[at[t]] = Take(P, b)
         /\ Held' = Held \cup {b}
         /\ hdr'[b] = at[t]
         /\ \A k \in Key : k # at[t] => pool'[k] = pool[k] /\ OutOf(k)' = OutOf(k)
<1>1. /\ pool' = [pool EXCEPT ![at[t]] = Take(P, b)]
      /\ hdr' = [hdr EXCEPT ![b] = at[t]]
      /\ out' = out \cup {b}
      /\ UNCHANGED <<bin, batch>>
  BY DEF HandOut
<1>2. Held' = Held \cup {b}
  BY <1>1 DEF Held
<1>3. b \in Block
  BY DEF WellFormed, Pool
<1>4. hdr'[b] = at[t]
  BY <1>1, <1>3 DEF IInv, TypeOK
<1>5. pool'[at[t]] = Take(P, b) /\ \A k \in Key : k # at[t] => pool'[k] = pool[k]
  BY <1>1 DEF IInv, TypeOK
<1>6. ASSUME NEW k \in Key, k # at[t] PROVE OutOf(k)' = OutOf(k)
  <2>1. SlabOf(b) \in pool'[at[t]].mapped
    BY <1>2, <1>4 DEF IInv, Ledger
  <2>2. SlabOf(b) \notin pool'[k].mapped
    BY <1>6, <2>1 DEF IInv, Ledger
  <2>3. QED
    BY <1>2, <1>5, <1>6, <2>2 DEF OutOf
<1>7. QED
  BY <1>2, <1>4, <1>5, <1>6

LEMMA StepRefines ==
  ASSUME IInv, IInv', NEW t \in Thread, Step(t), NEW k \in Key
  PROVE  ClassStep(k)
<1> DEFINE j == at[t]
<1>1. CASE TakeExisting(t)
  <2>1. j \in Key
    BY <1>1 DEF TakeExisting, IInv, TypeOK
  <2>2. PICK b \in Available(pool[j]) : HandOut(t, pool[j], b)
    BY <1>1 DEF TakeExisting
  <2>3. WellFormed(pool[j]) /\ b \in pool[j].free
    BY <2>1 DEF IInv, Ledger, Available
  <2>4. pool'[j] = Take(pool[j], b) /\ Held' = Held \cup {b} /\ hdr'[b] = j
        /\ \A i \in Key : i # j => pool'[i] = pool[i] /\ OutOf(i)' = OutOf(i)
    BY <2>1, <2>2, <2>3, HandOutOutOf
  <2>5. CASE k = j
    <3>1. pool'[k].mapped = pool[k].mapped
      BY <2>3, <2>4, <2>5, TakeFacts
    <3>2. SlabOf(b) \in pool[k].mapped
      BY <2>3, <2>5 DEF WellFormed, SlabOf
    <3>3. OutOf(k)' = OutOf(k) \cup {b}
      BY <2>4, <3>1, <3>2 DEF OutOf
    <3>4. ClassOf(k)!AllocateExisting
      BY <2>2, <2>4, <2>5, <3>3, ClassOperators DEF ClassOf!AllocateExisting
    <3>5. QED
      BY <3>4 DEF ClassStep, ClassOf!Next
  <2>6. QED
    BY <2>4, <2>5, ClassStutters
<1>2. CASE Grow(t)
  <2>1. j \in Key
    BY <1>2 DEF Grow, MustGrow, IInv, TypeOK
  <2> PICK s \in Slab \ Mapped :
        \E b \in BlocksOf(s) : HandOut(t, AddSlab(pool[j], s), b)
    BY <1>2 DEF Grow
  <2>2. PICK b \in BlocksOf(s) : HandOut(t, AddSlab(pool[j], s), b)
    OBVIOUS
  <2>3. /\ WellFormed(pool[j])
        /\ s \notin pool[j].mapped
        /\ Available(pool[j]) = {}
    BY <1>2, <2>1 DEF Grow, MustGrow, IInv, Ledger, Mapped
  <2> DEFINE P == AddSlab(pool[j], s)
  <2>4. /\ WellFormed(P) /\ b \in P.free
        /\ P.mapped = pool[j].mapped \cup {s}
    BY <2>3, AddSlabFacts
  <2>5. pool'[j] = Take(P, b) /\ Held' = Held \cup {b} /\ hdr'[b] = j
        /\ \A i \in Key : i # j => pool'[i] = pool[i] /\ OutOf(i)' = OutOf(i)
    BY <2>1, <2>2, <2>4, HandOutOutOf
  <2>6. CASE k = j
    <3>1. pool'[k].mapped = pool[k].mapped \cup {s}
      BY <2>4, <2>5, <2>6, TakeFacts
    <3>2. \A c \in Held : SlabOf(c) # s
      BY DEF Mapped, IInv, Ledger
    <3>3. OutOf(k)' = OutOf(k) \cup {b}
      BY <2>5, <3>1, <3>2 DEF OutOf, BlocksOf, SlabOf
    <3>4. ClassOf(k)!AllocateNewSlab
      BY <2>3, <2>5, <2>6, <3>3, ClassOperators DEF ClassOf!AllocateNewSlab
    <3>5. QED
      BY <3>4 DEF ClassStep, ClassOf!Next
  <2>7. QED
    BY <2>5, <2>6, ClassStutters
<1>3. CASE PushBackFails(t)
  <2>1. j \in Key
    BY <1>3 DEF PushBackFails, MustGrow, IInv, TypeOK
  <2>2. PICK s \in Slab \ Mapped : pool' = [pool EXCEPT ![j] = MapSlab(pool[j], s)]
    BY <1>3 DEF PushBackFails
  <2>3. /\ WellFormed(pool[j])
        /\ s \notin pool[j].mapped
        /\ Available(pool[j]) = {}
    BY <1>3, <2>1 DEF PushBackFails, MustGrow, IInv, Ledger, Mapped
  <2>4. Held' = Held
    BY <1>3 DEF PushBackFails, Held
  <2>5. /\ pool'[j] = MapSlab(pool[j], s)
        /\ \A i \in Key : i # j => pool'[i] = pool[i]
    BY <2>1, <2>2 DEF IInv, TypeOK
  <2>6. CASE k = j
    <3>1. pool'[k].mapped = pool[k].mapped \cup {s}
      BY <2>3, <2>5, <2>6, MapSlabFacts
    <3>2. \A c \in Held : SlabOf(c) # s
      BY DEF Mapped, IInv, Ledger
    <3>3. OutOf(k)' = OutOf(k)
      BY <2>4, <3>1, <3>2 DEF OutOf
    <3>4. ClassOf(k)!PushBackFails
      BY <2>3, <2>5, <2>6, <3>3, ClassOperators DEF ClassOf!PushBackFails
    <3>5. QED
      BY <3>4 DEF ClassStep, ClassOf!Next
  <2>7. CASE k # j
    <3>1. OutOf(k)' = OutOf(k)
      BY <2>4, <2>5, <2>7 DEF OutOf
    <3>2. QED
      BY <2>5, <2>7, <3>1, ClassStutters
  <2>8. QED
    BY <2>6, <2>7
<1>4. CASE FreeDrained(t) \/ Free(t)
  <2>1. j \in Key /\ FreeBatch(t)
    BY <1>4 DEF FreeDrained, Free, IInv, TypeOK
  <2>2. PICK Q \in DeallocateBatch(pool[j], batch[t]) :
          /\ pool' = [pool EXCEPT ![j] = Q]
          /\ Q.mapped \subseteq pool[j].mapped
          /\ \A b \in Held \ batch[t] : hdr[b] = j => SlabOf(b) \in Q.mapped
    BY <2>1, FreeBatchFacts
  <2>3. /\ batch[t] \subseteq pool[j].mapped \X Index
        /\ Held' = Held \ batch[t]
    BY <2>1, FreeBatchFacts
  <2>4. pool'[j] = Q /\ \A i \in Key : i # j => pool'[i] = pool[i]
    BY <2>1, <2>2 DEF IInv, TypeOK
  <2>5. \A i \in Key : \A b \in Held : SlabOf(b) \in pool[i].mapped => hdr[b] = i
    BY DEF IInv, Ledger
  <2>6. CASE k = j /\ batch[t] # {}
    <3>1. OutOf(k)' = OutOf(k) \ batch[t]
      BY <2>2, <2>3, <2>4, <2>5, <2>6 DEF OutOf
    <3>2. batch[t] \in SUBSET OutOf(k)
      BY <2>3, <2>6 DEF OutOf, Held, SlabOf
    <3>3. ClassOf(k)!Deallocate
      BY <2>2, <2>4, <2>6, <3>1, <3>2, ClassOperators DEF ClassOf!Deallocate
    <3>4. QED
      BY <3>3 DEF ClassStep, ClassOf!Next
  <2>7. CASE k = j /\ batch[t] = {}
    <3>1. Q = pool[k]
      <4>1. WellFormed(pool[k])
        BY DEF IInv, Ledger
      <4>2. QED
        BY <2>2, <2>7, <4>1 DEF DeallocateBatch, WellFormed, Pool
    <3>2. OutOf(k)' = OutOf(k)
      BY <2>3, <2>4, <2>7, <3>1 DEF OutOf
    <3>3. QED
      BY <2>4, <2>7, <3>1, <3>2, ClassStutters
  <2>8. CASE k # j
    <3>1. OutOf(k)' = OutOf(k)
      <4>1. \A b \in batch[t] : b \in Held /\ SlabOf(b) \in pool[j].mapped
        BY <2>3 DEF Held, SlabOf
      <4>2. \A b \in batch[t] : SlabOf(b) \notin pool[k].mapped
        BY <2>1, <2>5, <2>8, <4>1
      <4>3. QED
        BY <2>3, <2>4, <2>8, <4>2 DEF OutOf
    <3>2. QED
      BY <2>4, <2>8, <3>1, ClassStutters
  <2>9. QED
    BY <2>6, <2>7, <2>8
<1>5. CASE Miss(t) \/ MapFails(t) \/ SubForeign(t)
  <2>1. UNCHANGED pool /\ Held' = Held
    BY <1>5 DEF Miss, MapFails, SubForeign, Held
  <2>2. QED
    BY <2>1, MoveRefines
<1>6. CASE Drain(t) \/ Enqueue(t)
  <2>1. UNCHANGED pool
    BY <1>6 DEF Drain, Enqueue
  <2>2. Held' = Held
    BY <1>6, DrainOrEnqueueKeepsHeld
  <2>3. QED
    BY <2>1, <2>2, MoveRefines
<1>7. QED
  BY <1>1, <1>2, <1>3, <1>4, <1>5, <1>6 DEF Step

LEMMA NextRefines ==
  ASSUME IInv, IInv', [Next]_vars, NEW k \in Key
  PROVE  ClassStep(k)
<1>1. ASSUME NEW t \in Thread, NEW i \in Key, CallAllocate(t, i) PROVE ClassStep(k)
  <2>1. UNCHANGED pool /\ Held' = Held
    BY <1>1 DEF CallAllocate, Held
  <2>2. QED
    BY <2>1, MoveRefines
<1>2. ASSUME NEW t \in Thread, NEW n \in Node, NEW b \in out, CallDeallocate(t, n, b)
      PROVE  ClassStep(k)
  <2>1. UNCHANGED pool
    BY <1>2 DEF CallDeallocate
  <2>2. Held' = Held
    BY <1>2, CallDeallocateKeepsHeld
  <2>3. QED
    BY <2>1, <2>2, MoveRefines
<1>3. CASE UNCHANGED vars
  <2>1. UNCHANGED pool /\ Held' = Held
    BY <1>3 DEF vars, Held
  <2>2. QED
    BY <2>1, MoveRefines
<1>4. QED
  BY <1>1, <1>2, <1>3, StepRefines DEF Next

LEMMA InitRefines ==
  ASSUME Init, NEW k \in Key
  PROVE  ClassOf(k)!Init
<1>1. pool[k] = NewPool /\ OutOf(k) = {}
  BY DEF Init, Held, OutOf
<1>2. QED
  BY <1>1, ClassOperators DEF ClassOf!Init

(***************************************************************************)
(* Whatever the threads do, each SizeClass of each arena does only what    *)
(* SlabPool lets a class do: its mutex and the routing of foreign frees    *)
(* suffice to use it as an object with one caller at a time.               *)
(***************************************************************************)
THEOREM ArenasImplementSlabPools == Spec => ImplementsSlabPools
<1>1. Init => \A k \in Key : ClassOf(k)!Init
  BY InitRefines
<1>2. IInv /\ IInv' /\ [Next]_vars
        => [\A k \in Key : [ClassOf(k)!Next]_(ClassOf(k)!vars)]_vars
  BY NextRefines DEF ClassStep
<1>3. QED
  BY <1>1, <1>2, SpecIInv, PTL DEF Spec, ImplementsSlabPools
=============================================================================
