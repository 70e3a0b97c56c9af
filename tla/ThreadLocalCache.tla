-------------------------- MODULE ThreadLocalCache --------------------------
(***************************************************************************)
(* ThreadLocalCache and the thread_local ThreadNumaContextOwner that keeps *)
(* it, in front of the arenas of NumaArena.tla.  The cache belongs to its  *)
(* thread, so an operation that stays in it is one step; one that goes on  *)
(* to the arena is a call of NumaArena.  The scheduler may move a thread   *)
(* to another node between any two steps, and the node of its CPU is read  *)
(* anew each time the code calls current_node_from_cpu().                  *)
(*                                                                         *)
(* For the arenas a cached block is still out; the blocks the callers have *)
(* are those of out which no cache holds.                                  *)
(***************************************************************************)
EXTENDS NumaArena

CONSTANT NoNode  \* the node of a thread whose owner has no cache (null)

ASSUME ThreadLocalCacheAssumption == NoNode \notin Node

VARIABLES
  cpu,     \* the node of the CPU each thread runs on
  node,    \* node_id_ of the thread's cache, NoNode if cache_ is null
  use,     \* its use_thread_cache_
  cached,  \* cached[t][c]: the blocks of its bins_
  phase,   \* what the owner is doing
  wanted,  \* the argument of configure()
  next     \* node_id_ of the replacement made by configure()

cacheVars == <<cpu, node, use, cached, phase, wanted, next>>

allVars == <<vars, cacheVars>>

Phase == {"run",
          "configure", "replace", "flush",  \* in configure()
          "exit", "gone"}                   \* in and after ~ThreadNumaContextOwner

CacheTypeOK ==
  /\ cpu \in [Thread -> Node]
  /\ node \in [Thread -> Node \cup {NoNode}]
  /\ use \in [Thread -> BOOLEAN]
  /\ cached \in [Thread -> [Class -> SUBSET Block]]
  /\ phase \in [Thread -> Phase]
  /\ wanted \in [Thread -> BOOLEAN]
  /\ next \in [Thread -> Node \cup {NoNode}]
  /\ \A t \in Thread :
       \* configure() works on a cache, and its replacement is not left behind.
       /\ phase[t] \in {"configure", "replace", "flush"} => node[t] # NoNode
       /\ next[t] # NoNode <=> phase[t] = "flush"

CacheInit ==
  /\ Init
  /\ cpu \in [Thread -> Node]
  /\ node = [t \in Thread |-> NoNode]
  /\ use = [t \in Thread |-> FALSE]
  /\ cached = [t \in Thread |-> [c \in Class |-> {}]]
  /\ phase = [t \in Thread |-> "run"]
  /\ wanted = [t \in Thread |-> FALSE]
  /\ next = [t \in Thread |-> NoNode]

CachedBy(t) == UNION {cached[t][c] : c \in Class}

\* Blocks the callers have.
InUse == {b \in out : \A t \in Thread : b \notin CachedBy(t)}

Ready(t) == phase[t] = "run" /\ pc[t] = "idle"

Turn(t, p) == phase' = [phase EXCEPT ![t] = p]

-----------------------------------------------------------------------------
(* ThreadLocalCache::current(): ensure_cache(true), then the cache. *)

Home(t) == IF node[t] = NoNode THEN cpu[t] ELSE node[t]
Uses(t) == node[t] = NoNode \/ use[t]

Current(t) ==
  /\ node' = [node EXCEPT ![t] = Home(t)]
  /\ use' = [use EXCEPT ![t] = Uses(t)]
  /\ UNCHANGED <<cpu, phase, wanted, next>>

\* Mutant: the header is filled in with the node the thread runs on.
AllocateCachedRelabelled(t, c) ==
  /\ Ready(t)
  /\ Uses(t)
  /\ Current(t)
  /\ \E b \in cached[t][c] :
       /\ cached' = [cached EXCEPT ![t][c] = @ \ {b}]
       /\ hdr' = [hdr EXCEPT ![b] = <<cpu[t], c>>]
  /\ UNCHANGED <<pool, bin, foreignBytes, out, pc, at, batch>>

\* take_cached() finds a block: its header is as it was.
AllocateCached(t, c) ==
  /\ Ready(t)
  /\ Uses(t)
  /\ Current(t)
  /\ \E b \in cached[t][c] : cached' = [cached EXCEPT ![t][c] = @ \ {b}]
  /\ UNCHANGED vars

\* No cache or an empty bin: the arena of the cache's node, which fills in
\* the header as the cache does after it.
AllocateFromArena(t, c) ==
  /\ Ready(t)
  /\ ~Uses(t) \/ cached[t][c] = {}
  /\ Current(t)
  /\ CallAllocate(t, <<Home(t), c>>)
  /\ UNCHANGED cached

\* Mutant: the node in the header is not compared.
CacheableFromAnywhere(t, b) ==
  /\ Uses(t)
  /\ (Cardinality(cached[t][hdr[b][2]]) + 1) * SizeOf(hdr[b])
       <= MaxCachedBytes[hdr[b][2]]

\* Mutant: the limit is compared without the block to be added.
CacheableBeyondLimit(t, b) ==
  /\ Uses(t)
  /\ NodeOf(hdr[b]) = Home(t)
  /\ Cardinality(cached[t][hdr[b][2]]) * SizeOf(hdr[b])
       <= MaxCachedBytes[hdr[b][2]]

\* The blocks deallocate() offers to the bins, and the bound of cache_block().
Cacheable(t, b) ==
  /\ Uses(t)
  /\ NodeOf(hdr[b]) = Home(t)
  /\ (Cardinality(cached[t][hdr[b][2]]) + 1) * SizeOf(hdr[b])
       <= MaxCachedBytes[hdr[b][2]]

DeallocateToCache(t, b) ==
  /\ Ready(t)
  /\ Cacheable(t, b)
  /\ Current(t)
  /\ cached' = [cached EXCEPT ![t][hdr[b][2]] = @ \cup {b}]
  /\ UNCHANGED vars

DeallocateToArena(t, b) ==
  /\ Ready(t)
  /\ ~Cacheable(t, b)
  /\ Current(t)
  /\ CallDeallocate(t, Home(t), b)
  /\ UNCHANGED cached

-----------------------------------------------------------------------------
(* ThreadNumaContextOwner::configure(), which looks up the node of the CPU *)
(* up to three times.                                                      *)

\* Mutant: no cache is made for a thread that has none.
ConfigureUnensured(t, u) ==
  /\ Ready(t)
  /\ Turn(t, "configure")
  /\ wanted' = [wanted EXCEPT ![t] = u]
  /\ UNCHANGED <<vars, cpu, node, use, cached, next>>

\* ensure_cache(use_thread_cache).
Configure(t, u) ==
  /\ Ready(t)
  /\ Turn(t, "configure")
  /\ wanted' = [wanted EXCEPT ![t] = u]
  /\ IF node[t] = NoNode
     THEN /\ node' = [node EXCEPT ![t] = cpu[t]]
          /\ use' = [use EXCEPT ![t] = u]
     ELSE UNCHANGED <<node, use>>
  /\ UNCHANGED <<vars, cpu, cached, next>>

ConfigureSameNode(t) ==
  /\ phase[t] = "configure"
  /\ cpu[t] = node[t]
  /\ use' = [use EXCEPT ![t] = wanted[t]]
  /\ wanted' = [wanted EXCEPT ![t] = FALSE]
  /\ Turn(t, "run")
  /\ UNCHANGED <<vars, cpu, node, cached, next>>

ConfigureOtherNode(t) ==
  /\ phase[t] = "configure"
  /\ cpu[t] # node[t]
  /\ Turn(t, "replace")
  /\ UNCHANGED <<vars, cpu, node, use, cached, wanted, next>>

\* create_on_current_node(), and then the destruction of the old cache begins.
CreateReplacement(t) ==
  /\ phase[t] = "replace"
  /\ next' = [next EXCEPT ![t] = cpu[t]]
  /\ Turn(t, "flush")
  /\ UNCHANGED <<vars, cpu, node, use, cached, wanted>>

\* It throws: the old cache stays as it is.
CreateFails(t) ==
  /\ phase[t] = "replace"
  /\ wanted' = [wanted EXCEPT ![t] = FALSE]
  /\ Turn(t, "run")
  /\ UNCHANGED <<vars, cpu, node, use, cached, next>>

\* Mutant: the block goes to deallocate() of the cache, which keeps it.
FlushIntoCache(t) ==
  /\ phase[t] \in {"flush", "exit"}
  /\ CachedBy(t) # {}
  /\ UNCHANGED allVars

\* flush() takes a block out of its bin and gives it to the arena.
Flush(t) ==
  /\ phase[t] \in {"flush", "exit"}
  /\ \E c \in Class : \E b \in cached[t][c] :
       /\ cached' = [cached EXCEPT ![t][c] = @ \ {b}]
       /\ CallDeallocate(t, node[t], b)
  /\ UNCHANGED <<cpu, node, use, phase, wanted, next>>

Flushed(t) == pc[t] = "idle" /\ CachedBy(t) = {}

\* cache_ = replacement.
InstallReplacement(t) ==
  /\ phase[t] = "flush"
  /\ Flushed(t)
  /\ node' = [node EXCEPT ![t] = next[t]]
  /\ use' = [use EXCEPT ![t] = wanted[t]]
  /\ wanted' = [wanted EXCEPT ![t] = FALSE]
  /\ next' = [next EXCEPT ![t] = NoNode]
  /\ Turn(t, "run")
  /\ UNCHANGED <<vars, cpu, cached>>

-----------------------------------------------------------------------------
(* The end of a thread, and the scheduler *)

\* ~ThreadNumaContextOwner() destroys the cache, if there is one.
Exit(t) ==
  /\ Ready(t)
  /\ Turn(t, "exit")
  /\ UNCHANGED <<vars, cpu, node, use, cached, wanted, next>>

Exited(t) ==
  /\ phase[t] = "exit"
  /\ Flushed(t)
  /\ node' = [node EXCEPT ![t] = NoNode]
  /\ use' = [use EXCEPT ![t] = FALSE]
  /\ Turn(t, "gone")
  /\ UNCHANGED <<vars, cpu, cached, wanted, next>>

Migrate(t, n) ==
  /\ phase[t] # "gone"
  /\ n # cpu[t]
  /\ cpu' = [cpu EXCEPT ![t] = n]
  /\ UNCHANGED <<vars, node, use, cached, phase, wanted, next>>

-----------------------------------------------------------------------------

\* What a thread does on its own once it has begun an operation.
CacheStep(t) ==
  \/ Step(t) /\ UNCHANGED cacheVars
  \/ ConfigureSameNode(t)
  \/ ConfigureOtherNode(t)
  \/ CreateReplacement(t)
  \/ CreateFails(t)
  \/ Flush(t)
  \/ InstallReplacement(t)
  \/ Exited(t)

CacheNext ==
  \E t \in Thread :
    \/ \E c \in Class : AllocateCached(t, c) \/ AllocateFromArena(t, c)
    \/ \E b \in InUse : DeallocateToCache(t, b) \/ DeallocateToArena(t, b)
    \/ \E u \in BOOLEAN : Configure(t, u)
    \/ CacheStep(t)
    \/ Exit(t)
    \/ \E n \in Node : Migrate(t, n)

CacheSpec == CacheInit /\ [][CacheNext]_allVars

\* A thread in an operation is scheduled, whatever the others do.
CacheFairness == \A t \in Thread : WF_allVars(CacheStep(t))

CacheFairSpec == CacheSpec /\ CacheFairness

-----------------------------------------------------------------------------

(***************************************************************************)
(* A cached block is one that is out, its header names the node of the     *)
(* thread's cache and the class of the bin, and no other cache holds it:   *)
(* take_cached() hands it out without touching the header, so after any    *)
(* migration, configure() or foreign free a hit is local to the cache's    *)
(* node and later frees of the block still find its owner.                 *)
(***************************************************************************)
CachedBlocksLocal ==
  /\ \A t \in Thread, c \in Class : \A b \in cached[t][c] :
       b \in out /\ hdr[b] = <<node[t], c>>
  /\ \A t, u \in Thread : t # u => CachedBy(t) \cap CachedBy(u) = {}

(***************************************************************************)
(* No bin of a cache grows over max_cached_bytes_for_class.                *)
(***************************************************************************)
CacheBounded ==
  \A t \in Thread, c \in Class :
    Cardinality(cached[t][c]) * ClassSize[c] <= MaxCachedBytes[c]

(***************************************************************************)
(* The threads and their caches use the arenas as NumaArena specifies, so  *)
(* all that holds for the arenas holds behind the caches too.              *)
(***************************************************************************)
ImplementsArenas == Spec

(***************************************************************************)
(* configure(), with the flush in it, returns, and a thread that exits is  *)
(* gone in the end, whatever the other threads do with the arenas and      *)
(* however the scheduler moves it: every block of flush() leaves the cache *)
(* and the call that takes it to its arena returns.                        *)
(***************************************************************************)
OwnerFinishes ==
  \A t \in Thread :
    /\ phase[t] \in {"configure", "replace", "flush"} ~> phase[t] = "run"
    /\ phase[t] = "exit" ~> phase[t] = "gone"
=============================================================================
