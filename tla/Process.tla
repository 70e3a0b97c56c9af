------------------------------ MODULE Process -------------------------------
(***************************************************************************)
(* A process from its first use of the allocator to its exit: the static   *)
(* ArenaManager, the thread_local owner of each thread's cache, the        *)
(* numa_memory_resources with their flags, and containers of static and    *)
(* thread_local duration that hold memory when their destructors run.      *)
(*                                                                         *)
(* configure() is one step here, in which the thread may be moved between  *)
(* any two looks at its CPU; what it does to blocks is ThreadLocalCache.   *)
(* C++ destroys the thread_local objects of a thread in the reverse order  *)
(* of their construction, and statics after those of the main thread.      *)
(***************************************************************************)
EXTENDS Topology, FiniteSets

CONSTANTS
  Main,      \* the main thread
  Container, \* containers: their duration and the thread that uses them
  Program,   \* what the program may be: its threads and containers
  NoCache    \* a null cache_

ASSUME ProcessAssumption ==
  /\ Main \in Thread
  /\ \A c \in Container :
       /\ c.duration \in {"static", "thread_local"}
       /\ c.thread \in Thread
       /\ c.duration = "static" => c.thread = Main
  /\ \A p \in Program :
       /\ Main \in p.threads /\ p.threads \subseteq Thread
       /\ p.containers \subseteq Container

VARIABLES
  program,   \* the program that runs
  manager,   \* the static ArenaManager
  arenas,    \* nodes that have an arena
  owner,     \* the thread_local ThreadNumaContextOwner of each thread
  cache,     \* its cache_: the node and the flag; dangling when it is dead
  resources, \* flags of the numa_memory_resources there are
  statics,   \* statics of get_numa_memory_resource that are constructed
  getting,   \* the flag of the call of it that a thread is in: one or none
  call,      \* flag of the resource of the last allocation, and the mode used
  fixed,     \* node of the last resource that is made for one node
  stage,     \* whether a thread runs, destroys its objects or is gone
  state,     \* whether a container is constructed or destroyed
  younger,   \* it was constructed after its thread's owner
  filled,    \* it holds memory of a resource
  met        \* containers whose destructor met a destroyed owner

topology == <<machine, affinity, guards, scoped>>
contexts == <<manager, arenas, owner, cache>>
handles  == <<resources, statics, getting, call, fixed>>
objects  == <<state, younger, filled, met>>
vars == <<topology, program, contexts, handles, stage, objects>>

Cache == [node_id : Node(machine), use_thread_cache : BOOLEAN]

TypeOK ==
  /\ program \in Program
  /\ manager \in {"none", "built", "gone"}
  /\ arenas \subseteq Node(machine)
  /\ owner \in [Thread -> {"none", "live", "dead"}]
  /\ cache \in [Thread -> Cache \cup {NoCache}]
  /\ \A t \in Thread : owner[t] = "none" => cache[t] = NoCache
  /\ resources \subseteq BOOLEAN
  /\ statics \in 0..2
  /\ getting \in [Thread -> {{}, {TRUE}, {FALSE}}]
  /\ call \in BOOLEAN \X BOOLEAN
  /\ fixed \in Node(machine)
  /\ stage \in [Thread -> {"running", "ending", "ended"}]
  /\ state \in [Container -> {"unmade", "made", "gone"}]
  /\ younger \in [Container -> BOOLEAN]
  /\ filled \in [Container -> BOOLEAN]
  /\ met \subseteq Container

Init ==
  /\ TopologyInit
  /\ program \in Program
  /\ manager = "none"
  /\ arenas = {}
  /\ owner = [t \in Thread |-> "none"]
  /\ cache = [t \in Thread |-> NoCache]
  /\ resources = {}
  /\ statics = 0
  /\ getting = [t \in Thread |-> {}]
  /\ call = <<TRUE, TRUE>>
  /\ fixed = 0
  /\ stage = [t \in Thread |-> "running"]
  /\ state = [c \in Container |-> "unmade"]
  /\ younger = [c \in Container |-> FALSE]
  /\ filled = [c \in Container |-> FALSE]
  /\ met = {}

Running(t) == t \in program.threads /\ stage[t] = "running"
Idle(t) == Running(t) /\ getting[t] = {}

-----------------------------------------------------------------------------
(* ArenaManager and the owner of a thread's cache *)

\* bind_to_node succeeds.
Bindable == IF machine.available THEN machine.bindable \cap 0..63 ELSE {0}

\* Mutant: the loop over the nodes goes one too far.
ManagerOneTooMany ==
  /\ manager \in {"none", "built"}
  /\ manager' = "built"
  /\ arenas' = 0 .. node_count(machine)

\* Mutant: nodes that cannot be bound to are passed over.
ManagerPartial ==
  /\ manager' = "built"
  /\ arenas' = Node(machine) \cap Bindable

\* ArenaManager::instance(): the first call builds it, an arena for every
\* node id, or none if memory on one cannot be had.
Manager ==
  /\ manager \in {"none", "built"}
  /\ manager = "none" => Node(machine) \subseteq Bindable
  /\ manager' = "built"
  /\ arenas' = Node(machine)

\* Mutant: the node that the cache had is kept.
ConfiguredInPlace(t, old, f) ==
  IF old = NoCache
  THEN {[node_id |-> n, use_thread_cache |-> f] : n \in Reads(t)}
  ELSE {[old EXCEPT !.use_thread_cache = f]}

\* create_on_current_node.
Created(t, f) == {[node_id |-> n, use_thread_cache |-> f] : n \in Reads(t) \cap Bindable}

\* ensure_cache, starting with cache_ = old.
Ensured(t, old, f) == IF old = NoCache THEN Created(t, f) ELSE {old}

\* configure, starting with cache_ = old.
Configured(t, old, f) ==
  {[k EXCEPT !.use_thread_cache = f] :
     k \in {e \in Ensured(t, old, f) : e.node_id \in Reads(t)}}
  \cup {k \in Created(t, f) :
          \E e \in Ensured(t, old, f) : Reads(t) # {e.node_id}}

SetOwner(t, k) ==
  /\ owner' = [owner EXCEPT ![t] = "live"]
  /\ cache' = [cache EXCEPT ![t] = k]

\* configure_current(f).
Configure(t, f) == Manager /\ \E k \in Configured(t, cache[t], f) : SetOwner(t, k)

\* It throws: in ensure_cache, or when a replacement cannot be made.
ConfigureThrows(t, f) ==
  \/ /\ cache[t] = NoCache
     /\ SetOwner(t, NoCache)
     /\ Manager \/ UNCHANGED <<manager, arenas>>
  \/ Manager /\ \E k \in Ensured(t, cache[t], f) :
                  Reads(t) # {k.node_id} /\ SetOwner(t, k)

\* current().
Current(t) == Manager /\ \E k \in Ensured(t, cache[t], TRUE) : SetOwner(t, k)

-----------------------------------------------------------------------------
(* numa_memory_resource *)

\* numa_memory_resource(f).
NewResource(t, f) ==
  /\ Idle(t)
  /\ Configure(t, f)
  /\ resources' = resources \cup {f}
  /\ UNCHANGED <<topology, program, statics, getting, call, fixed, stage, objects>>

NewResourceThrows(t, f) ==
  /\ Idle(t)
  /\ ConfigureThrows(t, f)
  /\ UNCHANGED <<topology, program, handles, stage, objects>>

\* Only programs without containers call it: a bound.
CallGet(t, f) ==
  /\ Idle(t) /\ program.containers = {}
  /\ getting' = [getting EXCEPT ![t] = {f}]
  /\ UNCHANGED <<topology, program, contexts, resources, statics, call, fixed, stage, objects>>

\* The statics are built in their order, by any thread that is in the call.
BuildStatic(t) ==
  /\ Running(t) /\ getting[t] # {}
  /\ statics < 2
  /\ Configure(t, statics = 0)
  /\ statics' = statics + 1
  /\ resources' = resources \cup {statics = 0}
  /\ UNCHANGED <<topology, program, getting, call, fixed, stage, objects>>

\* The last configure_current of get_numa_memory_resource.
ReturnGet(t) ==
  /\ Running(t)
  /\ statics = 2
  /\ \E f \in getting[t] : Configure(t, f)
  /\ getting' = [getting EXCEPT ![t] = {}]
  /\ UNCHANGED <<topology, program, resources, statics, call, fixed, stage, objects>>

GetThrows(t) ==
  /\ Running(t)
  /\ \E f \in getting[t] :
       ConfigureThrows(t, IF statics = 2 THEN f ELSE statics = 0)
  /\ getting' = [getting EXCEPT ![t] = {}]
  /\ UNCHANGED <<topology, program, resources, statics, call, fixed, stage, objects>>

\* do_allocate of a resource with flag f.
Allocate(t, f) ==
  /\ Idle(t)
  /\ f \in resources
  /\ Current(t)
  /\ call' = <<f, cache'[t].use_thread_cache>>
  /\ UNCHANGED <<topology, program, resources, statics, getting, fixed, stage, objects>>

\* numa_simple_memory_resource(n); one made without n is like one for a node
\* that is not valid.  As get_numa_memory_resource, without containers only.
NewSimple(t, n) ==
  /\ Idle(t) /\ program.containers = {}
  /\ fixed' \in Normalized(t, n)
  /\ UNCHANGED <<topology, program, contexts, resources, statics, getting, call, stage,
                 objects>>

\* numa_arena_memory_resource(n) also needs memory for its arena, or throws.
NewArena(t, n) == NewSimple(t, n) /\ fixed' \in Bindable

-----------------------------------------------------------------------------
(* Containers and the end of threads and of the process *)

Construct(c) ==
  /\ c \in program.containers /\ state[c] = "unmade"
  /\ Idle(c.thread) /\ resources # {}
  /\ state' = [state EXCEPT ![c] = "made"]
  /\ younger' = [younger EXCEPT ![c] = owner[c.thread] # "none"]
  /\ UNCHANGED <<topology, program, contexts, handles, stage, filled, met>>

\* Its constructor allocates.
ConstructFilled(c) ==
  /\ c \in program.containers /\ state[c] = "unmade"
  /\ Idle(c.thread) /\ resources # {}
  /\ Current(c.thread)
  /\ state' = [state EXCEPT ![c] = "made"]
  /\ younger' = [younger EXCEPT ![c] = TRUE]
  /\ filled' = [filled EXCEPT ![c] = TRUE]
  /\ UNCHANGED <<topology, program, handles, stage, met>>

Fill(c) ==
  /\ state[c] = "made" /\ ~filled[c]
  /\ Idle(c.thread)
  /\ Current(c.thread)
  /\ filled' = [filled EXCEPT ![c] = TRUE]
  /\ UNCHANGED <<topology, program, handles, stage, state, younger, met>>

\* Main returns when it has joined the other threads.
End(t) ==
  /\ Idle(t) /\ guards[t] = <<>>
  /\ t = Main => \A u \in program.threads \ {Main} : stage[u] = "ended"
  /\ stage' = [stage EXCEPT ![t] = "ending"]
  /\ UNCHANGED <<topology, program, contexts, handles, objects>>

Locals(t) ==
  {c \in Container : c.duration = "thread_local" /\ c.thread = t /\ state[c] = "made"}

\* Mutant: the owner is destroyed before all other objects of the thread.
DestroyOwnerFirst(t) ==
  /\ stage[t] = "ending" /\ owner[t] = "live"
  /\ owner' = [owner EXCEPT ![t] = "dead"]
  /\ UNCHANGED <<topology, program, manager, arenas, cache, handles, stage, objects>>

\* ~ThreadNumaContextOwner: cache_ keeps its value.
DestroyOwner(t) ==
  /\ stage[t] = "ending" /\ owner[t] = "live"
  /\ \A c \in Locals(t) : ~younger[c]
  /\ owner' = [owner EXCEPT ![t] = "dead"]
  /\ UNCHANGED <<topology, program, manager, arenas, cache, handles, stage, objects>>

\* It frees what it holds through the cache of its thread.
DestroyContainer(c) ==
  /\ state[c] = "made"
  /\ \/ /\ c.duration = "thread_local" /\ stage[c.thread] = "ending"
        /\ younger[c] \/ owner[c.thread] # "live"
     \/ c.duration = "static" /\ stage[Main] = "ended"
  /\ state' = [state EXCEPT ![c] = "gone"]
  /\ met' = IF filled[c] /\ owner[c.thread] = "dead" THEN met \cup {c} ELSE met
  /\ UNCHANGED <<topology, program, contexts, handles, stage, younger, filled>>

Ended(t) ==
  /\ stage[t] = "ending" /\ owner[t] # "live" /\ Locals(t) = {}
  /\ stage' = [stage EXCEPT ![t] = "ended"]
  /\ UNCHANGED <<topology, program, contexts, handles, objects>>

\* ~ArenaManager, before or after the static containers.
DestroyManager ==
  /\ stage[Main] = "ended" /\ manager = "built"
  /\ manager' = "gone"
  /\ arenas' = {}
  /\ UNCHANGED <<topology, program, owner, cache, handles, stage, objects>>

\* Only programs without containers use guards: a bound.
PinOrUnpin(t) ==
  /\ Idle(t) /\ program.containers = {}
  /\ TopologyNext(t)
  /\ UNCHANGED <<program, contexts, handles, stage, objects>>

Next ==
  \/ \E t \in Thread :
       \/ PinOrUnpin(t)
       \/ \E f \in BOOLEAN :
            \/ NewResource(t, f)
            \/ NewResourceThrows(t, f)
            \/ CallGet(t, f)
            \/ Allocate(t, f)
       \/ \E n \in Pinned : NewSimple(t, n) \/ NewArena(t, n)
       \/ BuildStatic(t)
       \/ ReturnGet(t)
       \/ GetThrows(t)
       \/ End(t)
       \/ DestroyOwner(t)
       \/ Ended(t)
  \/ \E c \in Container :
       Construct(c) \/ ConstructFilled(c) \/ Fill(c) \/ DestroyContainer(c)
  \/ DestroyManager

Spec == Init /\ [][Next]_vars

-----------------------------------------------------------------------------

Configures(t) == (\E f \in BOOLEAN : NewResource(t, f)) \/ BuildStatic(t) \/ ReturnGet(t)

(***************************************************************************)
(* A thread under a guard that makes or gets a resource has its cache on   *)
(* the node of the guard then, whatever node its cache was on, whatever    *)
(* guards it had before, and wherever the kernel moves it during the call. *)
(* A resource for one node that is not a valid one is on that node, too.   *)
(***************************************************************************)
ConfiguredWherePinned ==
  [][\A t \in Thread : scoped[t] =>
       \A i \in Active(t) : Innermost(t, i) =>
         /\ Configures(t) => cache'[t].node_id = guards[t][i].node_id
         /\ \A n \in Pinned : NewSimple(t, n) /\ ~is_valid_node(machine, n) =>
              fixed' = guards[t][i].node_id]_vars

(***************************************************************************)
(* A cache is used, and flushed at the end of its thread, only while the   *)
(* arena of its node is there, and then every node id has one: where one   *)
(* id is absent or cannot be bound to, no thread ever gets a cache.        *)
(***************************************************************************)
CachesHaveArenas ==
  \A t \in Thread : owner[t] = "live" /\ cache[t] # NoCache =>
    /\ cache[t].node_id \in arenas
    /\ arenas = Node(machine)
    /\ arenas \subseteq Bindable

(***************************************************************************)
(* The destructor of a container frees through a cache that is destroyed   *)
(* only if the container is static or was constructed before its thread    *)
(* first used the allocator, and did not allocate in its constructor.      *)
(***************************************************************************)
DeadCacheMetByElders ==
  \A c \in met : c.duration = "static" \/ ~younger[c]

(***************************************************************************)
(* "@param use_thread_cache use thread local cache." of a resource: an     *)
(* allocation from it uses the cache if its flag says so, and not else.    *)
(***************************************************************************)
FlagHonoured == call[1] = call[2]
=============================================================================
