------------------------------ MODULE Topology ------------------------------
(***************************************************************************)
(* NumaTopologyManager and numa_thread_pin_guard: the tables built from    *)
(* what libnuma says of the machine, and the affinity of threads that are  *)
(* pinned to nodes by guards.  A thread runs on any CPU of its affinity    *)
(* and may be moved to another at any time.                                *)
(***************************************************************************)
EXTENDS Integers, Sequences

CONSTANTS
  Thread,    \* threads
  Machine,   \* machines the program may run on
  Pinned,    \* node ids that guards are made for, valid or not
  CpuSetSize, \* CPU_SETSIZE
  MaxGuards  \* most guards that a thread has at once

\* A machine: whether libnuma works, how many CPUs it knows, the node of
\* each (-1 if it knows none), the highest node id, the nodes it may
\* allocate on, those that mbind accepts and the CPUs that run threads.
IsMachine(m) ==
  /\ m.available \in BOOLEAN
  /\ m.cpus \in Nat \ {0}
  /\ m.node_of \in [0 .. m.cpus - 1 -> Int]
  /\ m.max_node \in Int
  /\ m.all_nodes \subseteq Nat
  /\ m.bindable \subseteq Nat
  /\ m.online \subseteq Nat /\ m.online # {}

ASSUME TopologyAssumption ==
  /\ \A m \in Machine : IsMachine(m)
  /\ Pinned \subseteq Int
  /\ CpuSetSize \in Nat
  /\ MaxGuards \in Nat

VARIABLES
  machine,  \* the machine
  affinity, \* the CPUs a thread may run on
  guards,   \* its guards, in the order of their construction
  scoped    \* it has used its guards as scopes only (history)

-----------------------------------------------------------------------------
(* init_topology *)

node_count(m) ==
  IF m.available /\ m.max_node >= 0 THEN m.max_node + 1 ELSE 1

Node(m) == 0 .. node_count(m) - 1

cpu_to_node(m, cpu) ==
  IF m.available /\ m.node_of[cpu] \in Node(m) \cap m.all_nodes
  THEN m.node_of[cpu]
  ELSE 0

node_to_cpus(m, n) == {cpu \in 0 .. m.cpus - 1 : cpu_to_node(m, cpu) = n}

\* A node is present also if only a CPU of another was counted to it.
is_valid_node(m, n) ==
  /\ n \in Node(m)
  /\ (m.available /\ n \in m.all_nodes) \/ node_to_cpus(m, n) # {}

current_node(m, cpu) == IF cpu >= m.cpus THEN 0 ELSE cpu_to_node(m, cpu)

\* What thread t may get from current_node_from_cpu.
Reads(t) == {current_node(machine, cpu) : cpu \in affinity[t]}

Normalized(t, n) == IF is_valid_node(machine, n) THEN {n} ELSE Reads(t)

-----------------------------------------------------------------------------
(* Affinity *)

\* The kernel refuses a set of which no CPU is online.
Accepted(m, cpus) == cpus \cap m.online

\* A cpu_set_t is too small for sched_getaffinity.
TooManyCpus(m) == \E cpu \in m.online : cpu >= CpuSetSize

CpusOfNode(m, n) == {cpu \in node_to_cpus(m, n) : cpu < CpuSetSize}

Pins(m, n) ==
  /\ is_valid_node(m, n)
  /\ ~TooManyCpus(m)
  /\ Accepted(m, CpusOfNode(m, n)) # {}

\* set_affinity: an empty set is refused.
SetAffinity(t, cpus) ==
  affinity' = [affinity EXCEPT ![t] =
                 IF Accepted(machine, cpus) = {} THEN @ ELSE Accepted(machine, cpus)]

TopologyInit ==
  /\ machine \in Machine
  /\ affinity = [t \in Thread |-> machine.online]
  /\ guards = [t \in Thread |-> <<>>]
  /\ scoped = [t \in Thread |-> TRUE]

Guard(n, previous, active) ==
  [node_id |-> n, previous_affinity |-> previous, active |-> active]

\* Mutant: the affinity is saved when the thread is pinned already.
PinSavedLate(t, n) ==
  /\ Len(guards[t]) < MaxGuards
  /\ Pins(machine, n)
  /\ SetAffinity(t, CpusOfNode(machine, n))
  /\ guards' = [guards EXCEPT ![t] = Append(@, Guard(n, affinity'[t], TRUE))]
  /\ UNCHANGED <<machine, scoped>>

\* numa_thread_pin_guard(n).
Pin(t, n) ==
  /\ Len(guards[t]) < MaxGuards
  /\ IF Pins(machine, n)
     THEN /\ SetAffinity(t, CpusOfNode(machine, n))
          /\ guards' = [guards EXCEPT ![t] = Append(@, Guard(n, affinity[t], TRUE))]
     ELSE /\ guards' = [guards EXCEPT ![t] = Append(@, Guard(n, {}, FALSE))]
          /\ UNCHANGED affinity
  /\ UNCHANGED <<machine, scoped>>

Active(t) == {i \in DOMAIN guards[t] : guards[t][i].active}

\* No active guard is younger than guard i.
Innermost(t, i) == \A j \in Active(t) : j <= i

\* restore() before the end of the guard's scope.
Restore(t, i) ==
  /\ i \in Active(t)
  /\ SetAffinity(t, guards[t][i].previous_affinity)
  /\ guards' = [guards EXCEPT ![t][i].active = FALSE]
  /\ scoped' = [scoped EXCEPT ![t] = @ /\ Innermost(t, i)]
  /\ UNCHANGED machine

\* release(): the thread stays pinned.
Release(t, i) ==
  /\ i \in Active(t)
  /\ guards' = [guards EXCEPT ![t][i].active = FALSE]
  /\ scoped' = [scoped EXCEPT ![t] = FALSE]
  /\ UNCHANGED <<machine, affinity>>

\* ~numa_thread_pin_guard of the youngest guard.
EndScope(t) ==
  /\ guards[t] # <<>>
  /\ LET i == Len(guards[t])
     IN  /\ IF i \in Active(t)
            THEN SetAffinity(t, guards[t][i].previous_affinity)
            ELSE UNCHANGED affinity
         /\ guards' = [guards EXCEPT ![t] = SubSeq(@, 1, i - 1)]
  /\ UNCHANGED <<machine, scoped>>

\* unpin_current_thread().
Unpin(t) ==
  /\ SetAffinity(t, {cpu \in 0 .. machine.cpus - 1 : cpu < CpuSetSize})
  /\ scoped' = [scoped EXCEPT ![t] = FALSE]
  /\ UNCHANGED <<machine, guards>>

TopologyNext(t) ==
  \/ \E n \in Pinned : Pin(t, n)
  \/ \E i \in DOMAIN guards[t] : Restore(t, i) \/ Release(t, i)
  \/ EndScope(t)
  \/ Unpin(t)

-----------------------------------------------------------------------------

(***************************************************************************)
(* The innermost guard that is in force decides: whatever CPU the thread   *)
(* is moved to, current_node_from_cpu() gives the node of that guard.      *)
(***************************************************************************)
PinnedReadsItsNode ==
  \A t \in Thread : scoped[t] =>
    \A i \in Active(t) : Innermost(t, i) => Reads(t) = {guards[t][i].node_id}

(***************************************************************************)
(* When no guard is in force a thread has the affinity it started with,    *)
(* however its guards were nested, failed to pin or were restored early,   *)
(* inner ones before outer ones.  A guard that is restored before an inner *)
(* one, or released, leaves the thread pinned behind it.                   *)
(***************************************************************************)
ScopesRestore ==
  \A t \in Thread : scoped[t] /\ Active(t) = {} => affinity[t] = machine.online
=============================================================================
