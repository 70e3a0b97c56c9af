--------------------------- MODULE ProcessProofs ----------------------------
(***************************************************************************)
(* Proofs about Process: pin guards, the nodes that caches are made on,    *)
(* and which destructors meet a destroyed cache.                           *)
(***************************************************************************)
EXTENDS Process, TLAPS

USE TopologyAssumption

-----------------------------------------------------------------------------
(* Affinity and guards *)

\* The affinity of a thread that was pinned to node n.
NodeSet(n) == Accepted(machine, CpusOfNode(machine, n))

GuardRecord == [node_id : Int, previous_affinity : SUBSET Nat, active : BOOLEAN]

\* What the active guards of thread t have saved: the outermost the affinity
\* the thread started with, every other that of the guard around it.
Chain(t) ==
  /\ \A i \in Active(t) : Pins(machine, guards[t][i].node_id)
  /\ \A i \in Active(t) :
       (\A j \in Active(t) : i <= j) =>
         guards[t][i].previous_affinity = machine.online
  /\ \A i, j \in Active(t) :
       j < i /\ (\A k \in Active(t) : k <= j \/ i <= k) =>
         guards[t][i].previous_affinity = NodeSet(guards[t][j].node_id)
  /\ Active(t) = {} => affinity[t] = machine.online
  /\ \A i \in Active(t) :
       Innermost(t, i) => affinity[t] = NodeSet(guards[t][i].node_id)

GuardInv ==
  /\ machine \in Machine
  /\ DOMAIN affinity = Thread
  /\ \A t \in Thread : affinity[t] \subseteq machine.online
  /\ DOMAIN guards = Thread
  /\ \A t \in Thread :
       guards[t] \in Seq(GuardRecord)
  /\ scoped \in [Thread -> BOOLEAN]
  /\ \A t \in Thread : scoped[t] => Chain(t)

(***************************************************************************)
(* CPUs on which a thread pinned to node n may run are counted to n.       *)
(***************************************************************************)
LEMMA PinnedNode ==
  ASSUME NEW n \in Int, machine \in Machine, Pins(machine, n)
  PROVE  /\ NodeSet(n) # {}
         /\ NodeSet(n) \subseteq machine.online
         /\ \A cpu \in NodeSet(n) : current_node(machine, cpu) = n
<1>1. NodeSet(n) # {} /\ NodeSet(n) \subseteq machine.online
  BY DEF Pins, NodeSet, Accepted
<1>2. ASSUME NEW cpu \in NodeSet(n) PROVE current_node(machine, cpu) = n
  <2>1. cpu \in 0 .. machine.cpus - 1 /\ cpu_to_node(machine, cpu) = n
    BY DEF NodeSet, Accepted, CpusOfNode, node_to_cpus
  <2>2. machine.cpus \in Nat
    BY DEF IsMachine
  <2> QED BY <2>1, <2>2 DEF current_node
<1> QED BY <1>1, <1>2

(***************************************************************************)
(* current_node_from_cpu() always gives an id of the table.                *)
(***************************************************************************)
LEMMA ReadsNodes ==
  ASSUME machine \in Machine, NEW t \in Thread
  PROVE  Reads(t) \subseteq Node(machine)
<1>1. node_count(machine) \in Nat \ {0}
  BY DEF node_count, IsMachine
<1>2. \A cpu : cpu_to_node(machine, cpu) \in Node(machine)
  BY <1>1 DEF cpu_to_node, Node
<1> QED BY <1>1, <1>2 DEF Reads, current_node, Node

(***************************************************************************)
(* A step of another thread, or one that leaves affinity and guards alone, *)
(* keeps what the guards of a thread have saved.                           *)
(***************************************************************************)
LEMMA ChainKept ==
  ASSUME NEW t \in Thread, Chain(t), machine' = machine,
         affinity'[t] = affinity[t], guards'[t] = guards[t]
  PROVE  Chain(t)'
BY DEF Chain, Active, Innermost, NodeSet, Accepted, CpusOfNode, node_to_cpus,
       cpu_to_node, Pins, is_valid_node, TooManyCpus, Node, node_count

(***************************************************************************)
(* Restoring the innermost active guard gives the thread back to the guard *)
(* around it, or to nobody.                                                *)
(***************************************************************************)
LEMMA DropInnermost ==
  ASSUME NEW t \in Thread, machine \in Machine, Chain(t),
         guards[t] \in Seq(GuardRecord),
         NEW i \in Active(t), Innermost(t, i),
         machine' = machine,
         affinity'[t] = LET A == Accepted(machine, guards[t][i].previous_affinity)
                        IN  IF A = {} THEN affinity[t] ELSE A,
         Active(t)' = Active(t) \ {i},
         \A j \in Active(t) \ {i} : guards'[t][j] = guards[t][j]
  PROVE  Chain(t)'
<1>. DEFINE A == Accepted(machine, guards[t][i].previous_affinity)
<1>0. Active(t) \subseteq Int
  BY DEF Active
<1>1. \A n : NodeSet(n)' = NodeSet(n) /\ Pins(machine, n)' = Pins(machine, n)
  BY DEF NodeSet, Accepted, CpusOfNode, node_to_cpus, cpu_to_node, Pins, is_valid_node,
         TooManyCpus, Node, node_count
<1>2. (\A j \in Active(t)' : Pins(machine, guards[t][j].node_id)')
  BY <1>1 DEF Chain
<1>3. \A j \in Active(t)' :
        (\A k \in Active(t)' : j <= k) =>
           guards'[t][j].previous_affinity = machine'.online
  <2>. SUFFICES ASSUME NEW j \in Active(t) \ {i}, \A k \in Active(t) \ {i} : j <= k
                PROVE  guards[t][j].previous_affinity = machine.online
    OBVIOUS
  <2>1. j <= i
    BY DEF Innermost
  <2> QED BY <2>1 DEF Chain
<1>4. \A j, l \in Active(t)' :
        l < j /\ (\A k \in Active(t)' : k <= l \/ j <= k) =>
           guards'[t][j].previous_affinity = NodeSet(guards[t][l].node_id)
  <2>. SUFFICES ASSUME NEW j \in Active(t) \ {i}, NEW l \in Active(t) \ {i},
                       l < j, \A k \in Active(t) \ {i} : k <= l \/ j <= k
                PROVE  guards[t][j].previous_affinity = NodeSet(guards[t][l].node_id)
    OBVIOUS
  <2>1. j <= i
    BY DEF Innermost
  <2> QED BY <2>1 DEF Chain
<1>5. Active(t)' = {} => affinity'[t] = machine'.online
  <2>. SUFFICES ASSUME Active(t) \ {i} = {} PROVE affinity'[t] = machine.online
    OBVIOUS
  <2>1. guards[t][i].previous_affinity = machine.online
    BY <1>0 DEF Chain
  <2>2. machine.online # {}
    BY DEF IsMachine
  <2> QED BY <2>1, <2>2 DEF Accepted
<1>6. \A j \in Active(t)' :
        Innermost(t, j)' => affinity'[t] = NodeSet(guards[t][j].node_id)
  <2>. SUFFICES ASSUME NEW j \in Active(t) \ {i}, \A k \in Active(t) \ {i} : k <= j
                PROVE  affinity'[t] = NodeSet(guards[t][j].node_id)
    BY DEF Innermost
  <2>1. j < i
    BY <1>0 DEF Innermost
  <2>2. \A k \in Active(t) : k <= j \/ i <= k
    BY <1>0
  <2>3. guards[t][i].previous_affinity = NodeSet(guards[t][j].node_id)
    BY <2>1, <2>2 DEF Chain
  <2>4. Pins(machine, guards[t][j].node_id)
    BY DEF Chain
  <2>5. /\ NodeSet(guards[t][j].node_id) # {}
        /\ NodeSet(guards[t][j].node_id) \subseteq machine.online
    BY <2>4 DEF Pins, NodeSet, Accepted
  <2> QED BY <2>3, <2>5 DEF Accepted
<1> QED
  BY <1>1, <1>2, <1>3, <1>4, <1>5, <1>6 DEF Chain

(***************************************************************************)
(* A guard that could not pin, or that is not in force any more, matters   *)
(* to nobody.                                                              *)
(***************************************************************************)
LEMMA SameActive ==
  ASSUME NEW t \in Thread, Chain(t), machine' = machine,
         affinity'[t] = affinity[t], Active(t)' = Active(t),
         \A j \in Active(t) : guards'[t][j] = guards[t][j]
  PROVE  Chain(t)'
<1>1. \A n : NodeSet(n)' = NodeSet(n) /\ Pins(machine, n)' = Pins(machine, n)
  BY DEF NodeSet, Accepted, CpusOfNode, node_to_cpus, cpu_to_node, Pins, is_valid_node,
         TooManyCpus, Node, node_count
<1> QED BY <1>1 DEF Chain, Innermost

(***************************************************************************)
(* A guard that pins its thread saves what the guard around it set.        *)
(***************************************************************************)
LEMMA PushInnermost ==
  ASSUME NEW t \in Thread, machine \in Machine, Chain(t),
         NEW n \in Int, Pins(machine, n), NEW l \in Nat,
         \A j \in Active(t) : j \in Nat /\ j < l,
         machine' = machine,
         affinity'[t] = NodeSet(n),
         Active(t)' = Active(t) \cup {l},
         guards'[t][l] = Guard(n, affinity[t], TRUE),
         \A j \in Active(t) : guards'[t][j] = guards[t][j]
  PROVE  Chain(t)'
<1>1. \A m : NodeSet(m)' = NodeSet(m) /\ Pins(machine, m)' = Pins(machine, m)
  BY DEF NodeSet, Accepted, CpusOfNode, node_to_cpus, cpu_to_node, Pins, is_valid_node,
         TooManyCpus, Node, node_count
<1>2. /\ guards'[t][l].node_id = n
      /\ guards'[t][l].previous_affinity = affinity[t]
  BY DEF Guard
<1>3. \A j \in Active(t)' : Pins(machine, guards[t][j].node_id)'
  BY <1>1, <1>2 DEF Chain
<1>4. \A i \in Active(t)' :
        (\A j \in Active(t)' : i <= j) =>
          guards'[t][i].previous_affinity = machine'.online
  <2>. SUFFICES ASSUME NEW i \in Active(t) \cup {l}, \A j \in Active(t) \cup {l} : i <= j
                PROVE  guards'[t][i].previous_affinity = machine.online
    OBVIOUS
  <2>1. CASE i = l
    <3>1. Active(t) = {}
      BY <2>1
    <3> QED BY <3>1, <2>1, <1>2 DEF Chain
  <2>2. CASE i \in Active(t)
    BY <2>2 DEF Chain
  <2> QED BY <2>1, <2>2
<1>5. \A i, j \in Active(t)' :
        j < i /\ (\A k \in Active(t)' : k <= j \/ i <= k) =>
          guards'[t][i].previous_affinity = NodeSet(guards'[t][j].node_id)
  <2>. SUFFICES ASSUME NEW i \in Active(t) \cup {l}, NEW j \in Active(t) \cup {l}, j < i,
                       \A k \in Active(t) \cup {l} : k <= j \/ i <= k
                PROVE  guards'[t][i].previous_affinity = NodeSet(guards'[t][j].node_id)
    OBVIOUS
  <2>1. j \in Active(t)
    OBVIOUS
  <2>2. CASE i = l
    <3>1. Innermost(t, j)
      BY <2>2 DEF Innermost
    <3>2. affinity[t] = NodeSet(guards[t][j].node_id)
      BY <3>1, <2>1 DEF Chain
    <3> QED BY <3>2, <2>1, <2>2, <1>2
  <2>3. CASE i \in Active(t)
    BY <2>1, <2>3 DEF Chain
  <2> QED BY <2>2, <2>3
<1>6. \A i \in Active(t)' :
        Innermost(t, i)' => affinity'[t] = NodeSet(guards'[t][i].node_id)
  <2>. SUFFICES ASSUME NEW i \in Active(t) \cup {l}, \A j \in Active(t) \cup {l} : j <= i
                PROVE  affinity'[t] = NodeSet(guards'[t][i].node_id)
    BY DEF Innermost
  <2>1. i = l
    OBVIOUS
  <2> QED BY <2>1, <1>2
<1> QED
  BY <1>1, <1>3, <1>4, <1>5, <1>6 DEF Chain

(***************************************************************************)
(* Every use of a guard keeps what guards have saved.                      *)
(***************************************************************************)
LEMMA PinKept ==
  ASSUME GuardInv, NEW t \in Thread, NEW n \in Pinned, Pin(t, n)
  PROVE  GuardInv'
<1>. USE DEF GuardInv
<1>. DEFINE l == Len(guards[t]) + 1
            g == IF Pins(machine, n) THEN Guard(n, affinity[t], TRUE)
                 ELSE Guard(n, {}, FALSE)
<1>0. n \in Int /\ guards[t] \in Seq(GuardRecord) /\ l \in Nat
  OBVIOUS
<1>1. g \in GuardRecord
  BY <1>0 DEF Guard, GuardRecord, IsMachine
<1>2. machine' = machine /\ scoped' = scoped
  BY DEF Pin
<1>3. guards' = [guards EXCEPT ![t] = Append(guards[t], g)]
  BY DEF Pin
<1>. HIDE DEF g
<1>4. /\ guards'[t] = Append(guards[t], g)
      /\ guards'[t] \in Seq(GuardRecord)
      /\ DOMAIN guards' = Thread
      /\ \A u \in Thread \ {t} : guards'[u] = guards[u]
  BY <1>1, <1>3, <1>0
<1>5. /\ \A j \in DOMAIN guards[t] : guards'[t][j] = guards[t][j] /\ j \in Nat /\ j < l
      /\ guards'[t][l] = g
      /\ DOMAIN guards'[t] = DOMAIN guards[t] \cup {l}
  BY <1>1, <1>4, <1>0
<1>6. CASE Pins(machine, n)
  <2>1. NodeSet(n) # {} /\ NodeSet(n) \subseteq machine.online
    BY <1>0, <1>6, PinnedNode
  <2>2. affinity' = [affinity EXCEPT ![t] = NodeSet(n)]
    BY <1>6, <2>1 DEF Pin, SetAffinity, NodeSet
  <2>3. g = Guard(n, affinity[t], TRUE)
    BY <1>6 DEF g
  <2>4. Active(t)' = Active(t) \cup {l}
    BY <1>5, <2>3 DEF Active, Guard
  <2>5. ASSUME scoped[t] PROVE Chain(t)'
    <3>1. Chain(t)
      BY <2>5
    <3>2. \A j \in Active(t) : j \in Nat /\ j < l /\ guards'[t][j] = guards[t][j]
      BY <1>5 DEF Active
    <3>3. affinity'[t] = NodeSet(n)
      BY <2>2
    <3> HIDE DEF l
    <3> QED BY <3>1, <3>2, <3>3, <2>3, <2>4, <1>0, <1>2, <1>5, <1>6, PushInnermost
  <2>6. ASSUME NEW u \in Thread \ {t}, scoped[u] PROVE Chain(u)'
    BY <2>2, <2>6, <1>2, <1>4, ChainKept
  <2>7. \A u \in Thread : affinity'[u] \subseteq machine.online
    BY <2>1, <2>2
  <2> QED BY <1>2, <1>4, <2>2, <2>5, <2>6, <2>7
<1>7. CASE ~Pins(machine, n)
  <2>1. affinity' = affinity /\ g = Guard(n, {}, FALSE)
    BY <1>7 DEF g, Pin
  <2>2. Active(t)' = Active(t)
    BY <1>5, <2>1 DEF Active, Guard
  <2>3. ASSUME scoped[t] PROVE Chain(t)'
    <3>1. \A j \in Active(t) : guards'[t][j] = guards[t][j]
      BY <1>5 DEF Active
    <3> QED BY <3>1, <2>1, <2>2, <2>3, <1>2, SameActive
  <2>4. ASSUME NEW u \in Thread \ {t}, scoped[u] PROVE Chain(u)'
    BY <2>1, <2>4, <1>2, <1>4, ChainKept
  <2> QED BY <1>2, <1>4, <2>1, <2>3, <2>4
<1> QED BY <1>6, <1>7

LEMMA RestoreKept ==
  ASSUME GuardInv, NEW t \in Thread, NEW i \in Active(t), Restore(t, i)
  PROVE  GuardInv'
<1>. USE DEF GuardInv
<1>. DEFINE A == Accepted(machine, guards[t][i].previous_affinity)
<1>1. /\ guards[t] \in Seq(GuardRecord)
      /\ i \in DOMAIN guards[t]
      /\ guards[t][i] \in GuardRecord
  BY DEF Active
<1>2. machine' = machine
  BY DEF Restore
<1>3. affinity' = [affinity EXCEPT ![t] = IF A = {} THEN @ ELSE A]
  BY DEF Restore, SetAffinity
<1>4. \A u \in Thread : affinity'[u] \subseteq machine.online
  BY <1>3 DEF Accepted
<1>. DEFINE g == [guards[t][i] EXCEPT !.active = FALSE]
<1>5. g \in GuardRecord /\ ~g.active
  BY <1>1 DEF GuardRecord
<1>6. guards' = [guards EXCEPT ![t] = [guards[t] EXCEPT ![i] = g]]
  BY DEF Restore
<1>. HIDE DEF g
<1>7. /\ guards'[t] \in Seq(GuardRecord)
      /\ DOMAIN guards' = Thread
      /\ \A u \in Thread \ {t} : guards'[u] = guards[u]
      /\ guards'[t][i] = g
      /\ DOMAIN guards'[t] = DOMAIN guards[t]
      /\ \A j \in DOMAIN guards[t] \ {i} : guards'[t][j] = guards[t][j]
  BY <1>1, <1>5, <1>6
<1>8. scoped' = [scoped EXCEPT ![t] = scoped[t] /\ Innermost(t, i)]
  BY DEF Restore
<1>9. Active(t)' = Active(t) \ {i}
  BY <1>5, <1>7 DEF Active
<1>10. ASSUME scoped[t], Innermost(t, i) PROVE Chain(t)'
  <2>1. \A j \in Active(t) \ {i} : guards'[t][j] = guards[t][j]
    BY <1>7 DEF Active
  <2>2. affinity'[t] = IF A = {} THEN affinity[t] ELSE A
    BY <1>3
  <2> QED BY <1>10, <1>1, <1>2, <1>9, <2>1, <2>2, DropInnermost
<1>11. ASSUME NEW u \in Thread \ {t}, scoped[u] PROVE Chain(u)'
  BY <1>2, <1>3, <1>7, <1>11, ChainKept
<1>12. scoped' \in [Thread -> BOOLEAN]
  <2>1. (scoped[t] /\ Innermost(t, i)) \in BOOLEAN
    BY DEF Innermost
  <2> QED BY <2>1, <1>8
<1>13. \A u \in Thread : scoped'[u] => Chain(u)'
  <2>1. scoped'[t] => scoped[t] /\ Innermost(t, i)
    BY <1>8
  <2>2. \A u \in Thread \ {t} : scoped'[u] = scoped[u]
    BY <1>8
  <2> QED BY <2>1, <2>2, <1>10, <1>11
<1> QED BY <1>2, <1>3, <1>4, <1>7, <1>12, <1>13

LEMMA ReleaseKept ==
  ASSUME GuardInv, NEW t \in Thread, NEW i \in Active(t), Release(t, i)
  PROVE  GuardInv'
<1>. USE DEF GuardInv
<1>1. /\ guards[t] \in Seq(GuardRecord)
      /\ i \in DOMAIN guards[t]
      /\ guards[t][i] \in GuardRecord
  BY DEF Active
<1>. DEFINE g == [guards[t][i] EXCEPT !.active = FALSE]
<1>2. g \in GuardRecord
  BY <1>1 DEF GuardRecord
<1>3. guards' = [guards EXCEPT ![t] = [guards[t] EXCEPT ![i] = g]]
  BY DEF Release
<1>4. /\ machine' = machine /\ affinity' = affinity
      /\ scoped' = [scoped EXCEPT ![t] = FALSE]
  BY DEF Release
<1>. HIDE DEF g
<1>5. /\ guards'[t] \in Seq(GuardRecord)
      /\ DOMAIN guards' = Thread
      /\ \A u \in Thread \ {t} : guards'[u] = guards[u]
  BY <1>1, <1>2, <1>3
<1>6. ASSUME NEW u \in Thread \ {t}, scoped[u] PROVE Chain(u)'
  BY <1>4, <1>5, <1>6, ChainKept
<1> QED BY <1>4, <1>5, <1>6

LEMMA EndScopeKept ==
  ASSUME GuardInv, NEW t \in Thread, EndScope(t)
  PROVE  GuardInv'
<1>. USE DEF GuardInv
<1>. DEFINE i == Len(guards[t])
            A == Accepted(machine, guards[t][i].previous_affinity)
<1>1. guards[t] \in Seq(GuardRecord) /\ guards[t] # <<>> /\ i \in Nat \ {0}
  BY DEF EndScope
<1>2. /\ machine' = machine /\ scoped' = scoped
      /\ guards' = [guards EXCEPT ![t] = SubSeq(guards[t], 1, i - 1)]
  BY DEF EndScope
<1>3. /\ guards'[t] \in Seq(GuardRecord)
      /\ DOMAIN guards' = Thread
      /\ \A u \in Thread \ {t} : guards'[u] = guards[u]
      /\ DOMAIN guards'[t] = DOMAIN guards[t] \ {i}
      /\ \A j \in DOMAIN guards[t] \ {i} : guards'[t][j] = guards[t][j]
  BY <1>1, <1>2
<1>4. Active(t)' = Active(t) \ {i}
  BY <1>3 DEF Active
<1>5. \A j \in Active(t) \ {i} : guards'[t][j] = guards[t][j]
  BY <1>3 DEF Active
<1>6. CASE i \in Active(t)
  <2>1. affinity' = [affinity EXCEPT ![t] = IF A = {} THEN @ ELSE A]
    BY <1>6 DEF EndScope, SetAffinity
  <2>2. \A u \in Thread : affinity'[u] \subseteq machine.online
    BY <2>1 DEF Accepted
  <2>3. Innermost(t, i)
    BY <1>1 DEF Innermost, Active
  <2>4. affinity'[t] = IF A = {} THEN affinity[t] ELSE A
    BY <2>1
  <2>5. ASSUME scoped[t] PROVE Chain(t)'
    <3>1. Chain(t)
      BY <2>5
    <3> HIDE DEF i
    <3> QED BY <3>1, <1>1, <1>2, <1>4, <1>5, <1>6, <2>3, <2>4, DropInnermost
  <2>6. ASSUME NEW u \in Thread \ {t}, scoped[u] PROVE Chain(u)'
    BY <1>2, <1>3, <2>1, <2>6, ChainKept
  <2> QED BY <1>2, <1>3, <2>1, <2>2, <2>5, <2>6
<1>7. CASE i \notin Active(t)
  <2>1. affinity' = affinity
    BY <1>7 DEF EndScope
  <2>2. Active(t)' = Active(t)
    BY <1>4, <1>7
  <2>3. ASSUME scoped[t] PROVE Chain(t)'
    BY <2>1, <2>2, <2>3, <1>2, <1>5, <1>7, SameActive
  <2>4. ASSUME NEW u \in Thread \ {t}, scoped[u] PROVE Chain(u)'
    BY <1>2, <1>3, <2>1, <2>4, ChainKept
  <2> QED BY <1>2, <1>3, <2>1, <2>3, <2>4
<1> QED BY <1>6, <1>7

LEMMA UnpinKept ==
  ASSUME GuardInv, NEW t \in Thread, Unpin(t)
  PROVE  GuardInv'
<1>. USE DEF GuardInv
<1>1. /\ machine' = machine /\ guards' = guards
      /\ scoped' = [scoped EXCEPT ![t] = FALSE]
  BY DEF Unpin
<1>2. /\ DOMAIN affinity' = Thread
      /\ \A u \in Thread \ {t} : affinity'[u] = affinity[u]
      /\ \A u \in Thread : affinity'[u] \subseteq machine.online
  BY DEF Unpin, SetAffinity, Accepted
<1>3. ASSUME NEW u \in Thread \ {t}, scoped[u] PROVE Chain(u)'
  BY <1>1, <1>2, <1>3, ChainKept
<1> QED BY <1>1, <1>2, <1>3

LEMMA TopologyKept ==
  ASSUME GuardInv, NEW t \in Thread, TopologyNext(t)
  PROVE  GuardInv'
<1>1. ASSUME NEW n \in Pinned, Pin(t, n) PROVE GuardInv'
  BY <1>1, PinKept
<1>2. ASSUME NEW i \in DOMAIN guards[t], Restore(t, i) PROVE GuardInv'
  BY <1>2, RestoreKept DEF Restore
<1>3. ASSUME NEW i \in DOMAIN guards[t], Release(t, i) PROVE GuardInv'
  BY <1>3, ReleaseKept DEF Release
<1> QED
  BY <1>1, <1>2, <1>3, EndScopeKept, UnpinKept DEF TopologyNext

LEMMA TopologyStutters == GuardInv /\ UNCHANGED topology => GuardInv'
<1>. SUFFICES ASSUME GuardInv, UNCHANGED topology PROVE GuardInv'
  OBVIOUS
<1>1. ASSUME NEW t \in Thread, scoped[t] PROVE Chain(t)'
  BY <1>1, ChainKept DEF topology, GuardInv
<1> QED BY <1>1 DEF topology, GuardInv

-----------------------------------------------------------------------------
(* The manager, the caches and the threads *)

ContextInv ==
  /\ manager \in {"none", "built", "gone"}
  /\ arenas \subseteq Node(machine)
  /\ owner \in [Thread -> {"none", "live", "dead"}]
  /\ cache \in [Thread -> Cache \cup {NoCache}]
  /\ \A t \in Thread : owner[t] = "none" => cache[t] = NoCache
  /\ manager = "built" => arenas = Node(machine) /\ Node(machine) \subseteq Bindable
  /\ \A t \in Thread : owner[t] = "live" /\ cache[t] # NoCache => manager = "built"

LifeInv ==
  /\ program \in Program
  /\ stage \in [Thread -> {"running", "ending", "ended"}]
  /\ \A t \in Thread : owner[t] = "live" => stage[t] # "ended" /\ t \in program.threads
  /\ \A t \in Thread : owner[t] = "dead" => stage[t] # "running"
  /\ stage[Main] # "running" =>
       \A u \in program.threads \ {Main} : stage[u] = "ended"

ContainerInv ==
  /\ state \in [Container -> {"unmade", "made", "gone"}]
  /\ younger \in [Container -> BOOLEAN]
  /\ filled \in [Container -> BOOLEAN]
  /\ met \subseteq Container
  /\ \A c \in Container :
       c.duration = "thread_local" /\ state[c] = "made" /\ owner[c.thread] = "dead" =>
         ~younger[c]
  /\ \A c \in met : state[c] = "gone"
  /\ DeadCacheMetByElders

HandleInv ==
  /\ resources \subseteq BOOLEAN
  /\ statics \in 0..2
  /\ getting \in [Thread -> {{}, {TRUE}, {FALSE}}]
  /\ call \in BOOLEAN \X BOOLEAN
  /\ fixed \in Node(machine)

Inv == GuardInv /\ ContextInv /\ LifeInv /\ ContainerInv /\ HandleInv

\* Thread t has a cache when the step is done, and the manager is there.
HasCache(t) ==
  /\ Node(machine) \subseteq Bindable
  /\ manager' = "built" /\ arenas' = Node(machine)
  /\ \E k \in Cache : SetOwner(t, k)

\* It has no cache, and perhaps no manager.
HasNone(t) ==
  /\ SetOwner(t, NoCache)
  /\ \/ UNCHANGED <<manager, arenas>>
     \/ /\ Node(machine) \subseteq Bindable
        /\ manager' = "built" /\ arenas' = Node(machine)

(***************************************************************************)
(* configure() leaves a cache on a node that the thread read during it.    *)
(***************************************************************************)
LEMMA ConfiguredReads ==
  ASSUME machine \in Machine, NEW t \in Thread, NEW f \in BOOLEAN,
         NEW old \in Cache \cup {NoCache}, NEW k \in Configured(t, old, f)
  PROVE  k \in Cache /\ k.node_id \in Reads(t)
<1>1. \A e \in Ensured(t, old, f) : e \in Cache
  BY ReadsNodes DEF Ensured, Created, Cache
<1>2. \A c \in Created(t, f) : c \in Cache /\ c.node_id \in Reads(t)
  BY ReadsNodes DEF Created, Cache
<1>3. CASE k \in Created(t, f)
  BY <1>2, <1>3
<1>4. CASE k \notin Created(t, f)
  <2>1. PICK e \in Ensured(t, old, f) :
          e.node_id \in Reads(t) /\ k = [e EXCEPT !.use_thread_cache = f]
    BY <1>4 DEF Configured
  <2>2. e \in Cache
    BY <1>1
  <2> QED BY <2>1, <2>2 DEF Cache
<1> QED BY <1>3, <1>4

LEMMA ManagerBuilt ==
  ASSUME ContextInv, Manager
  PROVE  Node(machine) \subseteq Bindable /\ manager' = "built" /\ arenas' = Node(machine)
BY DEF Manager, ContextInv

LEMMA EnsuredCaches ==
  ASSUME machine \in Machine, ContextInv, NEW t \in Thread, NEW f \in BOOLEAN
  PROVE  Ensured(t, cache[t], f) \subseteq Cache
<1>1. \A c \in Created(t, f) : c \in Cache
  BY ReadsNodes DEF Created, Cache
<1>2. cache[t] # NoCache => cache[t] \in Cache
  BY DEF ContextInv
<1> QED BY <1>1, <1>2 DEF Ensured

LEMMA ConfigureGives ==
  ASSUME machine \in Machine, ContextInv, NEW t \in Thread, NEW f \in BOOLEAN,
         Configure(t, f)
  PROVE  /\ HasCache(t)
         /\ cache'[t].node_id \in Reads(t)
<1>1. PICK k \in Configured(t, cache[t], f) : SetOwner(t, k)
  BY DEF Configure
<1>2. cache[t] \in Cache \cup {NoCache}
  BY DEF ContextInv
<1>3. k \in Cache /\ k.node_id \in Reads(t)
  BY <1>2, ConfiguredReads
<1>4. cache'[t] = k
  BY <1>1 DEF SetOwner, ContextInv
<1> QED BY <1>1, <1>3, <1>4, ManagerBuilt DEF HasCache, Configure

LEMMA CurrentGives ==
  ASSUME machine \in Machine, ContextInv, NEW t \in Thread, Current(t)
  PROVE  HasCache(t)
BY EnsuredCaches, ManagerBuilt DEF Current, HasCache

LEMMA ThrowGives ==
  ASSUME machine \in Machine, ContextInv, NEW t \in Thread, NEW f \in BOOLEAN,
         ConfigureThrows(t, f)
  PROVE  HasCache(t) \/ HasNone(t)
BY EnsuredCaches, ManagerBuilt DEF ConfigureThrows, HasCache, HasNone

(***************************************************************************)
(* A running thread that uses its owner does no harm to other threads.     *)
(***************************************************************************)
LEMMA UseKeepsContexts ==
  ASSUME machine \in Machine, machine' = machine, ContextInv, NEW t \in Thread,
         HasCache(t) \/ HasNone(t)
  PROVE  /\ ContextInv'
         /\ owner' = [owner EXCEPT ![t] = "live"]
<1>1. PICK k \in Cache \cup {NoCache} :
        /\ SetOwner(t, k)
        /\ \/ UNCHANGED <<manager, arenas>> /\ k = NoCache
           \/ /\ Node(machine) \subseteq Bindable
              /\ manager' = "built" /\ arenas' = Node(machine)
  BY DEF HasCache, HasNone
<1>2. /\ owner' = [owner EXCEPT ![t] = "live"]
      /\ cache' = [cache EXCEPT ![t] = k]
  BY <1>1 DEF SetOwner
<1>3. Node(machine)' = Node(machine) /\ Bindable' = Bindable /\ Cache' = Cache
  BY DEF Node, node_count, Bindable, Cache
<1> QED BY <1>1, <1>2, <1>3 DEF ContextInv

LEMMA MachineSame == [Next]_vars => machine' = machine
BY DEF Next, vars, topology, PinOrUnpin, TopologyNext, Pin, Restore, Release, EndScope,
       Unpin, NewResource, NewResourceThrows, CallGet, Allocate, NewSimple, NewArena,
       BuildStatic, ReturnGet, GetThrows, End, DestroyOwner, Ended, Construct,
       ConstructFilled, Fill, DestroyContainer, DestroyManager

\* A running thread uses its owner.
Uses(t) ==
  /\ Running(t)
  /\ HasCache(t) \/ HasNone(t)
  /\ UNCHANGED <<topology, program, stage>>

(***************************************************************************)
(* What a step does to caches, threads and the manager.                    *)
(***************************************************************************)
LEMMA StepKinds ==
  ASSUME Inv, Next
  PROVE  \/ \E t \in Thread : Uses(t)
         \/ UNCHANGED <<program, contexts, stage>>
         \/ \E t \in Thread : End(t) \/ Ended(t) \/ DestroyOwner(t)
         \/ DestroyManager
<1>0. machine \in Machine /\ ContextInv
  BY DEF Inv, GuardInv
<1>1. ASSUME NEW t \in Thread, NEW f \in BOOLEAN,
             NewResource(t, f) \/ NewResourceThrows(t, f) \/ Allocate(t, f)
      PROVE  Uses(t)
  BY <1>0, <1>1, ConfigureGives, ThrowGives, CurrentGives
     DEF NewResource, NewResourceThrows, Allocate, Uses, Idle
<1>2. ASSUME NEW t \in Thread, BuildStatic(t)
      PROVE  Uses(t)
  <2>1. Configure(t, statics = 0) /\ (statics = 0) \in BOOLEAN
    BY <1>2 DEF BuildStatic
  <2> QED BY <1>0, <1>2, <2>1, ConfigureGives DEF BuildStatic, Uses
<1>3. ASSUME NEW t \in Thread, ReturnGet(t)
      PROVE  Uses(t)
  <2>1. getting[t] \subseteq BOOLEAN
    <3>1. getting[t] \in {{}, {TRUE}, {FALSE}}
      BY DEF Inv, HandleInv
    <3> QED BY <3>1, Zenon
  <2> QED BY <1>0, <1>3, <2>1, ConfigureGives DEF ReturnGet, Uses
<1>4. ASSUME NEW t \in Thread, GetThrows(t)
      PROVE  Uses(t)
  <2>1. getting[t] \subseteq BOOLEAN
    <3>1. getting[t] \in {{}, {TRUE}, {FALSE}}
      BY DEF Inv, HandleInv
    <3> QED BY <3>1, Zenon
  <2>2. PICK f \in getting[t] : ConfigureThrows(t, IF statics = 2 THEN f ELSE statics = 0)
    BY <1>4 DEF GetThrows
  <2>3. (IF statics = 2 THEN f ELSE statics = 0) \in BOOLEAN
    BY <2>1
  <2> QED BY <1>0, <1>4, <2>2, <2>3, ThrowGives DEF GetThrows, Uses
<1>5. ASSUME NEW c \in Container, ConstructFilled(c) \/ Fill(c)
      PROVE  c.thread \in Thread /\ Uses(c.thread)
  BY <1>0, <1>5, CurrentGives, ProcessAssumption DEF ConstructFilled, Fill, Uses, Idle
<1> QED
  BY <1>1, <1>2, <1>3, <1>4, <1>5
     DEF Next, PinOrUnpin, CallGet, NewSimple, NewArena, Construct, DestroyContainer

LEMMA ContextsKept == Inv /\ [Next]_vars => ContextInv'
<1>. SUFFICES ASSUME Inv, [Next]_vars PROVE ContextInv'
  OBVIOUS
<1>0. machine \in Machine /\ machine' = machine /\ ContextInv
  BY MachineSame DEF Inv, GuardInv
<1>1. Node(machine)' = Node(machine) /\ Bindable' = Bindable /\ Cache' = Cache
  BY <1>0 DEF Node, node_count, Bindable, Cache
<1>2. ASSUME UNCHANGED contexts PROVE ContextInv'
  BY <1>0, <1>1, <1>2 DEF ContextInv, contexts
<1>3. ASSUME NEW t \in Thread, Uses(t) PROVE ContextInv'
  BY <1>0, <1>3, UseKeepsContexts DEF Uses
<1>4. ASSUME NEW t \in Thread, DestroyOwner(t) PROVE ContextInv'
  BY <1>0, <1>1, <1>4 DEF ContextInv, DestroyOwner
<1>5. ASSUME DestroyManager PROVE ContextInv'
  <2>1. ASSUME NEW t \in Thread PROVE owner[t] # "live"
    <3>1. CASE t = Main
      BY <3>1, <1>5 DEF Inv, LifeInv, DestroyManager
    <3>2. CASE t # Main
      BY <3>2, <1>5 DEF Inv, LifeInv, DestroyManager
    <3> QED BY <3>1, <3>2
  <2> QED BY <1>0, <1>1, <1>5, <2>1 DEF ContextInv, DestroyManager
<1> QED
  BY <1>2, <1>3, <1>4, <1>5, StepKinds DEF vars, End, Ended, contexts

LEMMA LifeKept == Inv /\ [Next]_vars => LifeInv'
<1>. SUFFICES ASSUME Inv, [Next]_vars PROVE LifeInv'
  OBVIOUS
<1>0. machine \in Machine /\ machine' = machine /\ ContextInv /\ LifeInv
  BY MachineSame DEF Inv, GuardInv
<1>. USE DEF LifeInv
<1>1. ASSUME UNCHANGED <<program, contexts, stage>> PROVE LifeInv'
  BY <1>0, <1>1 DEF contexts
<1>2. ASSUME NEW t \in Thread, Uses(t) PROVE LifeInv'
  <2>1. owner' = [owner EXCEPT ![t] = "live"]
    BY <1>0, <1>2, UseKeepsContexts DEF Uses
  <2> QED BY <1>0, <1>2, <2>1 DEF Uses, Running, ContextInv
<1>3. ASSUME NEW t \in Thread, End(t) PROVE LifeInv'
  BY <1>0, <1>3 DEF End, Idle, Running, contexts
<1>4. ASSUME NEW t \in Thread, Ended(t) PROVE LifeInv'
  BY <1>0, <1>4 DEF Ended, contexts
<1>5. ASSUME NEW t \in Thread, DestroyOwner(t) PROVE LifeInv'
  BY <1>0, <1>5 DEF DestroyOwner, ContextInv
<1>6. ASSUME DestroyManager PROVE LifeInv'
  BY <1>0, <1>6 DEF DestroyManager
<1> QED
  BY <1>1, <1>2, <1>3, <1>4, <1>5, <1>6, StepKinds DEF vars

LEMMA ContainersKept == Inv /\ [Next]_vars => ContainerInv'
<1>. SUFFICES ASSUME Inv, [Next]_vars PROVE ContainerInv'
  OBVIOUS
<1>0. machine \in Machine /\ machine' = machine /\ ContextInv /\ LifeInv /\ ContainerInv
  BY MachineSame DEF Inv, GuardInv
<1>. USE DEF ContainerInv, DeadCacheMetByElders
<1>1. ASSUME UNCHANGED objects, \A t \in Thread : owner'[t] = "dead" => owner[t] = "dead"
      PROVE  ContainerInv'
  BY <1>0, <1>1, ProcessAssumption DEF objects
<1>2. ASSUME NEW t \in Thread, Uses(t)
      PROVE  \A u \in Thread : owner'[u] = "dead" => owner[u] = "dead"
  <2>1. owner' = [owner EXCEPT ![t] = "live"]
    BY <1>0, <1>2, UseKeepsContexts DEF Uses
  <2> QED BY <1>0, <2>1 DEF ContextInv
<1>3. ASSUME NEW t \in Thread, DestroyOwner(t) PROVE ContainerInv'
  BY <1>0, <1>3, ProcessAssumption DEF DestroyOwner, ContextInv, Locals, objects
<1>4. ASSUME NEW c \in Container, Construct(c) PROVE ContainerInv'
  <2>1. owner[c.thread] # "dead" /\ owner' = owner
    BY <1>0, <1>4, ProcessAssumption DEF Construct, Idle, Running, LifeInv, contexts
  <2>2. /\ state[c] = "unmade"
        /\ state' = [state EXCEPT ![c] = "made"]
        /\ younger' = [younger EXCEPT ![c] = owner[c.thread] # "none"]
        /\ UNCHANGED <<filled, met>>
    BY <1>4 DEF Construct
  <2> QED BY <1>0, <2>1, <2>2
<1>5. ASSUME NEW c \in Container, ConstructFilled(c) PROVE ContainerInv'
  <2>1. \A u \in Thread : owner'[u] = "dead" => owner[u] = "dead"
    <3>1. c.thread \in Thread /\ Uses(c.thread)
      BY <1>0, <1>5, CurrentGives, ProcessAssumption DEF ConstructFilled, Uses, Idle
    <3> QED BY <3>1, <1>2
  <2>2. c.thread \in Thread /\ owner[c.thread] # "dead"
    BY <1>0, <1>5, ProcessAssumption DEF ConstructFilled, Idle, Running, LifeInv
  <2>3. /\ state[c] = "unmade"
        /\ state' = [state EXCEPT ![c] = "made"]
        /\ younger' = [younger EXCEPT ![c] = TRUE]
        /\ filled' = [filled EXCEPT ![c] = TRUE]
        /\ met' = met
    BY <1>5 DEF ConstructFilled
  <2> QED BY <1>0, <2>1, <2>2, <2>3, ProcessAssumption
<1>6. ASSUME NEW c \in Container, Fill(c) PROVE ContainerInv'
  <2>1. \A u \in Thread : owner'[u] = "dead" => owner[u] = "dead"
    <3>1. c.thread \in Thread /\ Uses(c.thread)
      BY <1>0, <1>6, CurrentGives, ProcessAssumption DEF Fill, Uses, Idle
    <3> QED BY <3>1, <1>2
  <2>2. filled' = [filled EXCEPT ![c] = TRUE] /\ UNCHANGED <<state, younger, met>>
    BY <1>6 DEF Fill
  <2> QED BY <1>0, <2>1, <2>2, ProcessAssumption
<1>7. ASSUME NEW c \in Container, DestroyContainer(c) PROVE ContainerInv'
  <2>1. /\ state[c] = "made"
        /\ state' = [state EXCEPT ![c] = "gone"]
        /\ met' = IF filled[c] /\ owner[c.thread] = "dead" THEN met \cup {c} ELSE met
        /\ UNCHANGED <<younger, filled, owner>>
    BY <1>7 DEF DestroyContainer, contexts
  <2>2. c.duration # "static" /\ owner[c.thread] = "dead" => ~younger[c]
    BY <1>0, <2>1, ProcessAssumption
  <2> QED BY <1>0, <2>1, <2>2
<1>8. CASE UNCHANGED vars
  BY <1>0, <1>1, <1>8 DEF vars, contexts
<1>9. ASSUME Next, UNCHANGED objects PROVE ContainerInv'
  BY <1>1, <1>2, <1>3, <1>9, StepKinds DEF End, Ended, DestroyManager, contexts
<1>10. Next => \/ UNCHANGED objects
               \/ \E c \in Container : \/ Construct(c) \/ ConstructFilled(c)
                                       \/ Fill(c) \/ DestroyContainer(c)
  BY DEF Next, PinOrUnpin, NewResource, NewResourceThrows, CallGet, Allocate, NewSimple,
         NewArena, BuildStatic, ReturnGet, GetThrows, End, DestroyOwner, Ended,
         DestroyManager
<1> QED
  BY <1>4, <1>5, <1>6, <1>7, <1>8, <1>9, <1>10

LEMMA HandlesKept == Inv /\ [Next]_vars => HandleInv'
<1>. SUFFICES ASSUME Inv, [Next]_vars PROVE HandleInv'
  OBVIOUS
<1>0. machine \in Machine /\ machine' = machine /\ ContextInv /\ HandleInv
  BY MachineSame DEF Inv, GuardInv
<1>1. Node(machine)' = Node(machine)
  BY <1>0 DEF Node, node_count
<1>. USE <1>0, <1>1 DEF HandleInv
<1>2. ASSUME UNCHANGED handles PROVE HandleInv'
  BY <1>2 DEF handles
<1>3. ASSUME NEW t \in Thread, NEW f \in BOOLEAN, NewResource(t, f) PROVE HandleInv'
  BY <1>3 DEF NewResource
<1>4. ASSUME NEW t \in Thread, NEW f \in BOOLEAN, CallGet(t, f) PROVE HandleInv'
  BY <1>4 DEF CallGet
<1>5. ASSUME NEW t \in Thread, NEW f \in BOOLEAN, Allocate(t, f) PROVE HandleInv'
  <2>1. HasCache(t)
    BY <1>5, CurrentGives DEF Allocate
  <2>2. cache'[t].use_thread_cache \in BOOLEAN
    BY <2>1 DEF HasCache, SetOwner, ContextInv, Cache
  <2> QED BY <1>5, <2>2 DEF Allocate
<1>6. ASSUME NEW t \in Thread, NEW n \in Pinned, NewSimple(t, n) PROVE HandleInv'
  BY <1>6, ReadsNodes DEF NewSimple, Normalized, is_valid_node
<1>7. ASSUME NEW t \in Thread, BuildStatic(t) PROVE HandleInv'
  <2>1. (statics = 0) \in BOOLEAN
    OBVIOUS
  <2>2. resources' \subseteq BOOLEAN
    BY <1>7, <2>1, Zenon DEF BuildStatic
  <2>3. statics' \in 0..2 /\ UNCHANGED <<getting, call, fixed>>
    BY <1>7 DEF BuildStatic
  <2> QED BY <2>2, <2>3
<1>8. ASSUME NEW t \in Thread, ReturnGet(t) \/ GetThrows(t) PROVE HandleInv'
  BY <1>8 DEF ReturnGet, GetThrows
<1>9. Next => \/ UNCHANGED handles
              \/ \E t \in Thread :
                   \/ \E f \in BOOLEAN : NewResource(t, f) \/ CallGet(t, f) \/ Allocate(t, f)
                   \/ \E n \in Pinned : NewSimple(t, n)
                   \/ BuildStatic(t) \/ ReturnGet(t) \/ GetThrows(t)
  BY DEF Next, PinOrUnpin, NewResourceThrows, NewArena, End, DestroyOwner, Ended,
         DestroyManager, Construct, ConstructFilled, Fill, DestroyContainer
<1> QED
  BY <1>2, <1>3, <1>4, <1>5, <1>6, <1>7, <1>8, <1>9 DEF vars

-----------------------------------------------------------------------------
(* The invariant and what follows *)

LEMMA InitInv == Init => Inv
<1>. SUFFICES ASSUME Init PROVE Inv
  OBVIOUS
<1>. USE DEF Init, TopologyInit
<1>1. machine \in Machine /\ IsMachine(machine)
  OBVIOUS
<1>2. node_count(machine) \in Nat \ {0}
  BY <1>1 DEF node_count, IsMachine
<1>3. GuardInv
  <2>1. <<>> \in Seq(GuardRecord)
    OBVIOUS
  <2>2. ASSUME NEW t \in Thread PROVE Chain(t)
    <3>1. Active(t) = {}
      BY DEF Active
    <3> QED BY <3>1 DEF Chain
  <2> QED BY <2>1, <2>2 DEF GuardInv
<1>4. ContextInv
  BY DEF ContextInv
<1>5. LifeInv
  BY ProcessAssumption DEF LifeInv
<1>6. ContainerInv
  BY DEF ContainerInv, DeadCacheMetByElders
<1>7. HandleInv
  <2>1. fixed \in Node(machine) /\ statics \in 0..2
    BY <1>2 DEF Node
  <2>2. resources \subseteq BOOLEAN /\ call \in BOOLEAN \X BOOLEAN
    OBVIOUS
  <2>3. getting \in [Thread -> {{}, {TRUE}, {FALSE}}]
    BY Zenon
  <2> QED BY <2>1, <2>2, <2>3 DEF HandleInv
<1> QED BY <1>3, <1>4, <1>5, <1>6, <1>7 DEF Inv

LEMMA NextInv == Inv /\ [Next]_vars => Inv'
<1>. SUFFICES ASSUME Inv, [Next]_vars PROVE Inv'
  OBVIOUS
<1>1. GuardInv'
  <2>1. GuardInv
    BY DEF Inv
  <2>2. UNCHANGED topology \/ \E t \in Thread : TopologyNext(t)
    BY DEF Next, vars, PinOrUnpin, NewResource, NewResourceThrows, CallGet, Allocate,
           NewSimple, NewArena, BuildStatic, ReturnGet, GetThrows, End, DestroyOwner,
           Ended, Construct, ConstructFilled, Fill, DestroyContainer, DestroyManager
  <2> QED BY <2>1, <2>2, TopologyKept, TopologyStutters
<1> QED
  BY <1>1, ContextsKept, LifeKept, ContainersKept, HandlesKept DEF Inv

LEMMA SpecInv == Spec => []Inv
BY InitInv, NextInv, PTL DEF Spec

(***************************************************************************)
(* The process keeps its shape on any machine, with any number of threads, *)
(* guards and containers.                                                  *)
(***************************************************************************)
THEOREM TypeCorrect == Spec => []TypeOK
<1>1. ContextInv /\ LifeInv /\ ContainerInv /\ HandleInv => TypeOK
  BY Zenon DEF ContextInv, LifeInv, ContainerInv, HandleInv, TypeOK
<1>2. Inv => TypeOK
  BY <1>1 DEF Inv
<1> QED BY <1>2, SpecInv, PTL

(***************************************************************************)
(* A thread with guards in force reads the node of the innermost one.      *)
(***************************************************************************)
LEMMA PinnedReads == Inv => PinnedReadsItsNode
<1>. SUFFICES ASSUME Inv, NEW t \in Thread, scoped[t],
                     NEW i \in Active(t), Innermost(t, i)
              PROVE  Reads(t) = {guards[t][i].node_id}
  BY DEF PinnedReadsItsNode
<1>. DEFINE n == guards[t][i].node_id
<1>1. machine \in Machine /\ Chain(t) /\ guards[t] \in Seq(GuardRecord)
  BY DEF Inv, GuardInv
<1>2. i \in DOMAIN guards[t]
  BY DEF Active
<1>3. n \in Int
  <2>1. guards[t][i] \in GuardRecord
    BY <1>1, <1>2
  <2> QED BY <2>1 DEF GuardRecord
<1>4. affinity[t] = NodeSet(n) /\ Pins(machine, n)
  BY <1>1 DEF Chain
<1>5. NodeSet(n) # {} /\ \A cpu \in NodeSet(n) : current_node(machine, cpu) = n
  BY <1>1, <1>3, <1>4, PinnedNode
<1> QED BY <1>4, <1>5 DEF Reads

(***************************************************************************)
(* Wherever the kernel moves a pinned thread, the node it reads is that of *)
(* its innermost guard: any machine, any nesting.                          *)
(***************************************************************************)
THEOREM PinnedAlwaysReadsItsNode == Spec => []PinnedReadsItsNode
BY SpecInv, PinnedReads, PTL

(***************************************************************************)
(* Guards that are used as scopes give a thread its own affinity back.     *)
(***************************************************************************)
THEOREM ScopesAlwaysRestore == Spec => []ScopesRestore
<1>1. Inv => ScopesRestore
  BY DEF Inv, GuardInv, Chain, ScopesRestore
<1> QED BY <1>1, SpecInv, PTL

(***************************************************************************)
(* No cache is in use without the arenas of all nodes.                     *)
(***************************************************************************)
THEOREM CachesAlwaysHaveArenas == Spec => []CachesHaveArenas
<1>1. ASSUME ContextInv, NEW t \in Thread, owner[t] = "live", cache[t] # NoCache
      PROVE  cache[t].node_id \in arenas /\ arenas = Node(machine) /\ arenas \subseteq Bindable
  <2>1. manager = "built" /\ cache[t] \in Cache
    BY <1>1 DEF ContextInv
  <2>2. cache[t].node_id \in Node(machine)
    BY <2>1 DEF Cache
  <2> QED BY <2>1, <2>2, <1>1 DEF ContextInv
<1>2. Inv => CachesHaveArenas
  BY <1>1 DEF Inv, CachesHaveArenas
<1> QED BY <1>2, SpecInv, PTL

(***************************************************************************)
(* The dead cache of a thread is met by statics and by objects that are    *)
(* older than it only.                                                     *)
(***************************************************************************)
THEOREM DeadCacheAlwaysMetByElders == Spec => []DeadCacheMetByElders
<1>1. Inv => DeadCacheMetByElders
  BY DEF Inv, ContainerInv
<1> QED BY <1>1, SpecInv, PTL

(***************************************************************************)
(* A resource that a pinned thread makes is on the node of its guard.      *)
(***************************************************************************)
THEOREM AlwaysConfiguredWherePinned == Spec => ConfiguredWherePinned
<1>1. ASSUME Inv, [Next]_vars, NEW t \in Thread, scoped[t],
             NEW i \in Active(t), Innermost(t, i)
      PROVE  /\ Configures(t) => cache'[t].node_id = guards[t][i].node_id
             /\ \A n \in Pinned : NewSimple(t, n) /\ ~is_valid_node(machine, n) =>
                  fixed' = guards[t][i].node_id
  <2>1. Reads(t) = {guards[t][i].node_id}
    BY <1>1, PinnedReads DEF PinnedReadsItsNode
  <2>2. machine \in Machine /\ ContextInv /\ getting[t] \in {{}, {TRUE}, {FALSE}}
    BY <1>1 DEF Inv, GuardInv, HandleInv
  <2>3. ASSUME Configures(t) PROVE \E f \in BOOLEAN : Configure(t, f)
    <3>1. getting[t] \subseteq BOOLEAN
      BY <2>2, Zenon
    <3>2. (statics = 0) \in BOOLEAN
      OBVIOUS
    <3> QED BY <2>3, <3>1, <3>2, Zenon DEF Configures, NewResource, BuildStatic, ReturnGet
  <2>4. ASSUME Configures(t) PROVE cache'[t].node_id = guards[t][i].node_id
    BY <2>1, <2>2, <2>3, <2>4, ConfigureGives
  <2>5. ASSUME NEW n \in Pinned, NewSimple(t, n), ~is_valid_node(machine, n)
        PROVE  fixed' = guards[t][i].node_id
    BY <2>1, <2>5 DEF NewSimple, Normalized
  <2> QED BY <2>4, <2>5
<1>2. Inv /\ [Next]_vars =>
        [\A t \in Thread : scoped[t] =>
           \A i \in Active(t) : Innermost(t, i) =>
             /\ Configures(t) => cache'[t].node_id = guards[t][i].node_id
             /\ \A n \in Pinned : NewSimple(t, n) /\ ~is_valid_node(machine, n) =>
                  fixed' = guards[t][i].node_id]_vars
  BY <1>1
<1> QED BY <1>2, SpecInv, PTL DEF Spec, ConfiguredWherePinned
=============================================================================
