----------------------------- MODULE MCProcess ------------------------------
(***************************************************************************)
(* Process on five machines, for a program with one thread that pins       *)
(* itself and one with two threads and containers that outlive their uses. *)
(***************************************************************************)
EXTENDS Process, TLC

CONSTANTS Worker

\* Two nodes, the second with two CPUs.
TwoNodes ==
  [available |-> TRUE, cpus |-> 3, node_of |-> (0 :> 0 @@ 1 :> 1 @@ 2 :> 1),
   max_node |-> 1, all_nodes |-> {0, 1}, bindable |-> {0, 1}, online |-> 0..2]

\* The second node has no memory.
Memoryless ==
  [TwoNodes EXCEPT !.all_nodes = {0}, !.bindable = {0}]

\* A CPU came after libnuma counted them, and one of node 1 is offline.
Hotplugged ==
  [TwoNodes EXCEPT !.online = {0, 1, 3}]

\* More CPUs than a cpu_set_t holds.
TooMany ==
  [available |-> TRUE, cpus |-> 5, node_of |-> [cpu \in 0..4 |-> cpu % 2],
   max_node |-> 1, all_nodes |-> {0, 1}, bindable |-> {0, 1}, online |-> 0..4]

NoNuma ==
  [TwoNodes EXCEPT !.available = FALSE, !.all_nodes = {}, !.max_node = -1,
                   !.bindable = {}]

MCMachine == {TwoNodes, Memoryless, Hotplugged, TooMany, NoNuma}

MCContainer ==
  {[duration |-> "static", thread |-> Main],
   [duration |-> "thread_local", thread |-> Worker]}

MCProgram ==
  {[threads |-> {Main}, containers |-> {}],
   [threads |-> {Main, Worker}, containers |-> MCContainer]}
=============================================================================
