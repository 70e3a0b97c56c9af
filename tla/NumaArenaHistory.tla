-------------------------- MODULE NumaArenaHistory --------------------------
(***************************************************************************)
(* NumaArena with a history variable.                                      *)
(***************************************************************************)
EXTENDS NumaArena

VARIABLE late  \* late[t]: a foreign free reached t's bin during t's allocate

InAllocate(t, label) ==
  label[t] \in {"direct", "existing", "drain", "drainSub", "drainFree",
                "retry", "newSlab"}

HistoryInit == Init /\ late = [t \in Thread |-> FALSE]

HistoryNext ==
  /\ Next
  /\ late' = [t \in Thread |->
                /\ InAllocate(t, pc) /\ InAllocate(t, pc')
                /\ late[t] \/ bin'[at[t]] \ bin[at[t]] # {}]

HistorySpec == HistoryInit /\ [][HistoryNext]_<<vars, late>>

(***************************************************************************)
(* allocate() maps a new slab while foreign-freed blocks of its class wait *)
(* in the bin only if they came during that very call: neither the fast    *)
(* path through foreign_bytes_ nor the drain before allocate_new_slab()    *)
(* overlooks a block that was there before.                                *)
(***************************************************************************)
GrowsPastLateBlocksOnly ==
  [][\A t \in Thread : Grow(t) => bin[at[t]] = {} \/ late[t]]_<<vars, late>>
=============================================================================
