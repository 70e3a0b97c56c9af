------------------------- MODULE MCNumaArenaHistory -------------------------
(***************************************************************************)
(* The same instance with the history variable.                            *)
(***************************************************************************)
EXTENDS MCNumaArena, NumaArenaHistory
=============================================================================
