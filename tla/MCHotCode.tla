------------------------------ MODULE MCHotCode ------------------------------
(***************************************************************************)
(* Every predecessor relation on four blocks: self-loops, nested loops,   *)
(* loops sharing a backedge block, overlapping spans and edges into the   *)
(* entry block all occur.                                                  *)
(***************************************************************************)
EXTENDS HotCode

MCNumBlocks == 4
MCPredSets == [0 .. MCNumBlocks - 1 -> SUBSET (0 .. MCNumBlocks - 1)]

=============================================================================
