---------------------------- MODULE MCSpillSlots ----------------------------
(* Spill-set tables for SpillSlots: every sequence of MCSetCount spill   *)
(* sets whose size is drawn from Sizes and whose bundles cover one range *)
(* of MCRanges, two ranges, or nothing (no spilled bundle).              *)
EXTENDS SpillSlots, FiniteSets

CONSTANTS MCSetCount

MCRanges == {<<0, 2>>, <<1, 3>>, <<2, 4>>}
MCRangeSets == {{}, {<<0, 2>>, <<2, 4>>}} \cup {{r} : r \in MCRanges}
MCSpillSet == [size : Sizes, ranges : MCRangeSets]
MCInputs == [1 .. MCSetCount -> MCSpillSet]

=============================================================================
