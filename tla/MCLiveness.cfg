CONSTANTS
  VRegs <- MCVRegs
  Progs <- MCProgs
SPECIFICATION Spec
INVARIANTS
  TypeOK
  RangesSortedDisjoint
  OperandsInRanges
