CONSTANTS
  NumVRegs <- MCNumVRegs
  Progs <- MCProgs
  PRegs <- MCPRegs
  None = None
SPECIFICATION Spec
INVARIANTS
  TypeOK
  FixedValuesDelivered
