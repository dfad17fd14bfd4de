CONSTANTS
  NumVRegs <- MCNumVRegs
  Progs <- MCProgs
  PRegs <- MCPRegs
  None = None
SPECIFICATION Spec
INVARIANT
  KeptFixedNotReserved
