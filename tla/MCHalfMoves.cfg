CONSTANTS
  W = 2
  Inputs <- MCInputs
SPECIFICATION Spec
INVARIANTS
  TypeOK
  EditsExact
  PanicIffCriticalTransfer
