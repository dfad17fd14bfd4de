CONSTANTS
  Inputs <- MCInputs
  Scratch <- MCScratch
SPECIFICATION Spec
INVARIANTS
  TypeOK
  EditsImplementMoves
  EditsWellFormed
