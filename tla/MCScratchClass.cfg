CONSTANTS
  Inputs <- MCInputs
  Scratch <- MCScratch
SPECIFICATION Spec
INVARIANT
  EditClassesMatch
