CONSTANTS
  Sizes = {1, 2}
  NamedByLastSlot = TRUE
  MCSetCount = 4
  Inputs <- MCInputs

SPECIFICATION Spec

INVARIANTS
  TypeOK
  LayoutSound

PROPERTIES
  PackingSpec
