CONSTANTS
  Sizes = {1}
  NamedByLastSlot = FALSE
  MCSetCount = 5
  Inputs <- MCInputs

SPECIFICATION Spec

PROPERTIES
  NewSlotOnlyWhenNoneFits
