CONSTANTS
  MCNumInsts = 4
  MCNumVRegs = 3
  MCFixedChoice = {FALSE}
  MergeRangeLimit = 200
  Inputs <- MCInputs
SPECIFICATION Spec
PROPERTIES
  PartitionSpec
INVARIANTS
  TypeOK
  ChainsWellFormed
  QueueConsistent
