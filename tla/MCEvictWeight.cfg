CONSTANTS
  NumInsts = 4
  VRegs = {0, 1, 2}
  p0 = p0
  p1 = p1
  PRegs <- MCPRegs
  RegsByClass <- MCRegsByClass
  NoPReg = NoPReg
  NoBundle <- MCNoBundle
  Programs <- MCPrograms
  DefPols = {"Reg", "Any"}
  UsePols = {"Reg", p0}
  MaxUses = 2
  ClobberSets <- MCClobberSets
  HotCode = {}
  DebugBuild = TRUE
  MaxBundles = 10

SPECIFICATION Spec

PROPERTIES
  EvictOnlyLighter
