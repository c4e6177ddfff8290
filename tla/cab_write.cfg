CONSTANTS
  Window = 2
  MaxBlocks = 3
  CountMod = 4
  LenMod = 18
  TotalMod = 116
  FileMod = 7
  NameLens = {0, 3}
  Inputs <- MCInputs
  Deflated = {1, 7, 20}
SPECIFICATION Spec
CHECK_DEADLOCK FALSE
INVARIANTS
  IInv
  WellFormed
  Verdict
