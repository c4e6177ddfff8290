CONSTANTS
  Key = {k1}
  Name = {n1, n2}
  d1 = d1
  Dir = {d1}
  DirOf <- MCDirOf
  Tmp = tmp
  Proc = {p1}
  None = None
  Sizes = {1}
  MaxUnused = 2
  Hold = 1
  MaxTime = 4
  MaxCrashes = 0
  Faults = {"walk"}
  NamesRecur = TRUE
SPECIFICATION Spec
SYMMETRY Perms
INVARIANT
  GaugesExact
