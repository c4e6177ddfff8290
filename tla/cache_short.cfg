CONSTANTS
  Key = {k1}
  Name = {n1, n2}
  d1 = d1
  Dir = {d1}
  DirOf <- MCDirOf
  Tmp = tmp
  Proc = {p1, p2}
  None = None
  Sizes = {1}
  MaxUnused = 1
  Hold = 2
  MaxTime = 2
  MaxCrashes = 1
  Faults = {"walk", "stat"}
  NamesRecur = FALSE
SPECIFICATION Spec
SYMMETRY Perms
INVARIANT
  EntriesWhole
PROPERTY
  CrashesAloneOrphan
