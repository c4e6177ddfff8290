CONSTANTS
  Key = {k1}
  Name = {n1}
  d1 = d1
  Dir = {d1}
  DirOf <- MCDirOf
  Tmp = tmp
  Proc = {p1}
  None = None
  Sizes = {1, 2}
  MaxUnused = 2
  Hold = 1
  MaxTime = 4
  MaxCrashes = 1
  Faults = {"cleanup"}
  NamesRecur = TRUE
SPECIFICATION FairSpec
INVARIANT
  GaugesExact
PROPERTY
  StaleSwept
