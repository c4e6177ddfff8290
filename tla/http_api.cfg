CONSTANTS
  Stem = {"foo", "bar"}
  Uuid = {"u1", "u2", "u3"}
  Short = {"c1", "c3"}
  ShortHash = {0, 9}
  None = None
  Client = {p1}
  Kinds = {"windows", "elf", "mach"}
  Worlds <- MCWorlds
  SourcePath <- MCSourcePath
  MaxEntries = 2
  MaxTime = 1
SPECIFICATION Spec
INVARIANTS
  TypeOK
  ServedMatches
  SpelledAlike
  NotFoundHasReason
  SourceRight
