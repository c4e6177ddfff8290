CONSTANTS
  Obj = {o1}
  Proc = {p1, p2}
  None = None
SPECIFICATION Spec
SYMMETRY Perms
INVARIANT
  UnavailableMeansFault
