SPECIFICATION FairSpec
CONSTANTS
  p1 = p1
  a1 = a1
  e1 = e1
  Public = {p1}
  Admin = {a1}
  Entry = {e1}
  SeedMax = 1
  Interval = 2
  Grace = 1
CHECK_DEADLOCK FALSE
INVARIANTS
  TypeOK
  GaugeExact
  DrainGraceful
  NeverUnauthenticated
PROPERTY
  Stops
