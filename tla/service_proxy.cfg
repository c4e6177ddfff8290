CONSTANTS
  Obj = {o1}
  Proc = {p1, p2}
  None = None
SPECIFICATION FairSpec
INVARIANTS
  TypeOK
  RoleContents
  OneProducer
PROPERTY
  ProxyLive
