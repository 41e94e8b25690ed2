SPECIFICATION Spec
CONSTANTS
  gnb = gnb
  amf = amf
  smf = smf
  a1 = a1
  r1 = r1
  r2 = r2
  s1 = s1
  s2 = s2
  g1 = g1
  p1 = p1
  c1 = c1
  Event <- MCEvent
  Orders <- MCOrders
  FirstFrame = 1
  MaxEvents = 3
  Unknown = Unknown
INVARIANTS
  TypeOK
  GroupsAreComponents
  LookupsSound
  BoundariesKept
CHECK_DEADLOCK FALSE
