SPECIFICATION Spec
CONSTANTS
  u1 = u1
  u2 = u2
  c1 = c1
  c2 = c2
  s1 = s1
  id1 = id1
  id2 = id2
  Event <- MCEvent
  Step <- MCStep
  Profile = {"registration", "authentication", "session"}
  Registry <- MCRegistry
  Limits <- MCLimits
  Ranks <- MCRanks
  MaxEvents = 4
  None = None
INVARIANTS
  TypeOK
  EventsPartitioned
  TimeoutsKept
  SubscribersApart
  RelationsSound
PROPERTIES
  ClosedForGood
CHECK_DEADLOCK FALSE
