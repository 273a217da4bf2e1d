CONSTANTS
  v1 = v1
  k1 = k1
  k2 = k2
  p1 = p1
  p2 = p2
  NoEvent = NoEvent
  Event = {v1}
  Client = {k1, k2}
  Poller = {p1, p2}
  max_retries = 2
SPECIFICATION FairSpec
INVARIANTS
  TypeOK
  MapsAgree
  SettledRightly
PROPERTIES
  EventsSettle
CHECK_DEADLOCK FALSE
