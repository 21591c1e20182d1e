CONSTANTS
  Clients = {c1}
  LoopThread = loop
  NoThread = none
  EventTypes = {ta, tb}
  Conns = {0}
  Ops = {"addEvent", "send"}
  MaxCalls = 4
  Buckets = 2
  GrowthFactor = 8
SPECIFICATION Spec
INVARIANT IteratorsValid
