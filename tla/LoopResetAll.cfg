CONSTANTS
  Clients = {c1}
  LoopThread = loop
  NoThread = none
  EventTypes = {ta}
  Conns = {0, 1}
  Ops = {"addEvent", "delEvent"}
  MaxCalls = 3
  Buckets = 8
  GrowthFactor = 8
SPECIFICATION Spec
PROPERTY ResetRemovesAll
