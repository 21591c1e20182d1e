CONSTANTS
  Clients = {c1}
  LoopThread = loop
  NoThread = none
  EventTypes = {ta}
  Conns = {0}
  Ops = {"send", "stop"}
  MaxCalls = 1
  Buckets = 8
  GrowthFactor = 8
SPECIFICATION FairSpec
PROPERTY StopTakesEffect
