CONSTANTS
  Clients = {c1, c2}
  LoopThread = loop
  NoThread = none
  EventTypes = {ta}
  Concurrently = TRUE
  Conns <- MCConns
  Ops = {"addEvent", "delEvent"}
  MaxCalls = 2
  Buckets = 8
  GrowthFactor = 8
SPECIFICATION ConnectorSpec
PROPERTY ForeignHandlersStay
