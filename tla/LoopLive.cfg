CONSTANTS
  Clients = {c1, c2}
  LoopThread = loop
  NoThread = none
  EventTypes = {ta}
  Concurrently = FALSE
  Conns <- MCConns
  Ops = {"addEvent", "addTimer", "delEvent", "send", "stop"}
  MaxCalls = 3
  Buckets = 2
  GrowthFactor = 8
SPECIFICATION ConnectorFairSpec
INVARIANTS ConnectorTypeOK LivesWhileUsed
PROPERTIES ForeignHandlersStay MessagesTaken CallsReturn StopObeyed
