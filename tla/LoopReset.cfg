CONSTANTS
  Clients = {c1, c2}
  LoopThread = loop
  NoThread = none
  EventTypes = {ta, tb}
  Conns = {0, 1}
  Ops = {"addEvent", "addTimer", "delEvent", "send", "stop"}
  MaxCalls = 4
  Buckets = 2
  GrowthFactor = 8
SPECIFICATION Spec
SYMMETRY Interchangeable
INVARIANTS TypeOK MutexInv DeliveredToAll RegistrationOrder OwnTypeUnlessNewer
PROPERTY ImplementsDispatcher
