SPECIFICATION Spec
CONSTANTS
  InternalSizes <- MCInternalSizes
  LineSettings = {l1, l2}
  EventCounts <- MCEventCounts
  Sizes <- MCSizes
  MaxBytes = 3
  MaxOpens = 2
INVARIANT NoOverrun
