CONSTANTS
  InternalSizes <- MCInternalSizes
  LineSettings = {l1}
  EventCounts <- MCEventCounts
  Sizes <- MCSizes
  MaxBytes = 6
  MaxOpens = 1
  Handlers = {readFromComPort}
  NoHandler = none
  PackageSize = 2
  readFromComPort = readFromComPort
  MaxCommands = 2
SPECIFICATION WorkerFairSpec
INVARIANTS WorkerTypeOK FlagsAgree AlwaysReading ShownInOrder InStepIsWhole NeverOverruns LampInStep CoilsOffAtEnd
PROPERTIES CommandsGoOut
