SPECIFICATION UserFairSpec
CONSTANTS
  InternalSizes <- MCInternalSizes
  LineSettings = {l1, l2}
  EventCounts <- MCEventCounts
  Sizes <- MCSizes
  MaxBytes = 3
  MaxOpens = 2
  Handlers = {h1}
  NoHandler = none
INVARIANTS UserTypeOK NothingLost InOrder OverrunOnlyByEvent SettingsHold FlagsAgree
PROPERTIES ReadsFinish AnsweredByOwn
