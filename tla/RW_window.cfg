SPECIFICATION FairSpec
CONSTANTS
  Handlers = {h1}
  Tasks = {t1, t2}
  GroupChat = FALSE
  Trigger = 1
  MaxMessages = 9
  CleanupBatch = 1
  CanCrash = TRUE
  DbFails = TRUE
  MaxMsgs = 5
  MaxManual = 0
  MaxResets = 0
INVARIANTS
  TypeOK
  
PROPERTIES
  InflightReleased
  ShutdownReturns
