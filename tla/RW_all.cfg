SPECIFICATION Spec
CONSTANTS
  Handlers = {h1}
  Tasks = {t1, t2}
  GroupChat = FALSE
  Trigger = 1
  MaxMessages = 2
  CleanupBatch = 1
  CanCrash = TRUE
  DbFails = TRUE
  MaxMsgs = 3
  MaxManual = 1
  MaxResets = 1
SYMMETRY Symmetry
INVARIANTS
  OneStorageTask
  QuietAfterClose
