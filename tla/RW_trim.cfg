SPECIFICATION Spec
CONSTANTS
  Handlers = {h1}
  Tasks = {t1, t2}
  GroupChat = FALSE
  Trigger = 1
  MaxMessages = 2
  CleanupBatch = 1
  CanCrash = FALSE
  DbFails = FALSE
  MaxMsgs = 6
  MaxManual = 0
  MaxResets = 0
SYMMETRY Symmetry
INVARIANTS
  OnlySummarizedDeleted
