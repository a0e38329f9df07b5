SPECIFICATION FairSpec
CONSTANTS
  Handlers = {h1, h2}
  MaxAttempts = 2
INVARIANTS
  QuietAfterTerminate
  StoresHeld
PROPERTIES
  VerdictFinal
  InitSettles
  TerminateReturnsIfHeeded
