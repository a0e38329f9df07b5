SPECIFICATION FairSpec
CONSTANTS
  Handlers = {h1}
  MaxAttempts = 1
PROPERTIES
  TerminateReturns
