SPECIFICATION Spec
CONSTANTS
  Mems = {m1, m2}
  Atoms = {a1, a2}
  Ops = {o1, o2, o3}
  MaxRetries = 3
  RepairLimit = 2
  DeleteInFlight = FALSE
  MaxCrashes = 2
  MaxFailures = 2
  MaxCancels = 1
SYMMETRY Symmetry
INVARIANTS  NoDuplicateAtoms 
 
CHECK_DEADLOCK FALSE
