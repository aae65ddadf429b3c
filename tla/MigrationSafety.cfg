SPECIFICATION Spec
CONSTANTS
  Nodes = {n1, n2}
  Loops = {l1, l2}
  None = None
  Env = {"timeout", "fail", "resume", "success"}
  MaxMigrations = 2
  MaxEvents = 2
  MaxLag = 1
  MaxFaults = 1
CHECK_DEADLOCK FALSE
SYMMETRY Symmetry
INVARIANTS TypeOK LiveLoopIsRegistered WatchInv
PROPERTIES OnlyStartSetsOrigin
