SPECIFICATION Spec
CONSTANTS
  Nodes = {n1, n2}
  Loops = {l1, l2}
  None = None
  Env = {}
  MaxMigrations = 1
  MaxEvents = 1
  MaxLag = 2
  MaxFaults = 0
CHECK_DEADLOCK FALSE
PROPERTIES FinalStatusStays
