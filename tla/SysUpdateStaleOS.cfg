SPECIFICATION Spec
CONSTANTS
  Versions = {v1, v2}
  None = None
  Env = {"respec"}
  MaxFaults = 0
  MaxEdits = 2
  MaxOther = 0
SYMMETRY Symmetry
INVARIANTS SkipsOnlyRunningVersion
