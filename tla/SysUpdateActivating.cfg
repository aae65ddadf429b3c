SPECIFICATION Spec
CONSTANTS
  Versions = {v1, v2}
  None = None
  Env = {"activating"}
  MaxFaults = 0
  MaxEdits = 1
  MaxOther = 0
SYMMETRY Symmetry
INVARIANTS InstalledIsOnDisk
