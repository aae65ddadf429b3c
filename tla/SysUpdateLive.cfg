SPECIFICATION FairSpec
CONSTANTS
  Versions = {v1, v2}
  None = None
  Env = {}
  MaxFaults = 4
  MaxEdits = 2
  MaxOther = 0
INVARIANTS InstalledIsOnDisk DiskInv
PROPERTIES RebootAfterInstall UpdateGetsInstalled
