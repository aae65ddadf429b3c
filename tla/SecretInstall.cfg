SPECIFICATION FairSpec
CONSTANTS
  f2 = f2
  Files = {f1, f2}
  Links = {l1}
  None = None
  Missing <- MCMissing
  MaxVersions = 3
  MaxWrites = 2
  MaxFaults = 3
CHECK_DEADLOCK FALSE
INVARIANTS TypeOK ReadyIsInstalled RecordIsInstalled InstallInv
PROPERTIES CertificateGetsInstalled
