SPECIFICATION FairSpec
CONSTANTS
  Watchers = {w1, w2}
  Reconciler = Reconciler
  Env = {}
  MaxFaults = 0
  MaxShutdowns = 1
  MaxToggles = 1
  MaxVMs = 1
CHECK_DEADLOCK FALSE
PROPERTIES DisableReleasesLock
