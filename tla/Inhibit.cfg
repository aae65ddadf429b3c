SPECIFICATION FairSpec
CONSTANTS
  Watchers = {w1, w2}
  Reconciler = Reconciler
  Env = {"cancel", "timeout", "disconnect"}
  MaxFaults = 2
  MaxShutdowns = 2
  MaxToggles = 2
  MaxVMs = 2
CHECK_DEADLOCK FALSE
INVARIANTS TypeOK AtMostOneWatcher LockIsWatched LockIsOwned InhibitInv
PROPERTIES SignalEvacuates
