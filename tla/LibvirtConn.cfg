SPECIFICATION FairSpec
CONSTANTS
  Domains = {d1}
  FirstState = "inactive"
  Loops = {1, 2}
  Watched <- MCWatched
  MaxChanges = 1
  MaxEvents = 1
  MaxFaults = 1
INVARIANTS TypeOK NoLostWakeup ConnectRegistersAlone
PROPERTIES DeadChannelRestarts StatusCatchesUp
