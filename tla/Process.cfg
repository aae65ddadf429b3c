SPECIFICATION Spec
CONSTANTS
  Domains = {d1, d2}
  Infos <- MCInfos
  Hosts <- MCHosts
  Overcommits <- MCOvercommits
  Modes <- MCModes
  Kibi = 2
  Bits = 5
  None = None
  MaxChanges = 1
  MaxFaults = 1
INVARIANTS TypeOK SteadyDomainListedOnce AllocationMatchesInstances CellsHoldAllocation CellsPromiseNoMore
