SPECIFICATION Spec
CONSTANTS
  Versions = {v1, v2}
  None = None
  Env = {"queued", "activating", "respec", "hostReboot", "fastReboot"}
  MaxFaults = 2
  MaxEdits = 2
  MaxOther = 1
SYMMETRY Symmetry
INVARIANTS TypeOK RetryInRange StatusCoherent UnsetPatchIsRefused SafetyInv
PROPERTIES NoLostCondition ImplementsCycle
