CONSTANTS
  Version = {1, 2, 3}
  Bundled = {1, 2}
  Offered = {}
  Broken = {}
  Unstable = {1, 2, 3}
  Quitting = {1, 2, 3}
  QuarantineCap = 20
  FaultKinds = {"stop", "power"}
  MaxFaults = 2
  SlowCommit = FALSE
  SlowPrune = FALSE
SPECIFICATION Spec
INVARIANTS BundleAdopted
