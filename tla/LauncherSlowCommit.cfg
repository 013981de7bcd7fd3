CONSTANTS
  Version = {1, 2, 3}
  Bundled = {1}
  Offered = {2, 3}
  Broken = {}
  Unstable = {1, 2, 3}
  Quitting = {1, 2, 3}
  QuarantineCap = 20
  FaultKinds = {"stop"}
  MaxFaults = 1
  SlowCommit = TRUE
  SlowPrune = FALSE
SPECIFICATION Spec
INVARIANTS ProbationKept
