CONSTANTS
  Version = {1, 2, 3}
  Bundled = {1}
  Offered = {2, 3}
  Broken = {}
  Unstable = {1, 2, 3}
  Quitting = {1, 2, 3}
  QuarantineCap = 20
  FaultKinds = {"stop"}
  MaxFaults = 0
  SlowCommit = FALSE
  SlowPrune = FALSE
SPECIFICATION Spec
PROPERTIES CrashesInsideWindow
