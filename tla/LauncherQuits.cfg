CONSTANTS
  Version = {1, 2, 3}
  Bundled = {1}
  Offered = {2, 3}
  Broken = {2}
  Unstable = {}
  Quitting = {2}
  QuarantineCap = 20
  FaultKinds = {"stop"}
  MaxFaults = 0
  SlowCommit = FALSE
  SlowPrune = FALSE
SPECIFICATION FairSpec
PROPERTIES QuitterReverted
CHECK_DEADLOCK FALSE
