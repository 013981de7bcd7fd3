CONSTANTS
  Version = {1, 2, 3, 4}
  Bundled = {1, 4}
  Offered = {2, 3}
  Broken = {}
  Unstable = {4}
  Quitting = {}
  QuarantineCap = 20
  FaultKinds = {"stop"}
  MaxFaults = 1
  SlowCommit = FALSE
  SlowPrune = FALSE
SPECIFICATION Spec
INVARIANTS AlwaysAVersion
\* the same instance refutes NoReturn with MaxFaults = 2: put it in place of the property above
CHECK_DEADLOCK FALSE
