CONSTANTS
  Version = {1, 2, 3}
  Bundled = {1}
  Offered = {2, 3}
  Broken = {}
  Unstable = {1, 2, 3}
  Quitting = {1, 2, 3}
  QuarantineCap = 20
  FaultKinds = {"power"}
  MaxFaults = 1
  SlowCommit = FALSE
  SlowPrune = FALSE
SPECIFICATION Spec
INVARIANTS NoFlap
\* the same instance refutes ProbationKept: put it in place of the property above
