CONSTANTS
  Version = {1, 2, 3, 4, 5}
  Bundled = {1, 4, 5}
  Offered = {2, 3}
  Broken = {}
  Unstable = {1, 2, 3, 4, 5}
  Quitting = {1, 2, 3, 4, 5}
  QuarantineCap = 20
  FaultKinds = {"stop", "power", "disk", "read"}
  MaxFaults = 2
  SlowCommit = TRUE
  SlowPrune = FALSE
SPECIFICATION Spec
INVARIANTS NeverBricked RunsANamedVersion
\* with SlowPrune = TRUE this instance refutes NeverBricked: a prune that is not over
\* deletes the release the agent has put in place but not yet named
