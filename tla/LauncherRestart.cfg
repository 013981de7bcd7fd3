CONSTANTS
  Version = {1, 2, 3, 4}
  Bundled = {1, 2}
  Offered = {3, 4}
  Broken = {4}
  Unstable = {1, 2, 3, 4}
  Quitting = {1, 2, 3}
  QuarantineCap = 20
  FaultKinds = {"stop"}
  MaxFaults = 2
  SlowCommit = FALSE
  SlowPrune = FALSE
SPECIFICATION FairSpec
INVARIANTS TypeOK WayBack ProbationKept NoFlap
PROPERTIES ImplementsRollout BadUpdateReverted UpdateApplied
