CONSTANTS
  Kind = {1}
  Number = {"n1"}
  Unreachable = {}
  Worker = {"tick", "web"}
  MaxAttempts = 5
  Batch = 1
  FaultKinds = {}
  MaxFaults = 0
  MaxDay = 0
  MaxTests = 0
SPECIFICATION Spec
INVARIANTS NothingLost
