CONSTANTS
  Kind = {1}
  Number = {"n1", "n2"}
  Unreachable = {"n2"}
  Worker = {"tick", "web"}
  MaxAttempts = 2
  Batch = 1
  FaultKinds = {}
  MaxFaults = 0
  MaxDay = 0
  MaxTests = 1
SPECIFICATION FairSpec
PROPERTIES OutboxEmpties
