CONSTANTS
  Kind = {1}
  Number = {"n1", "n2"}
  Unreachable = {"n2"}
  Worker = {"tick", "web"}
  MaxAttempts = 2
  Batch = 1
  FaultKinds = {"stop", "cancel", "send", "storage"}
  MaxFaults = 1
  MaxDay = 1
  MaxTests = 0
SPECIFICATION Spec
INVARIANTS TypeOK SentIsDelivered RepeatsExplained
PROPERTIES SettledIsFinal
