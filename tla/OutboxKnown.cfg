CONSTANTS
  Kind = {1}
  Number = {"n1", "n2"}
  Unreachable = {}
  Worker = {"tick", "web"}
  MaxAttempts = 2
  Batch = 1
  FaultKinds = {}
  MaxFaults = 0
  MaxDay = 0
  MaxTests = 0
SPECIFICATION Spec
INVARIANTS AtMostOnceADay
\* the same instance refutes OneNumber (a PROPERTY): put it in place of the property above
