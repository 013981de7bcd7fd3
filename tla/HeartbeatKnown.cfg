CONSTANTS
  Sender = {"core", "setup"}
  FaultKinds = {"stop"}
  MaxRollbacks = 2
  MaxChanges = 0
  MaxFaults = 1
SPECIFICATION Spec
INVARIANTS KeptUntilReported
\* the same instance refutes AllKept: put it in place of the property above
