CONSTANTS
  A = A
  B = B
  Station = {A, B}
  Number = {"x"}
  Owners <- MCOwners
  Caller = {"c1"}
  QueueCap = 2
  Burst = 1
  MaxPerPoll = 2
  Switched = {}
  FaultKinds = {"response lost", "request delayed"}
  MaxAsked = 2
  MaxFigures = 1
  MaxFaults = 1
SPECIFICATION Spec
SYMMETRY Symmetry
INVARIANTS OwnAnswer LogGapsExplained OldestFirst
