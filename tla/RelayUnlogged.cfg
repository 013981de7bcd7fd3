CONSTANTS
  Station = {"A"}
  Number = {"x"}
  Owners <- MCOwners
  Caller = {"c1"}
  QueueCap = 2
  Burst = 1
  MaxPerPoll = 1
  Switched = {}
  FaultKinds = {"response lost"}
  MaxAsked = 1
  MaxFigures = 0
  MaxFaults = 1
SPECIFICATION Spec
INVARIANTS AnswersLogged
