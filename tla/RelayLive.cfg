CONSTANTS
  Station = {"A"}
  Number = {"x"}
  Owners <- MCOwners
  Caller = {"c1"}
  QueueCap = 2
  Burst = 1
  MaxPerPoll = 1
  Switched = {"A"}
  FaultKinds = {"request lost", "record", "stop", "cloud restart"}
  MaxAsked = 3
  MaxFigures = 0
  MaxFaults = 1
SPECIFICATION FairSpec
INVARIANTS TypeOK
PROPERTIES QuestionsAnswered ImplementsMailbox
