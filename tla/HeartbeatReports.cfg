CONSTANTS
  Sender = {"core", "setup"}
  FaultKinds = {"request lost", "response lost", "storage", "file", "stop"}
  MaxRollbacks = 2
  MaxChanges = 2
  MaxFaults = 2
SPECIFICATION FairSpec
INVARIANTS NewestKept ReportsExplained
PROPERTIES RollbackReported LicenceCatchesUp
