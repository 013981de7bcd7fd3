CONSTANTS
  Reading <- OneBad
  Export <- OneBadExport
  Garbled <- BadGarbled
  FileName = {"sales.csv"}
  Worker = {"refresh"}
  KnownProduct = {"HSD"}
  Product = {"HSD"}
  WeekStart = 1
  QuarterStart = 0
  Rewrite = FALSE
  Revert = FALSE
  FaultKinds = {"rejects"}
  MaxFaults = 1
SPECIFICATION Spec
INVARIANTS ArchivedIsStored
