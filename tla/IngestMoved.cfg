CONSTANTS
  Reading <- OneMoved
  Export <- OneMovedExport
  Garbled <- NoneGarbled
  FileName = {"sales.csv"}
  Worker = {"refresh"}
  KnownProduct = {"HSD"}
  Product = {"HSD"}
  WeekStart = 1
  QuarterStart = 0
  Rewrite = FALSE
  Revert = FALSE
  FaultKinds = {}
  MaxFaults = 0
SPECIFICATION Spec
INVARIANTS CountedOnce
