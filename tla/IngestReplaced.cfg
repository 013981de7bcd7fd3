CONSTANTS
  Reading <- OneSale
  Export <- OneSaleExport
  Garbled <- NoneGarbled
  FileName = {"sales.csv"}
  Worker = {"refresh"}
  KnownProduct = {"HSD"}
  Product = {"HSD"}
  WeekStart = 1
  QuarterStart = 0
  Rewrite = TRUE
  Revert = FALSE
  FaultKinds = {}
  MaxFaults = 0
SPECIFICATION Spec
INVARIANTS ArchivedIsStored
