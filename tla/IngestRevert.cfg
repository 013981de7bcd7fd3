CONSTANTS
  Reading <- OneSale
  Export <- OneSaleExport
  Garbled <- NoneGarbled
  FileName = {"sales.csv"}
  Worker = {"refresh"}
  KnownProduct = {"HSD"}
  Product = {"HSD"}
  WeekStart = 1
  QuarterStart = 0
  Rewrite = FALSE
  Revert = TRUE
  FaultKinds = {}
  MaxFaults = 0
SPECIFICATION Spec
INVARIANTS LastExportStands
