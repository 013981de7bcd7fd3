CONSTANTS
  Reading <- OldSale
  Export <- OldSaleExport
  Garbled <- NoneGarbled
  FileName = {"sales.csv"}
  Worker = {"loop", "refresh"}
  KnownProduct = {"HSD"}
  Product = {"HSD"}
  WeekStart = 1
  QuarterStart = 0
  Rewrite = FALSE
  Revert = FALSE
  FaultKinds = {}
  MaxFaults = 0
SPECIFICATION Spec
INVARIANTS FiguresOwed
