CONSTANTS
  Reading <- TwoDays
  Export <- TwoDaysExport
  Garbled <- NoneGarbled
  FileName = {"sales.csv"}
  Worker = {"loop", "refresh", "web"}
  KnownProduct = {"HSD"}
  Product = {"HSD"}
  WeekStart = 1
  QuarterStart = 0
  Rewrite = FALSE
  Revert = FALSE
  FaultKinds = {}
  MaxFaults = 0
SPECIFICATION Spec
INVARIANTS TypeOK RefreshOwed SaleKept CountedOnce
