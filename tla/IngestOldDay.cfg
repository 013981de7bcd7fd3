CONSTANTS
  Reading <- OneOld
  Export <- OneOldExport
  Garbled <- NoneGarbled
  FileName = {"sales.csv"}
  Worker = {"refresh"}
  KnownProduct = {"HSD"}
  Product = {"HSD"}
  WeekStart = 1
  QuarterStart = 0
  Rewrite = FALSE
  Revert = FALSE
  FaultKinds = {"storage"}
  MaxFaults = 1
SPECIFICATION FairSpec
PROPERTIES SalesShowUp
