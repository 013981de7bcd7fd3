CONSTANTS
  Reading <- TwiceCorrected
  Export <- TwiceCorrectedExport
  Garbled <- BadGarbled
  FileName = {"sales.csv"}
  Worker = {"refresh"}
  KnownProduct = {"HSD"}
  Product = {"HSD", "PMG"}
  WeekStart = 1
  QuarterStart = 0
  Rewrite = FALSE
  Revert = FALSE
  FaultKinds = {"crash", "storage"}
  MaxFaults = 2
SPECIFICATION FairSpec
INVARIANTS NewestWins LastExportStands ArchivedIsStored
PROPERTIES SalesShowUp
