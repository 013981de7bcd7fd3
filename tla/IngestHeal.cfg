CONSTANTS
  Reading <- OneOther
  Export <- OneOtherExport
  Garbled <- NoneGarbled
  FileName = {"sales.csv"}
  Worker = {"refresh"}
  KnownProduct = {"PMG"}
  Product = {"HSD", "PMG"}
  WeekStart = 1
  QuarterStart = 0
  Rewrite = FALSE
  Revert = FALSE
  FaultKinds = {}
  MaxFaults = 0
SPECIFICATION Spec
INVARIANTS NewestWins
