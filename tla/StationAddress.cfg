CONSTANTS
  b1 = b1
  b2 = b2
  Browser <- TwoBrowsers
  FaultKinds = {}
  MaxEvents = 3
  Folder <- TwoFolders
  BuiltIn = "pos_drop"
  Asker <- Askers
  Text <- Texts
  Choice <- LocalChoices
  Tier = "standard"
  EnvURL = "env"
  MaxVersion = 2
  Keep = 1
SPECIFICATION Spec
SYMMETRY Symmetry
INVARIANTS AppliedIsSaved
CHECK_DEADLOCK FALSE
