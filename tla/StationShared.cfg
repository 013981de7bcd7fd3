CONSTANTS
  b1 = b1
  b2 = b2
  Browser <- TwoBrowsers
  FaultKinds <- AllFaults
  MaxEvents = 3
  Folder <- TwoFolders
  BuiltIn = "pos_drop"
  Asker <- Askers
  Text <- Texts
  Choice <- Choices
  Tier = "standard"
  EnvURL = ""
  MaxVersion = 2
  Keep = 1
SPECIFICATION Spec
SYMMETRY Symmetry
INVARIANTS TypeOK SavedIsApplied NextQuestionUsesIt UpgradeSafe
CHECK_DEADLOCK FALSE
