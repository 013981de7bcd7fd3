CONSTANTS
  b1 = b1
  b2 = b2
  Browser <- TwoBrowsers
  FaultKinds = {"stop", "cancel", "share"}
  MaxEvents = 3
  Folder <- TwoFolders
  BuiltIn = "pos_drop"
  Asker <- Askers
  Text <- Texts
  Choice <- Choices
  Tier = "standard"
  EnvURL = ""
  MaxVersion = 2
  Keep = 1
SPECIFICATION Spec
SYMMETRY Symmetry
INVARIANTS OffIsOff
\* the same instance refutes NotReachableShown, EventsRead, AppliedIsSaved and RebuiltAlways: put it in place of the property above
CHECK_DEADLOCK FALSE
