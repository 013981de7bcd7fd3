CONSTANTS
  Browser = {b1, b2}
  Name = {"owner", "ali"}
  Owners <- TwoOwners
  MaxAccounts = 2
  MaxEvents = 3
  MaxFailed = 2
  FaultKinds = {"stop", "cancel", "storage"}
SPECIFICATION Spec
SYMMETRY BrowserSymmetry
INVARIANTS TypeOK OwnerCanSignIn SessionsCurrent ChangesLogged
CHECK_DEADLOCK FALSE
