CONSTANTS
  Browser = {b1, b2}
  Name = {"owner", "ali"}
  Owners <- TwoOwners
  MaxAccounts = 2
  MaxEvents = 3
  MaxFailed = 2
  FaultKinds = {}
SPECIFICATION Spec
SYMMETRY BrowserSymmetry
INVARIANTS OwnerAlways
\* the same instance refutes LoginPageWorks and NoLateSession: put it in place of the property above
CHECK_DEADLOCK FALSE
