SPECIFICATION Spec
CONSTANTS
  Logins = {"l1"}
  Refreshes = {"f1", "f2"}
  Callers = {"c1"}
  Users = {"ann"}
  UserOf <- MCUserOf
  AccessLife = 1
  RefreshLife = 2
  MaxTime = 3
  Faults = {"kill", "deactivate", "delete"}
  None = None
CHECK_DEADLOCK FALSE
INVARIANTS
  SpentTokensAreRefused
  ClosedAccountsAreOut
  AccessEndsWithItsToken
  RefreshReplaces
