SPECIFICATION Spec
CONSTANTS
  None = None
  Users = {u1, u2}
  Roles <- MCRoles
  ShellScreens <- MCShellScreens
  MaxInputs = 2
  MaxSessionInputs = 3
INVARIANTS
  TypeOK
  SettledScreenIsFresh
  NothingOfAnotherUser
PROPERTIES
  ImportedWasPreviewed
  ExpiryIsNoticed
CHECK_DEADLOCK FALSE
