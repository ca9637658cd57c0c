SPECIFICATION Spec
CONSTANTS
  MaxWait = 2
  MaxAuths = 1
  SftpEnabled = TRUE
INVARIANT DeactivatedIsInactive
