SPECIFICATION Spec
CONSTANTS
  Root = r
  Child = {a}
  Target = {b}
  None = None
  EarlyRoles = {"injected"}
  MaxSessions = 1
  MaxAttempts = 1
CHECK_DEADLOCK FALSE
INVARIANT TypeOK
INVARIANT SessionLimit
INVARIANT SessionAccounted
PROPERTY PendingDrains
