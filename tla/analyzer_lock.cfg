SPECIFICATION Spec
CONSTANTS
  Pid = {r, c1, c2}
  Root = r
  Free = Free
  Host = {}
  Flagged = {}
  NeedsDcom = {}
  Dcom = Free
  Services = Free
  Protected = {c2}
  PidCheck = TRUE
  Interactive = FALSE
  TerminateProcesses = TRUE
  DieInCall = FALSE
  Raising = {}
  MaxInject = 1
CHECK_DEADLOCK FALSE
INVARIANT LockMeansOperating
