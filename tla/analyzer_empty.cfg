SPECIFICATION Spec
CONSTANTS
  Pid = {r, c1, c2}
  Root = r
  Free = Free
  Host = {}
  Flagged = {}
  NeedsDcom = {}
  Dcom = Free
  Services = Free
  Protected = {}
  PidCheck = TRUE
  Interactive = FALSE
  TerminateProcesses = FALSE
  DieInCall = FALSE
  Raising = {"KILL", "SHUTDOWN"}
  MaxInject = 1
CHECK_DEADLOCK FALSE
INVARIANT TypeOK
PROPERTY NoLiveProcessAbandoned
