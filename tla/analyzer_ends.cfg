SPECIFICATION Spec
CONSTANTS
  Pid = {r, d, w}
  Root = r
  Free = Free
  Host = {d, w}
  Flagged = {d, w}
  NeedsDcom = {w}
  Dcom = d
  Services = Free
  Protected = {d}
  PidCheck = TRUE
  Interactive = TRUE
  TerminateProcesses = TRUE
  DieInCall = TRUE
  Raising = {"LOADED", "KILL", "SHUTDOWN"}
  MaxInject = 1
CHECK_DEADLOCK FALSE
PROPERTY AnalysisEnds
