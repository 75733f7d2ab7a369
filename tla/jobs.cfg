SPECIFICATION Spec
CONSTANTS
  Job = {j1, j2}
  NoJob = NoJob
  LogFaults = {TRUE}
INVARIANT TypeOK
INVARIANT ActiveIsLive
INVARIANT OneAnalysis
INVARIANT PoliteServerWorks
INVARIANT PoliteLeavesNothing
INVARIANT PoliteReportLooksBack
PROPERTY TerminalIsFinal
PROPERTY CancelEndsJob
CHECK_DEADLOCK FALSE
