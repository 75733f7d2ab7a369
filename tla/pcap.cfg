SPECIFICATION Spec
CONSTANTS
  MaxRun = 2
  MaxLen = 2
  MaxCrash = 1
  MaxFault = 1
CHECK_DEADLOCK FALSE
INVARIANT TypeOK
INVARIANT ReportIsWhole
PROPERTY RecordFinal
PROPERTY BusyIsTrue
PROPERTY IsCapture
