SPECIFICATION FairSpec
CONSTANTS
  Pid = {p, q}
  MaxServer = 2
  MaxRecord = 3
INVARIANT TypeOK
INVARIANT LogWhole
PROPERTY RecordsArrive
