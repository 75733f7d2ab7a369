SPECIFICATION Spec
CONSTANTS
  Conn = {c, d}
  Hole = Hole
  Size = 2
  MaxUpload = 1
  PoolSize = 0
CHECK_DEADLOCK FALSE
INVARIANT TypeOK
INVARIANT ListedIsStored
PROPERTY UploadKept
PROPERTY ShutdownReturns
