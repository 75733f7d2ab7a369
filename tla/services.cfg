SPECIFICATION Spec
CONSTANTS
  Pid = {r, p, q}
  RootPid = r
  Name = {s}
  Image = {v}
  NoImage = NoImage
  MaxTime = 4
SYMMETRY Symmetry
CHECK_DEADLOCK FALSE
INVARIANT TypeOK
INVARIANT ServiceIsOfSample
INVARIANT LiveServiceDefers
PROPERTY EntryKept
