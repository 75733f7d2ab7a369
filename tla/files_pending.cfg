SPECIFICATION Spec
CONSTANTS
  proc1 = proc1
  proc2 = proc2
  file1 = file1
  file2 = file2
  file3 = file3
  Proc = {proc1, proc2}
  Path = {file1, file2, file3}
  Owner <- MCOwner
  Content = {c, d}
  None = None
  MaxWrite = 2
  MaxRequest = 4
CHECK_DEADLOCK FALSE
INVARIANT NotifiedAreDumped
