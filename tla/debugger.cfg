SPECIFICATION SessionSpec
CONSTANTS
  Caller = {a, b}
  None = None
  MaxCmd = 4
  MayIdle = TRUE
SYMMETRY Symmetry
INVARIANT SessionTypeOK
INVARIANT CommandOnce
INVARIANT PayloadOnce
INVARIANT PoliteOwnPayload
PROPERTY WithdrawnIsGone
