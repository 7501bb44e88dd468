SPECIFICATION Spec
CONSTANTS
  Ids = {a, b}
  None = None
  Bodies = {text}
  Given = {"drafts"}
  Forced = {FALSE, TRUE}
  MaxCommands = 6
SYMMETRY IdSymmetry
INVARIANT TypeOK
INVARIANT CanonValid
CHECK_DEADLOCK FALSE
