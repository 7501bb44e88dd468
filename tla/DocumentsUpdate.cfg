SPECIFICATION Spec
CONSTANTS
  Ids = {a, b}
  None = None
  Bodies = {text, newText}
  Given = {"drafts", "content"}
  Forced = {FALSE}
  MaxCommands = 4
PROPERTY CanonOnlyAccepted
CHECK_DEADLOCK FALSE
