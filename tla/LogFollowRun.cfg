\* Two nodes of two log units and of none, found at any stage, whose streams and fetches may fail.
SPECIFICATION Spec
CONSTANTS
  n1 = n1
  n2 = n2
  Nodes <- TwoNodes
  UnitCount <- TwoAndNone
  Cap = 1
  MaxLines = 1
  MaxErrors = 1
INVARIANTS
  NodeLog
  NoSendAfterClose
  ExitInherited
PROPERTIES
  ExitsAtTerminal
CHECK_DEADLOCK FALSE
