\* The operator approves after the tab was closed.
SPECIFICATION Spec
CONSTANTS
  Window = 1
  MaxRounds = 1
  PerReply = 1
  MaxPrompts = 1
PROPERTY
  NoSessionForClosedTab
CHECK_DEADLOCK FALSE
