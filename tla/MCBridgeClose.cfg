\* close() after a failed open, or after the transport died.
SPECIFICATION Spec
CONSTANTS
  MaxOpens = 1
PROPERTY
  CloseIsSafe
CHECK_DEADLOCK FALSE
