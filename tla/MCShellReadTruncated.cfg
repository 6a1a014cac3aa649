\* A device slower than the client's timeout.
SPECIFICATION Spec
CONSTANTS
  Reads = 2
  Residue = 0
INVARIANT
  ReadIsWholeOrUnread
CHECK_DEADLOCK FALSE
