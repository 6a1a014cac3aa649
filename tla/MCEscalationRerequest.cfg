\* A request for access made after the live window is spent.
SPECIFICATION Spec
CONSTANTS
  Window = 1
  MaxRounds = 3
  PerReply = 1
  MaxPrompts = 1
INVARIANT
  SpentWindowCanBeRequested
CHECK_DEADLOCK FALSE
