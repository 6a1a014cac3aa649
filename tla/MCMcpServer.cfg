\* Two calls by either tool over three devices and two threads.
SPECIFICATION Spec
CONSTANTS
  nowhere = nowhere
  NoAddress = nowhere
  Nodes <- MCNodes
  Listings <- MCListings
  Environment <- MCEnvironment
  Targets <- MCTargets
  Commands <- MCCommands
  AllowPipe = TRUE
  PipeModifiers <- MCPipeModifiers
  Workers = 2
  MaxCalls = 2
INVARIANTS
  FailsClosed
PROPERTIES
  EveryCallReturns
  KeepsLog
  CallsAdvance
CHECK_DEADLOCK FALSE
