\* Every interleaving of one opener, one caller, one close and loop C.
\* The tab may stay idle for ever, so the system may stop.
SPECIFICATION Spec
CONSTANTS
  MaxOpens = 3
INVARIANTS
  OneSessionEver
PROPERTIES
  OpenMeansSession
  EveryCallReturns
  SignalTearsDown
CHECK_DEADLOCK FALSE
