\* Three reads, up to two prompts left over by the bring-up.
\* The batch ends, so the system stops.
SPECIFICATION Spec
CONSTANTS
  Reads = 3
  Residue = 2
INVARIANTS
  PunctualReadsAreWhole
  NoReadIsAnothers
PROPERTIES
  LateIsForgotten
  BatchAdvances
  BatchEnds
CHECK_DEADLOCK FALSE
