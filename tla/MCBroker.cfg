\* Three consumers, two polls, every reply of Replies for either vendor.
SPECIFICATION Spec
CONSTANTS
  hud = hud
  cockpit = cockpit
  ai = ai
  Consumers <- MCConsumers
  Manifest <- MCManifest
  Kind <- MCKind
  Usual <- MCUsual
  Odd <- MCOdd
INVARIANTS
  VerdictIsEvidenced
  GreenHidesNoFault
  PresentConforms
  EnrichmentNeverDecides
  TruncationIsNeverJudged
  ServedInOrder
CHECK_DEADLOCK FALSE
