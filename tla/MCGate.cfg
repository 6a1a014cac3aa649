\* Three tiers, four tools; five calls against a cap of four, so that the
\* gradient can be climbed to its top, used, and the cap exceeded.
SPECIFICATION Spec
CONSTANTS
  Top = 3
  floorTool = floorTool
  midTool = midTool
  midTool2 = midTool2
  topTool = topTool
  Tools <- MCTools
  TierOf <- MCTierOf
  Unknown = unknown
  Door = door
  Cap = 4
  MaxCalls = 5
INVARIANTS
  GradientClimbed
  TrailAccountsForAccess
  DispatchEarned
  GrantAnswersRequest
  RunawayBackstop
  DispatchAnswered
PROPERTY
  KeepsBoundary
CHECK_DEADLOCK FALSE
