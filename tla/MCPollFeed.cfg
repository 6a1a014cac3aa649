\* Three poll numbers, two signals under way.
\* A closed tab's worker has ended, so the system stops.
SPECIFICATION Spec
CONSTANTS
  PollIds = 3
  MaxEvents = 2
INVARIANTS
  HudAndModelAgree
  OneLateSession
PROPERTIES
  DeadTurnsUnread
  
CHECK_DEADLOCK FALSE
