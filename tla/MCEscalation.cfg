\* One prompt, three rounds of at most two calls, a window of two commands.
\* The operator may stop using the tab, so the system may stop.
SPECIFICATION Spec
CONSTANTS
  Window = 2
  MaxRounds = 3
  PerReply = 2
  MaxPrompts = 1
INVARIANTS
  BudgetPerYes
  OpenPerYes
  GrantIsMetered
PROPERTIES
  KeepsMeter
  GrantNotAgainstNothing
  TurnAdvances
  ClosingEnds
  TurnEnds
CHECK_DEADLOCK FALSE
