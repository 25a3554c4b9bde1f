CONSTANTS
  d1 = d1
  d2 = d2
  Drivers = {d1, d2}
  TurnEnvironments = {{"crash", "fork", "budget"}, {"crash", "refuse"}, {"overlap"}}
  MaxTurns <- MCMaxTurns
  MaxRefusals = 1
  MaxBoots = 3
  CallIds = {2, 9}
SPECIFICATION TurnSpec
SYMMETRY DriversAlike
INVARIANT MessageIdsDistinct
INVARIANT BudgetIsSticky
INVARIANT CallLoggedBeforeRun
PROPERTY TurnIsFaithful
CHECK_DEADLOCK FALSE
