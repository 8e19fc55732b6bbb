SPECIFICATION Spec
CHECK_DEADLOCK FALSE
CONSTANTS
  Networks = {"arbitrum_one", "base", "berachain_cartio", "mainnet"}
  NewNames <- MCNewNames
  Budgets <- MCBudgets
  NoCopy = NoCopy
INVARIANTS
  OwnershipComesLast
  NothingRefersToNothing
PROPERTIES
  MigrationsFinish
