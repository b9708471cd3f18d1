\* Two exercises with gains, losses, counts and contra balances.
SPECIFICATION Spec
CONSTANTS
  Accounts <- MCAccounts
  ParentOf <- MCParentOf
  Support <- MCSupport
  PostingAccounts = {"caja", "cajachica", "proveedores", "gastos", "ventas"}
  MaxAmount = 1
  MaxPostings = 2
  MaxClosings = 2
CHECK_DEADLOCK FALSE
INVARIANTS
  PlanIsPostable
  ClosingZeroesLedger
  SheetBalancesUnlessContra
  ReopenedCanClose
PROPERTIES
  ReopeningCarriesPatrimony
