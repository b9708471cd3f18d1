SPECIFICATION Spec
CONSTANTS
  Accounts        <- MCAccounts
  AccountType     <- MCAccountType
  Group           <- MCGroup
  ResultAccount   = "result"
  OpeningAccounts <- MCOpeningAccounts
  PostingPairs    <- MCPostingPairs
  OpeningAmount = 2
  Amounts     = {1, 2}
  LastDay     = 5
  Today       = 2
  MaxPostings = 2
  MaxClosings = 2
INVARIANTS
  ReportsAgree
  ExerciseCarriesOver
  EveryEntryFindable
  SameKeySameReport
  DemoDatesImport
CHECK_DEADLOCK FALSE
