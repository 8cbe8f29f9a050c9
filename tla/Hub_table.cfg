SPECIFICATION FairSpec
CONSTANTS
  Callers = {c1, c2, c3}
  Deleters = {c1}
  Names = {n1, n2}
  MaxStates = 2
INVARIANTS InventoryClosed OneChildPerName NothingOrphaned CloseTerminatesAll
PROPERTY CloseReturns
CHECK_DEADLOCK FALSE
