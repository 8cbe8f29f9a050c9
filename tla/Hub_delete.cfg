SPECIFICATION Spec
CONSTANTS
  Callers = {c1, c2}
  Deleters = {c1, c2}
  Names = {n1}
  MaxStates = 2
INVARIANT CloseTerminatesAll
CHECK_DEADLOCK FALSE
