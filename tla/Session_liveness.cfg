SPECIFICATION FairSpec
CONSTANTS
  Clients = {c1, c2}
  Loop = Loop
  Ops = {"terminate", "input"}
  MaxBytes = 1
  MaxSize = 0
  MaxTickets = 1
  Hardships = {"disk"}
PROPERTIES HandoffResolves TerminateReturns WaitReturns
CHECK_DEADLOCK FALSE
