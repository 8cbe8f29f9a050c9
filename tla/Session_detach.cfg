SPECIFICATION FairSpec
CONSTANTS
  Clients = {c1}
  Loop = Loop
  Ops = {"terminate"}
  MaxBytes = 0
  MaxSize = 0
  MaxTickets = 1
  Hardships = {"detach"}
PROPERTY HandoffResolves
CHECK_DEADLOCK FALSE
