SPECIFICATION Spec
CONSTANTS
  Clients = {c1, c2}
  Loop = Loop
  Ops = {"input", "terminate", "resize"}
  MaxBytes = 1
  MaxSize = 1
  MaxTickets = 2
  Hardships = {"detach", "escape", "slowkill", "noread", "disk", "stall"}
PROPERTY TerminatedMeansDead
CHECK_DEADLOCK FALSE
