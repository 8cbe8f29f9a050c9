SPECIFICATION Spec
CONSTANTS
  Clients = {c1, c2}
  Loop = Loop
  Ops = {"resize", "checkpoint", "rotate"}
  MaxBytes = 2
  MaxSize = 1
  MaxTickets = 1
  Hardships = {"disk"}
INVARIANTS OutputInOrder CheckpointExact SizesAgree HandoffExact
PROPERTY CommittedReadsNoMore
CHECK_DEADLOCK FALSE
