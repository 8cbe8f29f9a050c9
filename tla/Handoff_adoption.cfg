SPECIFICATION FairSpec
CONSTANTS
  Sessions = {s1, s2}
  None = None
INVARIANTS NoSplitOwnership AllOrNothing OwnDescriptor ResumedWhenOver
PROPERTY SourceThaws
CHECK_DEADLOCK FALSE
