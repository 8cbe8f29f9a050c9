SPECIFICATION Spec
CONSTANTS
  Readers = {r1}
  SizedReaders = {r1}
  Grids = {small, large}
  NoGrid = NoGrid
  Detached = Detached
  MaxGeneration = 3
  MaxSegment = 1
  MaxAppend = 1
SYMMETRY Symmetry
INVARIANTS TypeOK IndexMatchesDirectory NoMissedWakeup
PROPERTIES RetainedNeverSkipped ImplementsStream
