SPECIFICATION FairSpec
CONSTANTS
  Readers = {r1}
  SizedReaders = {r1}
  Grids = {small, large}
  NoGrid = NoGrid
  MaxGeneration = 2
  MaxSegment = 2
  MaxAppend = 2
INVARIANTS SizeMarksTruthful NoTornRead
PROPERTIES SizedChunkTruthful ReaderCatchesUp
