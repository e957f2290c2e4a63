SPECIFICATION BothSpec
CONSTANTS
  DctSize = 1
  MaxDimension = 65500
  MaxComponents = 10
  MaxSampFactor = 2
  MaxCompsInScan = 4
  MaxBlocksInMcu = 10
  Pictures <- AnyPicture
  t1 = t1  t2 = t2
  Threads = {t1, t2}
  Uses <- MCUses
  NULL = NULL  Junk = Junk  SizeWrap = 8
INVARIANTS WellStored PassShows Inside SizeGuardsBuffer
PROPERTIES NeighboursKnown CallsReturn FrameShown DecodeReturns
CHECK_DEADLOCK FALSE
