SPECIFICATION LayoutSpec
CONSTANTS
  DctSize = 3
  MaxDimension = 65500
  MaxComponents = 3
  MaxSampFactor = 4
  MaxCompsInScan = 2
  MaxBlocksInMcu = 9
  NumQuantTbls = 2
  NumHuffTbls = 2
  NumArithTbls = 2
  HuffLengths = 2
  HuffSymbols = 2
  App0DataLen = 3
  App14DataLen = 2
  AppnDataLen = 3
  JfifSignature = 74
  AdobeSignature = 65
  SaveLimit <- Saves
  Following <- Follows
  Segments = 9
  Interval = 2
  Streams <- AllStreams
  BlockSize = 2
  Widths = {4, 7, 9}
  Heights = {3, 6, 8}
  Samplings <- SomeSamplings
  Requests <- SomeRequests
  Pictures <- TablePictures
INVARIANTS HeadersAsWritten RefusesRightly DamageContained BlocksPlaced DivisorsRight
CHECK_DEADLOCK FALSE
