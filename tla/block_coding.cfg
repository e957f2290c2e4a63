SPECIFICATION CodingSpec
CONSTANTS
  LeftOut = {12, 14}
  Images <- ArithImages
  DcLower = 1
  DcUpper = 2
  AcK = 5
  Faults <- SomeFaults
INVARIANTS TransformsNear CodesReadBack HuffmanReadsBack ArithmeticReadsBack
CHECK_DEADLOCK FALSE
