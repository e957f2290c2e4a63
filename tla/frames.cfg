SPECIFICATION BothSpec
CONSTANTS
  FF = FF
  Code = Code
  x = x
  Byte = {FF, Code, x}
  MaxInput = 6
  Inputs <- MCInputs
  Streams <- MCStreams
  Limits = {0, 3, 5, 6}
  MaxParts = 4
  FRAME_MAX_LENGTH = 12
  HEADER_MAX_LENGTH = 2
  IntMax = 255
  Undeclared = Undeclared
CHECK_DEADLOCK FALSE
INVARIANTS
  MarkersFound
  AllDelivered
  ArraysFit
  NoByteTwice
PROPERTIES
  ImplementsSource
  Terminates
