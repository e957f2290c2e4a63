SPECIFICATION Spec
CONSTANTS
  N = 2
  MaxReads = 2
  MaxPauses = 1
  small = small  large = large
  Settings <- Right
  NULL = NULL
INVARIANT CorrectResolutionShows
CHECK_DEADLOCK FALSE
