SPECIFICATION Spec
CONSTANTS
  N = 2
  MaxReads = 2
  MaxPauses = 2
  small = small  large = large
  Settings <- OneSize
  NULL = NULL
INVARIANTS FreedUnused 
 
CHECK_DEADLOCK FALSE
