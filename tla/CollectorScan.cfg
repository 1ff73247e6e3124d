CONSTANTS
  Data = {1, 2, 3, 4}
  Sizes = {1}
  Reserves = {4}
  MIN_minspace = 4
  MaxRoots = 3
  MaxBlock = 1
  MaxSpaces = 3
SPECIFICATION Spec
INVARIANT NothingDangles
CHECK_DEADLOCK FALSE
