CONSTANTS
  Data = {1, 2, 3}
  Sizes = {1}
  Reserves = {4}
  MIN_minspace = 3
  MaxRoots = 2
  MaxBlock = 1
  MaxSpaces = 3
SPECIFICATION Spec
INVARIANTS NothingDoubled NothingDangles SecondRoundSuffices
PROPERTIES CollectionIsInvisible PinnedWhileBlocked
CHECK_DEADLOCK FALSE
