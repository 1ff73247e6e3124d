CONSTANTS
  MaxLen = 4
  MaxSubs = 3
  NoRange = NoRange
SPECIFICATION SubscriptsSpec
INVARIANT RangesAsDescribed
CHECK_DEADLOCK FALSE
