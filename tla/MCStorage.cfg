SPECIFICATION MCSpec
CONSTANTS
  v = v
  Buckets <- TwoBuckets
  Keys <- TwoKeys
  Values <- OneValue
  Nil = Nil
  NoEntry = NoEntry
  MaxLeaves = 17
  MaxLength = 6
  MaxCrashes = 1
  HashPlaces = {1, 4}
  Offset = 3
INVARIANTS FlushInv ProofsLeadToRoot WitnessesVerify SavedIsComplete
PROPERTIES RefinesMap
CHECK_DEADLOCK FALSE
