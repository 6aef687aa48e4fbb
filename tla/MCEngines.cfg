CONSTANTS
  MaxStamp = 3
  KeepLocal = 0
  KeepLatest = 1
  LetOff = TRUE
SPECIFICATION EnginesSpec
INVARIANTS NewestKept
PROPERTIES DeletedIsGone
