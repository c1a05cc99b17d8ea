SPECIFICATION IngestionSpec
CONSTANTS
  first = first
  second = second
  Processes = {first, second}
  Boundaries = {1, 2}
  PageSizes = {2}
  MaxFinalized = 3
  MaxUpsets = 1
CHECK_DEADLOCK FALSE
INVARIANT NothingMissed
PROPERTY CaughtUp
