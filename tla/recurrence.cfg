\* Every kind of pattern, around the months and years that are short.
SPECIFICATION SeriesSpec
CONSTANTS
  None = None
  Patterns <- MCPatterns
  Delays <- MCDelays
  MaxSpawned = 5
  Everys = {1, 2, 5}
  Windows = {0, 60}
INVARIANT NextIsTheNext
PROPERTIES MonthsKeepPace EndsWithWindow
CHECK_DEADLOCK FALSE
