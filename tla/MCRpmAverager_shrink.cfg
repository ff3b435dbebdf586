CONSTANTS
  HistoryLen = 4
  Speed = {0, 1, 5}
  Window = {1, 2, 4, 6}
  Shrink = TRUE
SPECIFICATION AvgSpec
INVARIANT WithinSamples

