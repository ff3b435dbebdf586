CONSTANTS
  Producer = {converter}
  Isr = {}
  Value = {0, 1}
  Len2 = 4
  HistoryLen = 4
  Speed = {}
  Window = {1, 2, 4, 6}
  Shrink = FALSE
SPECIFICATION RpmRingSpec
INVARIANT NoDataRace
INVARIANT AverageOfRecent
PROPERTY ImplementsFifo
