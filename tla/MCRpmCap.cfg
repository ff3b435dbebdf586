CONSTANTS
  Width = 2
  MinEdge = 1
  Timeout = {1}
  MaxLate = 0
  MaxAge = 1
  FreqCap = 1
  HistoryLen = 1
  Speed = {}
  Window = {1}
  Shrink = FALSE
  ClkHz = 1
  Pole = {1}
  SpeedCap = 1
SPECIFICATION CapFairSpec
INVARIANT NoLostWakeup
INVARIANT MeasurementWatched
INVARIANT LossIsAveraged
PROPERTY StoppedDrains
