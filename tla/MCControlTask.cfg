CONSTANTS
  NaN = NaN
  Freq <- Frequencies
  Duty <- Duties
  Request <- Requests
  QueueLen = 2
  Fallback = 10000
  Faults = TRUE
  Resets = TRUE
SPECIFICATION ControlSpec
INVARIANT NoDanglingTimer
INVARIANT NoMixedBand
INVARIANT HardwareFollows
INVARIANT LastAcceptedWins
INVARIANT FanOffUntilAsked
INVARIANT SavedIsBootable
PROPERTY ServesInOrder
