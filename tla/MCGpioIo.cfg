CONSTANTS
  Pin = {a0, b0}
  GroupB = {b0}
  InputMode = {pulldown}
  PullDown = pulldown
  Output = output
SPECIFICATION FairSpec
INVARIANT IInv
INVARIANT PulseHasEnd
INVARIANT SettledPadMatches
PROPERTY PulseEndsRestored
PROPERTY PollKeepsMode
PROPERTY PulseTerminates
