CONSTANTS
  i1 = i1
  i2 = i2
  Ip = {i1, i2}
  NoIp = NoIp
  Depth = 1
  Retries = 2
  Good = good
  Bad = bad
  Blank = blank
  Plans <- ThreePlans
SPECIFICATION FairSpec
INVARIANT ProvTypeOK
INVARIANT StatusTruthful
INVARIANT ConnectPending
PROPERTY SkipJustified
PROPERTY JobsConclude
PROPERTY OkLeavesPortal
CHECK_DEADLOCK FALSE
