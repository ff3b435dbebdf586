CONSTANTS
  Families = {"riden", "xy_sk120", "wz5005"}
  ModelOf <- OneSupply
  ScaleOf <- Scales
  DefaultSlave = 1
  Volt = {1}
  Amp = {1}
  Refusals <- OneRefusal
  Threshold = 2
  MaxCalls = 2
SPECIFICATION FairSpec
INVARIANT CurrentScaled
PROPERTY DriverConverges
