CONSTANTS
  Families = {"riden"}
  ModelOf <- TwoSupplies
  ScaleOf <- Scales
  DefaultSlave = 1
  Volt = {1}
  Amp = {1}
  Refusals <- OneRefusal
  Threshold = 2
  MaxCalls = 2
SPECIFICATION Spec
INVARIANT SwitchedSlaveScaled
