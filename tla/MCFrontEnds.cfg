CONSTANTS
  Fd = {1, 2, 3}
  MaxClients = 2
  FailThreshold = 2
  CountMax = 3
  PayloadSize = 768
  PinCount = 16
  Texts <- BootTexts
  WsBounds <- WsParts
  HostFrames <- Frames
  BufLen = 7
  QueueLen = 2
  Command <- Commands
  Plans <- AllPlans
SPECIFICATION FrontSpec
INVARIANT SlotsSound
INVARIANT FramesWhole
INVARIANT CommandsWhole
PROPERTY GoneFreesSlot
CHECK_DEADLOCK FALSE
