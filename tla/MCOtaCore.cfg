CONSTANTS
  Http = Http
  Cdc = Cdc
  Task <- BothTasks
  Chunks = 3
  Environment <- BothHosts
SPECIFICATION OtaFairSpec
INVARIANT SingleWriter
INVARIANT ProgressCounts
INVARIANT BootIntact
INVARIANT WritingLocked
PROPERTY UpdatesAreAtomic
PROPERTY UploadEnds
CHECK_DEADLOCK FALSE
