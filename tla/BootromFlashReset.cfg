SPECIFICATION Spec
CONSTANTS
  FileIds <- MCFileIds
  Fdl1Ids <- MCFdl1Ids
  Fdl2Ids <- MCFdl2Ids
  EraseIds <- MCEraseIds
  NvId = "NV"
  Addrs <- MCAddrs
  LogicalBase = 100
  Jobs <- SerialJobs
  BslChunk = 2
  RomAttempts = 1
  FdlAttempts = 1
  MaxRuns = 1
  MaxLoss = 0
INVARIANTS
  ResetReaches
CHECK_DEADLOCK FALSE
