SPECIFICATION Spec
CONSTANTS
  FileIds <- MCFileIds
  Fdl1Ids <- MCFdl1Ids
  Fdl2Ids <- MCFdl2Ids
  EraseIds <- MCEraseIds
  NvId = "NV"
  Addrs <- MCAddrs
  LogicalBase = 100
  Jobs <- SharedIdJobs
  BslChunk = 2
  PdlChunk = 2
  MaxKicks = 1
  MaxRuns = 1
  MaxLoss = 0
INVARIANTS
  PartitionsGetOwnBytes
CHECK_DEADLOCK FALSE
