SPECIFICATION FairSpec
CONSTANTS
  FileIds <- MCFileIds
  Fdl1Ids <- MCFdl1Ids
  Fdl2Ids <- MCFdl2Ids
  EraseIds <- MCEraseIds
  NvId = "NV"
  Addrs <- MCAddrs
  LogicalBase = 100
  Jobs <- AllJobs
  BslChunk = 2
  PdlChunk = 2
  MaxKicks = 2
  MaxRuns = 2
  MaxLoss = 1
INVARIANTS
  TypeOK
  CompleteMeansFlashed
  BootedMeansFlashed
  RepliesInStep
  InPacOrder
  KeepsNvUnlessFormat
  ResetLands
PROPERTIES
  LoaderFirst
  ErasesBeforeMarkers
  RunEnds
  CalmRunCompletes
  ImplementsContract
CHECK_DEADLOCK FALSE
