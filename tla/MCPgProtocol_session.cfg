SPECIFICATION FairSpec
CONSTANTS
  Names <- TwoNames
  Queries <- AllQueries
  Extended <- Requests
  Formats = {"csv", "arrow"}
  MaxSends = 4
  MaxChunks = 2
  MaxFaults = 1
  PipeSize = 1
  MaxRows = 2
  OutSize = 1
  Window = 2
INVARIANTS OneReady CopyCounts
PROPERTIES CopyWhole  
CHECK_DEADLOCK FALSE
