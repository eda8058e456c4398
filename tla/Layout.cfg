SPECIFICATION FairSpec
CONSTANTS
  MaxPasses = 5
  DoAllPasses = FALSE
  IfReason = "if"
  Reasons <- WhyNeeded
  Counts <- ManyCounts
  Names = {"a", "b", "c"}
  Segments = {"INITIAL CODE SEGMENT", "two"}
  InitSeg = "INITIAL CODE SEGMENT"
  Programs <- StraightPrograms
  Formats = {"RAW", "RAS"}
  ByteLimit = 4
  Word = 1024
INVARIANTS
  OutputUsesFinalValues
  LabelsMatchOutput
  AscendingOutput
PROPERTIES
  DSpec
  FatalStopsPasses
  UnresolvedIsReported
CHECK_DEADLOCK FALSE
