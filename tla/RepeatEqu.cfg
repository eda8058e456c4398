SPECIFICATION Spec
CONSTANTS
  MaxPasses = 3
  DoAllPasses = FALSE
  IfReason = "if"
  Reasons <- WhyNeeded
  Counts <- ManyCounts
  Names = {"a", "b", "c"}
  Segments = {"INITIAL CODE SEGMENT"}
  InitSeg = "INITIAL CODE SEGMENT"
  Programs <- CountPrograms
  Formats = {"RAW"}
  ByteLimit = 4
  Word = 1024
INVARIANT
  EveryCountHonoured
CHECK_DEADLOCK FALSE
