SPECIFICATION FairSpec
CONSTANTS
  MaxPasses = 5
  DoAllPasses = TRUE
  IfReason = "if"
  Reasons <- WhyNeeded
  Counts <- ManyCounts
  Names = {"a", "b", "c"}
  Segments = {"INITIAL CODE SEGMENT"}
  InitSeg = "INITIAL CODE SEGMENT"
  Programs <- BlockPrograms
  Formats = {"RAW"}
  ByteLimit = 4
  Word = 1024
INVARIANTS
  OutputUsesFinalValues
  RepeatCountHonoured
  IfSuppression
PROPERTY
  Termination
CHECK_DEADLOCK FALSE
