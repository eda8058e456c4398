SPECIFICATION Spec
CONSTANTS
  Sources <- TextFiles
  ArgNumber <- Braces3
  Extension <- Sized
  DataOps <- Sizes
  MAXLINE = 14
  MaxMacLevel = 3
  PassBound = 2
INVARIANTS
  ExactArgumentLine
  LineFits
  PassesAgree
PROPERTY
  ScanProgresses
CHECK_DEADLOCK FALSE
