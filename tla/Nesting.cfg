SPECIFICATION FairSpec
CONSTANTS
  Main = "main"
  Macros = {"m", "n"}
  Files = {"f"}
  Texts <- NestingTexts
  MaxMacLevel = 3
  PassBound = 2
INVARIANTS
  TypeOK
  ActiveMeansAllOpen
  NoOrphans
PROPERTIES
  OnlyOwnersClose
  ScopesAreFresh
  Termination
CHECK_DEADLOCK FALSE
