SPECIFICATION Spec
CONSTANTS
  Main = "main"
  Macros = {"m", "n"}
  Files = {"f"}
  Texts <- MexitTexts
  MaxMacLevel = 32
  PassBound = 2
INVARIANT
  PassStartsOutside
CHECK_DEADLOCK FALSE
