SPECIFICATION Spec
CONSTANTS
  Radix = 4
  Width = 3
  Literals <- FewLiterals
  Symbols <- FewSymbols
  Names = {"x", "m"}
  Unaries = {"-"}
  Binaries = {"-"}
  Marks = {"(", ")", ",", "#", ",x", ",y", "),y"}
  Callers = {TRUE}
  MaxTokens = 5
  MaxSlips = 0
  MaxBit = 2
  Mnemonics <- SomeRows
  Extensions <- SomeExtensions
INVARIANTS
  OperandEncoded
  BranchReaches
  LongestWhenUnknown
  SmallestModeChosen
  NoStaleByte
CHECK_DEADLOCK FALSE
