SPECIFICATION ExprSpec
CONSTANTS
  Radix = 4
  Width = 3
  Literals <- FewLiterals
  Symbols <- FewSymbols
  Names = {"x", "m", "b", "h"}
  Unaries = {"-", "~"}
  Binaries = {"-", "*", "/", "&&", "||", "?"}
  Marks = {",", "(", ")", "#", "),y", ",x"}
  Callers = {FALSE, TRUE}
  MaxTokens = 5
  MaxSlips = 1
  Guesses = {0, 1, 5}
INVARIANTS
  StacksRestored
  KnownMeansFinal
PROPERTIES
  NestedKeepsOuter
CHECK_DEADLOCK FALSE
