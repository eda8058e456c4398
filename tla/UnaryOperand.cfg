SPECIFICATION ExprSpec
CONSTANTS
  Radix = 4
  Width = 3
  Literals <- FewLiterals
  Symbols <- FewSymbols
  Names = {}
  Unaries = {"-"}
  Binaries = {"-"}
  Marks = {}
  Callers = {FALSE}
  MaxTokens = 6
  MaxSlips = 0
  Guesses = {0, 1, 5}
INVARIANT
  GrammaticalIsAccepted
CHECK_DEADLOCK FALSE
