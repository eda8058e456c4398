SPECIFICATION Spec
CONSTANTS
  Lines <- SomeLines
  Values <- SomeValues
  Segs <- SomeSegs
  Garbage = {0, 5, 255}
  ULong = 1048576
  MaxPasses = 2
INVARIANTS
  WrittenIsFinal
  SizeStable
  Decodable
  BranchReaches
CHECK_DEADLOCK FALSE
