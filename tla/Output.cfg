SPECIFICATION Spec
CONSTANTS
  Formats <- AllFormats
  Radix = 4
  PERLINE = 2
  GenSize = 2
  Segments = {"INITIAL CODE SEGMENT", "ram"}
  InitSeg = "INITIAL CODE SEGMENT"
  Uninitialised = {"ram"}
  Origins = {1, 2, 5}
  Fills = {6}
  Strings <- FewStrings
  Counts = {0, 3}
  MaxLines = 5
  MaxPasses = 2
INVARIANTS
  FileIsImage
  HexIsImage
  BinIsImageInOrder
PROPERTY
  ImageSpec
CHECK_DEADLOCK FALSE
