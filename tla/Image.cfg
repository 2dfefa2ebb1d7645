SPECIFICATION Spec
CONSTANTS
  Names = {"read", "write"}
  NameLen <- MCNameLen
  MaxName = 5
  Page = 9216
  AdrPage = 3072
  SigPage = 3072
  InstrSize = 1024
  CellSize = 4608
  CodeLen = 9
  DataLen = 9216
  ArenaLen = 18432
  CellsLen = 9216
  HeapBase = 27648
  PageZero = 92160
  SharedBase = 230400
  IdLen = 32
  Sessions <- MCSessions
  MaxRegions = 3
INVARIANTS TypeOK LoadsHere DataApart LoadsThere SegmentsApart Signed NoAssertion ResultTold
CHECK_DEADLOCK FALSE
