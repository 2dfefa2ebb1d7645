CONSTANTS
  Families <- MCFamilies
  Local = {1, 2, 3, 4}
  StableRegs = 3
  PairMax = 2
  Scale = 4
  InlineLen = 4
  Lanes = 4
  LaneBits = 2
  AdrPage = 8
  Got = 611
  Depth = 3
SPECIFICATION Spec
INVARIANTS FramesRestored
CHECK_DEADLOCK FALSE
