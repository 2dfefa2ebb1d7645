CONSTANTS
  Families <- MCFamilies
  Local = {1, 2, 3, 4}
  StableRegs = 3
  PairMax = 63
  Scale = 512
  InlineLen = 4
  Lanes = 4
  LaneBits = 2
  AdrPage = 8
  Got = 611
  Depth = 3
SPECIFICATION FairSpec
INVARIANTS ExecIsWritten NoTrap FramesRestored LocalsKept ValuesArrive ErrorsPropagate
PROPERTIES Terminates
CHECK_DEADLOCK FALSE
