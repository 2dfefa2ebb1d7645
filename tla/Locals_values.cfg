\* The machine agrees with what the compiler tracks.
CONSTANTS
  a = a  b = b  c = c
  Unknown = Unknown
  NRegs = 3
  NSaved = 1
  Local <- AB
  Value = {0, 1}
  InpLen = 2
  OutLen = 1
  HasErr = TRUE
  AutoTry = TRUE
  Param <- ParamAB
  Callee <- Ordinary
  CompareInPlace <- None
  Slop = TRUE
  MaxFix = 2
SPECIFICATION Spec
INVARIANTS TypeOK Tracked LocalHasPlace
PROPERTY PushGivesValue
CHECK_DEADLOCK FALSE
