\* The fixups of a word: relocs confirmed, homes apart, clobbers complete.
CONSTANTS
  a = a  b = b  c = c
  Unknown = Unknown
  NRegs = 3
  NSaved = 1
  Local <- AB
  Value = {0}
  InpLen = 1
  OutLen = 2
  HasErr = TRUE
  AutoTry = TRUE
  Param <- ParamA
  Callee <- All
  CompareInPlace <- AB
  Slop = FALSE
  MaxFix = 4
SPECIFICATION Spec
INVARIANTS RelocsConfirmed HomesSafe ClobbersComplete
CHECK_DEADLOCK FALSE
