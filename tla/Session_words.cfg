\* Errors, catches and nested imports around definitions of two words.
CONSTANTS
  foo = foo  bar = bar  lib = lib  lib2 = lib2
  Name <- FooBar
  File <- Lib
  Stdin = Stdin
  None = None
  Terminal = TRUE
  Slop = FALSE
  ExternName <- Empty
  EarlyImport = FALSE
  Catches = TRUE
  MaxSyms = 3
  MaxCells = 2
  MaxDefs = 4
  MaxDepth = 2
SPECIFICATION Spec
INVARIANTS TypeOK FinishedKept CellsMatch
PROPERTIES WordsKept ErrorEndsDefinition
CHECK_DEADLOCK FALSE
