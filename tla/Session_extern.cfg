\* extern: at the terminal, then an error, then a definition.
CONSTANTS
  foo = foo  bar = bar  lib = lib  lib2 = lib2
  Name <- FooBar
  File <- Lib
  Stdin = Stdin
  None = None
  Terminal = TRUE
  Slop = FALSE
  ExternName <- FooBar
  EarlyImport = FALSE
  Catches = FALSE
  MaxSyms = 2
  MaxCells = 1
  MaxDefs = 3
  MaxDepth = 1
SPECIFICATION Spec
INVARIANT NotYetVisible
CHECK_DEADLOCK FALSE
