\* Imports which include each other, also from unfinished words.
CONSTANTS
  foo = foo  bar = bar  lib = lib  lib2 = lib2
  Name <- Foo
  File <- Libs
  Stdin = Stdin
  None = None
  Terminal = TRUE
  Slop = FALSE
  ExternName <- Foo
  EarlyImport = TRUE
  Catches = TRUE
  MaxSyms = 2
  MaxCells = 1
  MaxDefs = 2
  MaxDepth = 3
SPECIFICATION FairSpec
INVARIANT ReadOnce
PROPERTY ErrorSurfaces
CHECK_DEADLOCK FALSE
