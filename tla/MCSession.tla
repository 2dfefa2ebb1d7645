----------------------------- MODULE MCSession -----------------------------
(***************************************************************************)
(* Sessions with two names, a file or two, and room for a few symbols.     *)
(***************************************************************************)
EXTENDS Session

CONSTANTS foo, bar, lib, lib2

FooBar == {foo, bar}
Foo    == {foo}
Lib    == {lib}
Libs   == {lib, lib2}
Empty  == {}
=============================================================================
