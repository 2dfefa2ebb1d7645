------------------------------ MODULE MCLocals ------------------------------
(***************************************************************************)
(* Small words for module Locals: three argument registers, two or three   *)
(* locals, two machine words.                                              *)
(***************************************************************************)
EXTENDS Locals

CONSTANTS a, b, c

AB == {a, b}
ParamA  == [i \in {0} |-> a]
ParamAB == [i \in {0, 1} |-> IF i = 0 THEN a ELSE b]

\* Finished words: a procedure, a function of two inputs, one which fails.
Proc == [inp |-> 0, out |-> 0, err |-> FALSE, clobber |-> {0}]
Fun  == [inp |-> 2, out |-> 1, err |-> FALSE, clobber |-> {0, 1}]
Fails == [inp |-> 0, out |-> 1, err |-> TRUE, clobber |-> {0}]
\* fun: ident { a -- b } a end
Ident == [inp |-> 1, out |-> 1, err |-> FALSE, clobber |-> {}]

Ordinary == {Proc, Fun, Fails}
All      == {Proc, Fun, Fails, Ident}
None     == {}
=============================================================================
