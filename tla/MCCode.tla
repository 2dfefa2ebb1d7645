---- MODULE MCCode ----
(* Instances of Code for TLC. *)
EXTENDS Code

Word(errs, body) == [errs |-> errs, body |-> body]
Set(k, v) == <<"set", k, v>>
MCParam(k) == <<"param", k>>
Get(k) == <<"get", k>>
Alloca(n) == <<"alloca", n>>
Adr(a) == <<"adr", a>>
Calls(w) == <<"call", w>>
DynamicSize == <<"alloca_dynamic">>
Intrin == <<"intrin">>
Recurs == <<"recur">>
Rets == <<"ret">>
Throws == <<"throw">>

AnyErr == {-1, 0, 1}
NoErr == {-1}

\* Every value of a machine word.
Immediates == <<Word(NoErr, <<{Set(1, v) : v \in Imm}>>)>>

\* Locals in a register and in the frame, beside calls and allocations.
Frames ==
  <<Word(NoErr, <<{Set(1, 3)}, {Set(1, -4), Set(2, -4)}, {Get(1), Alloca(1)},
                  {Get(1), Get(2), DynamicSize}>>),
    Word(NoErr, <<{Set(2, 5)}, {Set(1, 2), Calls(1)}, {Get(1), Alloca(4), Calls(1)},
                  {Get(1), Get(2), Calls(1)}, {Get(2), DynamicSize}>>)>>

\* Homes in one to three registers, saved in pairs and singly, and in the frame.
Homes ==
  <<Word(NoErr, <<{Set(1, 3)}, {Set(2, -4)}, {Set(3, 5)}, {Set(4, 2), Alloca(1)},
                  {Get(1), Get(4)}, {Get(2), DynamicSize}, {Get(3)}>>),
    Word(NoErr, <<{Set(1, 2)}, {Set(2, 4)}, {Set(3, -5)}, {Set(4, 7), Calls(1)},
                  {Calls(1), Alloca(4)}, {Get(1)}, {Get(2), Get(4)}, {Get(3), Get(1)},
                  {Get(4), Get(2)}>>)>>

\* Locals which are never read, and the length of the prologue.
Params ==
  <<Word(NoErr, <<{MCParam(1), MCParam(2)}, {MCParam(1), MCParam(2), Recurs, Get(1)},
                  {Get(1), Get(2), Intrin}>>),
    Word(NoErr, <<{MCParam(1)}, {MCParam(2)}, {Calls(1), Get(2)}, {Get(1), Rets}>>)>>

\* Errors of calls, intrinsics and recursion, in every pair of registers.
Errors ==
  <<Word(AnyErr, <<{Throws, Intrin, Rets}>>),
    Word(AnyErr, <<{Calls(1)}, {Set(1, 3), Recurs}, {Calls(1), Rets}>>)>>

Recursions ==
  <<Word(AnyErr, <<{Set(1, -3)}, {Recurs, Throws}, {Get(1), Recurs}, {Get(1)}>>)>>

\* What may be copied into a caller, and into the callers of the caller.
Inlines ==
  <<Word({-1, 0}, <<{Adr(500), Adr(504), Throws, Alloca(1), Rets}>>),
    Word({-1, 0}, <<{Calls(1), Intrin}>>),
    Word({-1, 0}, <<{Calls(1), Calls(2), Set(1, -3)}, {Calls(2)}>>)>>

MCFamilies == {Immediates, Frames, Homes, Params, Errors, Recursions, Inlines}
====
