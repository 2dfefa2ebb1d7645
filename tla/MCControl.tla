----------------------------- MODULE MCControl -----------------------------
(***************************************************************************)
(* Kinds of words: with constants and compares, with chains of `elif',     *)
(* with loops and stores, with nested loops.                               *)
(***************************************************************************)
EXTENDS Control

Compares ==
  [tokens |-> {"load", "0", "1", "=0", "=",
               "then", "else", "end", "ret"},
   out |-> 1, max |-> 8]
Chains ==
  [tokens |-> {"load", "then", "elif", "else", "end", "ret"},
   out |-> 0, max |-> 11]
Loops ==
  [tokens |-> {"load", "store", "=0", "then", "else", "end",
               "loop", "leave", "while", "again"},
   out |-> 0, max |-> 8]
Nested ==
  [tokens |-> {"load", "loop", "leave", "while", "end"},
   out |-> 0, max |-> 9]
\* The fewest tokens which make a compare meet a join.
Joins ==
  [tokens |-> {"load", "=0", "then", "end", "ret"},
   out |-> 0, max |-> 9]

AllKinds  == {Compares, Chains, Loops, Nested}
JoinsOnly == {Joins}
=============================================================================
