------------------------------ MODULE Wordlist ------------------------------
(***************************************************************************)
(* What a programmer relies on while using the interpreter: a finished     *)
(* word stays what it is until another one of that name is finished.       *)
(* Whatever happens in between (words begun and abandoned, errors,         *)
(* imports) is invisible here.                                             *)
(***************************************************************************)
EXTENDS Naturals

CONSTANTS
  Name,
  Def   \* definitions, as numbers in the order they are begun

VARIABLE words  \* the definitions each name leads to: at most one

Init == words = [n \in Name |-> {}]

\* The word n is finished; d is a definition which was never seen before.
Define(n, d) ==
  /\ \A m \in Name : \A e \in words[m] : e < d
  /\ words' = [words EXCEPT ![n] = {d}]

Next == \E n \in Name, d \in Def : Define(n, d)

Spec == Init /\ [][Next]_words
=============================================================================
